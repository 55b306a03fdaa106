-------------------------- MODULE IoTriggerProofs --------------------------
(***************************************************************************)
(* Theorems about IoTrigger: type correctness; that an output that is      *)
(* still on when everything is over has an excuse, with an inductive       *)
(* invariant that says, at any time, who is going to switch it off; and    *)
(* that a reset spares the holder of the lock, with one that compares the  *)
(* sleeps of the two children.                                             *)
(***************************************************************************)
EXTENDS IoTrigger, TLAPS

OffMsg(ch) == [chan |-> ch, val |-> NoChild]

\* A trigger an alert has still to reach has no child yet.
Unreached ==
  \A a \in Alerts, t \in Triggers :
    calls[a] = "idle" \/ t \in todo[a] => pc[<<a, t>>] = "none"

\* Only the children of slots publish, and only those of TCP devices lock.
Protocols ==
  /\ \A c \in Children :
       /\ pc[c] = "on" => Proto[Row(c)] = "SLOT_IO"
       /\ pc[c] \in {"lock", "write", "check"} => Proto[Row(c)] = "TCPIP"
  /\ \A i \in 1 .. Len(queue) :
       queue[i].val # NoChild => Proto[Row(queue[i].val)] = "SLOT_IO"

\* A TCP device: the child that switched it on is before its lock, or a child
\* of the row has opened the lock, holds it, or has found that it holds it.
TcpPending(c) ==
  \/ pc[c] = "lock"
  \/ \E q \in Children :
       /\ Row(q) = Row(c)
       /\ \/ pc[q] \in {"write", "off"}
          \/ pc[q] = "check" /\ lockFile[Row(c)] = q

\* A slot: the child is going to publish the message that switches it off, or
\* it is in the queue behind place i.
SlotPending(c, ch, i) ==
  \/ pc[c] = "on"
  \/ pc[c] = "off" /\ ch \in chans[c]
  \/ \E j \in i + 1 .. Len(queue) : queue[j] = OffMsg(ch)

TcpInv ==
  \A c \in Children, ch \in Channels :
    out[ch] = c /\ Proto[Row(c)] = "TCPIP" /\ ~Excused(c, ch) => TcpPending(c)

ModbusInv ==
  \A c \in Children, ch \in Channels :
    out[ch] = c /\ Proto[Row(c)] \notin {"TCPIP", "SLOT_IO"} /\ ~Excused(c, ch)
    => pc[c] = "off"

SlotInv ==
  \A c \in Children, ch \in Channels :
    Proto[Row(c)] = "SLOT_IO" /\ ~Excused(c, ch) =>
      /\ out[ch] = c => SlotPending(c, ch, 0)
      /\ \A i \in 1 .. Len(queue) :
           queue[i] = [chan |-> ch, val |-> c] => SlotPending(c, ch, i)

IInv == TypeOK /\ Unreached /\ Protocols /\ TcpInv /\ ModbusInv /\ SlotInv

\* A child that is about to switch a TCP device off has been connecting for as
\* long, at least, as the one has waited that has taken the lock from it.
OffInv ==
  \A c \in Children : pc[c] = "off" /\ Proto[Row(c)] = "TCPIP" =>
    /\ timer[c] <= ConnectTime
    /\ \A q \in Children \ {c} :
         lockFile[Row(c)] = q /\ pc[q] = "check"
         => timer[q] + ConnectTime >= ResetTime[Row(q)] + timer[c]
-----------------------------------------------------------------------------
LEMMA RowType ==
  /\ \A c \in Children : Row(c) \in Triggers /\ c # NoChild /\ c # NoLock /\ c # Torn
  /\ \A a \in Alerts, t \in Triggers : <<a, t>> \in Children /\ Row(<<a, t>>) = t
BY NullAssumption DEF Children, Row

\* What the parts of an action do to the types.
LEMMA StepTypes ==
  ASSUME TypeOK, NEW c \in Children
  PROVE  /\ \A s \in Steps : Goto(c, s) => pc' \in [Children -> Steps]
         /\ \A n \in Nat : Sleep(c, n) => timer' \in [Children -> Nat]
         /\ Fail(c) => failed' \subseteq Children
         /\ \A chs : \A by \in Children \cup {NoChild} :
              Set(chs, by) \in [Channels -> Children \cup {NoChild}]
         /\ ResetTime[Row(c)] \in Nat
         /\ Enable[Row(c)] \subseteq Channels
         /\ Reset[Row(c)] \subseteq Channels
<1>1. \A s \in Steps : Goto(c, s) => pc' \in [Children -> Steps]
  BY DEF TypeOK, Goto
<1>2. \A n \in Nat : Sleep(c, n) => timer' \in [Children -> Nat]
  BY DEF TypeOK, Sleep
<1>3. \A chs : \A by \in Children \cup {NoChild} :
        Set(chs, by) \in [Channels -> Children \cup {NoChild}]
  BY DEF TypeOK, Set
<1>4. QED
  BY <1>1, <1>2, <1>3, RowType, RowAssumption DEF TypeOK, Fail

\* Appending a message keeps the queue a queue.
LEMMA QueueAppend ==
  ASSUME TypeOK, NEW ch \in Channels, NEW v \in Children \cup {NoChild},
         NEW q, q = Append(queue, [chan |-> ch, val |-> v])
  PROVE  /\ q \in Seq([chan : Channels, val : Children \cup {NoChild}])
         /\ Len(queue) \in Nat /\ Len(q) = Len(queue) + 1
         /\ q[Len(queue) + 1] = [chan |-> ch, val |-> v]
         /\ \A i \in 1 .. Len(queue) : q[i] = queue[i]
<1> DEFINE M == [chan : Channels, val : Children \cup {NoChild}]
<1>1. queue \in Seq(M) /\ [chan |-> ch, val |-> v] \in M
  BY DEF TypeOK
<1> HIDE DEF M
<1>2. q \in Seq(M)
  BY <1>1
<1>3. Len(queue) \in Nat /\ Len(q) = Len(queue) + 1
  BY <1>1
<1>4. QED
  BY <1>1, <1>2, <1>3 DEF M

\* Taking the first message moves the others up.
LEMMA QueueTail ==
  ASSUME TypeOK, queue # << >>
  PROVE  /\ Head(queue) = queue[1]
         /\ Head(queue) \in [chan : Channels, val : Children \cup {NoChild}]
         /\ Tail(queue) \in Seq([chan : Channels, val : Children \cup {NoChild}])
         /\ Len(queue) \in Nat \ {0}
         /\ Len(Tail(queue)) = Len(queue) - 1
         /\ \A i \in 1 .. Len(queue) - 1 : Tail(queue)[i] = queue[i + 1]
<1> DEFINE M == [chan : Channels, val : Children \cup {NoChild}]
<1>1. queue \in Seq(M)
  BY DEF TypeOK
<1> HIDE DEF M
<1>2. Len(queue) \in Nat \ {0} /\ Head(queue) = queue[1] /\ queue[1] \in M
  BY <1>1
<1>3. Tail(queue) \in Seq(M) /\ Len(Tail(queue)) = Len(queue) - 1
  BY <1>1
<1>4. \A i \in 1 .. Len(queue) - 1 : Tail(queue)[i] = queue[i + 1]
  BY <1>1, <1>2
<1>5. QED
  BY <1>2, <1>3, <1>4 DEF M

\* TypeOK: Spec keeps every variable in its type.
THEOREM TypeCorrect == Spec => []TypeOK
<1>1. Init => TypeOK
  BY DEF Init, TypeOK, Steps
<1>2. ASSUME TypeOK, [Next]_vars PROVE TypeOK'
  <2> USE <1>2 DEF TypeOK
  <2>1. ASSUME NEW a \in Alerts, Load(a) PROVE TypeOK'
    BY <2>1 DEF Load
  <2>2. ASSUME NEW a \in Alerts, Activate(a) PROVE TypeOK'
    <3>1. PICK t \in Triggers, rest \in SUBSET Triggers :
            /\ Goto(<<a, t>>, "start")
            /\ todo' = [todo EXCEPT ![a] = rest]
            /\ calls' = IF rest = {} THEN [calls EXCEPT ![a] = "ended"] ELSE calls
      BY <2>2 DEF Activate
    <3>2. pc' \in [Children -> Steps] /\ todo' \in [Alerts -> SUBSET Triggers]
          /\ calls' \in [Alerts -> {"idle", "activating", "ended"}]
      BY <3>1 DEF Goto, Steps
    <3>3. QED
      BY <2>2, <3>2 DEF Activate
  <2>3. ASSUME NEW c \in Children, TcpStep(c) PROVE TypeOK'
    <3> USE <2>3, StepTypes DEF Steps
    <3>1. CASE TcpOn(c)
      BY <3>1, TimeAssumption DEF TcpOn
    <3>2. CASE OpenLock(c)
      BY <3>2, RowType DEF OpenLock
    <3>3. CASE WriteLock(c)
      BY <3>3, RowType DEF WriteLock
    <3>4. CASE CheckLock(c)
      BY <3>4, TimeAssumption DEF CheckLock
    <3>5. QED
      BY <3>1, <3>2, <3>3, <3>4 DEF TcpStep
  <2>4. ASSUME NEW c \in Children, ModbusOn(c) PROVE TypeOK'
    BY <2>4, StepTypes DEF ModbusOn, Steps
  <2>5. ASSUME NEW c \in Children, SwitchOff(c) PROVE TypeOK'
    BY <2>5, StepTypes DEF SwitchOff, Steps
  <2>6. ASSUME NEW c \in Children, AmqpStep(c) PROVE TypeOK'
    <3> USE <2>6, StepTypes DEF Steps
    <3>1. CASE AmqpOpen(c)
      BY <3>1 DEF AmqpOpen
    <3>2. ASSUME NEW v \in Children \cup {NoChild}, Publish(c, v)
          PROVE  /\ chans' \in [Children -> SUBSET Channels]
                 /\ queue' \in Seq([chan : Channels, val : Children \cup {NoChild}])
                 /\ failed' \subseteq Children
      <4>1. PICK ch \in chans[c] :
              /\ chans' = [chans EXCEPT ![c] = @ \ {ch}]
              /\ \/ queue' = Append(queue, [chan |-> ch, val |-> v]) /\ failed' = failed
                 \/ failed' \in {failed, failed \cup {c}} /\ queue' = queue
        BY <3>2 DEF Publish
      <4>2. ch \in Channels
        OBVIOUS
      <4>3. QED
        BY <4>1, <4>2, QueueAppend
    <3>3. CASE AmqpOn(c)
      BY <3>2, <3>3 DEF AmqpOn
    <3>4. CASE AmqpPause(c)
      BY <3>4 DEF AmqpPause
    <3>5. CASE AmqpOff(c)
      BY <3>2, <3>5 DEF AmqpOff
    <3>6. CASE AmqpClose(c)
      BY <3>6 DEF AmqpClose
    <3>7. QED
      BY <3>1, <3>3, <3>4, <3>5, <3>6 DEF AmqpStep
  <2>7. CASE Deliver
    BY <2>7, QueueTail DEF Deliver, Set
  <2>8. ASSUME NEW c \in Children, Crash(c) PROVE TypeOK'
    BY <2>8, StepTypes DEF Crash, Steps
  <2>9. CASE Tick
    BY <2>9 DEF Tick
  <2>10. CASE UNCHANGED vars
    BY <2>10 DEF vars
  <2>11. QED
    BY <2>1, <2>2, <2>3, <2>4, <2>5, <2>6, <2>7, <2>8, <2>9, <2>10 DEF Next, Step
<1>3. QED
  BY <1>1, <1>2, PTL DEF Spec
-----------------------------------------------------------------------------
\* A child only moves itself, from where it is to a step of its protocol.
LEMMA ChildMoves ==
  ASSUME TypeOK, NEW c \in Children, Step(c) \/ Crash(c)
  PROVE  /\ UNCHANGED <<todo, calls>>
         /\ pc[c] # "none"
         /\ \A q \in Children \ {c} : pc'[q] = pc[q]
         /\ pc'[c] = "on" => pc[c] = "on" \/ Proto[Row(c)] = "SLOT_IO"
         /\ pc'[c] \in {"lock", "write", "check"} =>
              Proto[Row(c)] = "TCPIP" \/ pc[c] \in {"lock", "write", "check"}
<1> USE DEF TypeOK, Goto, Awake
<1>1. CASE TcpStep(c)
  BY <1>1 DEF TcpStep, TcpOn, OpenLock, WriteLock, CheckLock
<1>2. CASE ModbusOn(c) \/ SwitchOff(c)
  BY <1>2 DEF ModbusOn, SwitchOff
<1>3. CASE AmqpStep(c)
  BY <1>3 DEF AmqpStep, AmqpOpen, AmqpOn, AmqpPause, AmqpOff, AmqpClose
<1>4. CASE Crash(c)
  BY <1>4 DEF Crash
<1>5. QED
  BY <1>1, <1>2, <1>3, <1>4 DEF Step

\* A step that is no child's is one of an alert, of the queue, or of time.
LEMMA Others ==
  ASSUME [Next]_vars, \A c \in Children : ~(Step(c) \/ Crash(c))
  PROVE  \/ \E a \in Alerts : Load(a) \/ Activate(a)
         \/ Deliver
         \/ /\ UNCHANGED <<todo, calls, pc, chans, lockFile, queue, out, failed>>
BY DEF Next, Tick, vars

LEMMA UnreachedStep ==
  ASSUME TypeOK, Unreached, [Next]_vars
  PROVE  Unreached'
<1>1. ASSUME NEW c \in Children, Step(c) \/ Crash(c) PROVE Unreached'
  BY <1>1, ChildMoves, RowType DEF Unreached
<1>2. ASSUME NEW b \in Alerts, Load(b) PROVE Unreached'
  BY <1>2 DEF Load, Unreached, TypeOK
<1>3. ASSUME NEW b \in Alerts, Activate(b) PROVE Unreached'
  <2>1. PICK s \in todo[b], rest \in SUBSET todo[b] :
          /\ s \notin rest
          /\ pc' = [pc EXCEPT ![<<b, s>>] = "start"]
          /\ todo' = [todo EXCEPT ![b] = rest]
    BY <1>3 DEF Activate, Goto
  <2>2. calls[b] = "activating" /\ calls'[b] # "idle"
        /\ \A a \in Alerts \ {b} : calls'[a] = calls[a] /\ todo'[a] = todo[a]
    BY <1>3, <2>1 DEF Activate, TypeOK
  <2>3. s \in Triggers /\ <<b, s>> \in Children /\ todo'[b] = rest
    BY <2>1, RowType DEF TypeOK
  <2>4. ASSUME NEW a \in Alerts, NEW t \in Triggers, <<a, t>> # <<b, s>>
        PROVE  pc'[<<a, t>>] = pc[<<a, t>>]
    BY <2>1, <2>4, RowType DEF TypeOK
  <2>5. ASSUME NEW a \in Alerts, NEW t \in Triggers, 
               calls'[a] = "idle" \/ t \in todo'[a]
        PROVE  pc'[<<a, t>>] = "none"
    <3>1. <<a, t>> # <<b, s>>
      BY <2>1, <2>2, <2>3, <2>5
    <3>2. calls[a] = "idle" \/ t \in todo[a]
      BY <2>1, <2>2, <2>3, <2>5
    <3>3. QED
      BY <2>4, <3>1, <3>2 DEF Unreached
  <2>6. QED
    BY <2>5 DEF Unreached
<1>4. CASE Deliver
  BY <1>4 DEF Deliver, Unreached
<1>5. CASE UNCHANGED <<todo, calls, pc>>
  BY <1>5 DEF Unreached
<1>6. QED
  BY <1>1, <1>2, <1>3, <1>4, <1>5, Others

\* A step that starts a child starts one that was not there before.
LEMMA Starts ==
  ASSUME TypeOK, Unreached, NEW a \in Alerts, Load(a) \/ Activate(a)
  PROVE  /\ UNCHANGED <<timer, chans, lockFile, queue, out, failed>>
         /\ \A c \in Children :
              pc'[c] = pc[c] \/ (pc[c] = "none" /\ pc'[c] = "start")
<1>1. CASE Load(a)
  BY <1>1 DEF Load
<1>2. CASE Activate(a)
  <2>1. PICK t \in todo[a] : pc' = [pc EXCEPT ![<<a, t>>] = "start"]
    BY <1>2 DEF Activate, Goto
  <2>2. pc[<<a, t>>] = "none"
    BY <2>1 DEF Unreached, TypeOK
  <2>3. QED
    BY <1>2, <2>1, <2>2 DEF Activate, TypeOK
<1>3. QED
  BY <1>1, <1>2

\* What a child appends to the queue.
LEMMA Appends ==
  ASSUME TypeOK, NEW c \in Children, Step(c) \/ Crash(c), queue' # queue
  PROVE  \E ch \in chans[c], v \in {c, NoChild} :
           /\ queue' = Append(queue, [chan |-> ch, val |-> v])
           /\ v = c => pc[c] = "on"
           /\ v = NoChild => pc[c] = "off" /\ Proto[Row(c)] = "SLOT_IO"
           /\ chans' = [chans EXCEPT ![c] = @ \ {ch}]
           /\ UNCHANGED <<pc, lockFile, out, failed>>
<1>1. ~TcpStep(c) /\ ~ModbusOn(c) /\ ~SwitchOff(c) /\ ~Crash(c)
  BY DEF TcpStep, TcpOn, OpenLock, WriteLock, CheckLock, ModbusOn, SwitchOff, Crash
<1>2. AmqpOn(c) \/ AmqpOff(c)
  BY <1>1 DEF Step, AmqpStep, AmqpOpen, AmqpPause, AmqpClose
<1>3. c # NoChild
  BY RowType
<1>4. QED
  BY <1>2, <1>3 DEF AmqpOn, AmqpOff, Publish, Awake

LEMMA ProtocolsStep ==
  ASSUME TypeOK, Unreached, Protocols, [Next]_vars
  PROVE  Protocols'
<1>1. ASSUME NEW c \in Children, Step(c) \/ Crash(c) PROVE Protocols'
  <2>1. \A q \in Children :
          /\ pc'[q] = "on" => Proto[Row(q)] = "SLOT_IO"
          /\ pc'[q] \in {"lock", "write", "check"} => Proto[Row(q)] = "TCPIP"
    BY <1>1, ChildMoves DEF Protocols
  <2>2. CASE queue' = queue
    BY <2>1, <2>2 DEF Protocols
  <2>3. CASE queue' # queue
    <3> chans[c] \subseteq Channels
      BY DEF TypeOK
    <3>1. PICK ch \in chans[c], v \in {c, NoChild} :
            /\ queue' = Append(queue, [chan |-> ch, val |-> v])
            /\ v = c => pc[c] = "on"
      BY <1>1, <2>3, Appends
    <3>2. /\ Len(queue) \in Nat /\ Len(queue') = Len(queue) + 1
          /\ queue'[Len(queue) + 1] = [chan |-> ch, val |-> v]
          /\ \A i \in 1 .. Len(queue) : queue'[i] = queue[i]
      BY <3>1, QueueAppend
    <3>3. v # NoChild => Proto[Row(v)] = "SLOT_IO"
      BY <3>1 DEF Protocols
    <3>4. \A i \in 1 .. Len(queue') :
            queue'[i].val # NoChild => Proto[Row(queue'[i].val)] = "SLOT_IO"
      BY <3>2, <3>3 DEF Protocols
    <3>5. QED
      BY <2>1, <3>4 DEF Protocols
  <2>4. QED
    BY <2>2, <2>3
<1>2. ASSUME NEW a \in Alerts, Load(a) \/ Activate(a) PROVE Protocols'
  BY <1>2, Starts DEF Protocols
<1>3. CASE Deliver
  <2>1. Len(queue') = Len(queue) - 1 /\ Len(queue) \in Nat
        /\ \A i \in 1 .. Len(queue) - 1 : queue'[i] = queue[i + 1]
    BY <1>3, QueueTail DEF Deliver
  <2>2. \A i \in 1 .. Len(queue') :
          queue'[i].val # NoChild => Proto[Row(queue'[i].val)] = "SLOT_IO"
    BY <2>1 DEF Protocols
  <2>3. QED
    BY <1>3, <2>2 DEF Deliver, Protocols
<1>4. CASE UNCHANGED <<todo, calls, pc, chans, lockFile, queue, out, failed>>
  BY <1>4 DEF Protocols
<1>5. QED
  BY <1>1, <1>2, <1>3, <1>4, Others
-----------------------------------------------------------------------------
\* Nobody mends a failed child, and a lock file changes at the hands of a
\* child of its row only.
LEMMA Excuses ==
  ASSUME TypeOK, Protocols, [Next]_vars
  PROVE  /\ failed \subseteq failed'
         /\ \A t \in Triggers : lockFile'[t] = lockFile[t] \/ Proto[t] = "TCPIP"
<1> USE DEF TypeOK
<1>1. ASSUME NEW c \in Children, TcpStep(c)
      PROVE  /\ failed \subseteq failed'
             /\ \A t \in Triggers : lockFile'[t] = lockFile[t] \/ Proto[t] = "TCPIP"
  BY <1>1, RowType DEF TcpStep, TcpOn, OpenLock, WriteLock, CheckLock, Fail, Awake, Protocols
<1>2. ASSUME NEW c \in Children,
             ModbusOn(c) \/ SwitchOff(c) \/ AmqpStep(c) \/ Crash(c)
      PROVE  failed \subseteq failed' /\ lockFile' = lockFile
  BY <1>2 DEF ModbusOn, SwitchOff, AmqpStep, AmqpOpen, AmqpOn, AmqpPause, AmqpOff,
              AmqpClose, Publish, Crash, Fail
<1>3. CASE \A c \in Children : ~(Step(c) \/ Crash(c))
  BY <1>3, Others DEF Load, Activate, Deliver
<1>4. QED
  BY <1>1, <1>2, <1>3 DEF Step

LEMMA ExcusedStays ==
  ASSUME TypeOK, Protocols, [Next]_vars,
         NEW c \in Children, NEW ch \in Channels, ~Excused(c, ch)',
         Proto[Row(c)] # "TCPIP" \/ lockFile'[Row(c)] = lockFile[Row(c)]
  PROVE  ~Excused(c, ch)
BY Excuses, RowType DEF Excused

\* A child sets outputs to itself or switches them off.
LEMMA Sets ==
  ASSUME TypeOK, NEW r \in Children, Step(r) \/ Crash(r),
         NEW c \in Children \ {r}, NEW ch \in Channels, out'[ch] = c
  PROVE  out[ch] = c
<1> USE RowType DEF TypeOK, Set
<1>1. CASE TcpStep(r)
  BY <1>1 DEF TcpStep, TcpOn, OpenLock, WriteLock, CheckLock
<1>2. CASE ModbusOn(r) \/ SwitchOff(r)
  BY <1>2 DEF ModbusOn, SwitchOff
<1>3. CASE AmqpStep(r) \/ Crash(r)
  BY <1>3 DEF AmqpStep, AmqpOpen, AmqpOn, AmqpPause, AmqpOff, AmqpClose, Crash
<1>4. QED
  BY <1>1, <1>2, <1>3 DEF Step

\* The steps of a row leave the locks of the others alone.
LEMMA OtherLocks ==
  ASSUME TypeOK, NEW r \in Children, Step(r) \/ Crash(r),
         NEW t \in Triggers \ {Row(r)}
  PROVE  lockFile'[t] = lockFile[t]
<1> USE RowType DEF TypeOK
<1>1. CASE TcpStep(r)
  BY <1>1 DEF TcpStep, TcpOn, OpenLock, WriteLock, CheckLock
<1>2. CASE ModbusOn(r) \/ SwitchOff(r) \/ Crash(r)
  BY <1>2 DEF ModbusOn, SwitchOff, Crash
<1>3. CASE AmqpStep(r)
  BY <1>3 DEF AmqpStep, AmqpOpen, AmqpOn, AmqpPause, AmqpOff, AmqpClose
<1>4. QED
  BY <1>1, <1>2, <1>3 DEF Step

\* Somebody is going to switch a TCP device off: what a child of its own row
\* can do to that.
LEMMA TcpOwnStep ==
  ASSUME TypeOK, Protocols, TcpInv, [Next]_vars,
         NEW r \in Children, Step(r) \/ Crash(r),
         NEW c \in Children, NEW ch \in Channels, Row(r) = Row(c),
         out'[ch] = c, Proto[Row(c)] = "TCPIP", ~Excused(c, ch)'
  PROVE  TcpPending(c)'
<1> DEFINE t == Row(c)
<1> USE RowType DEF TypeOK, Awake, Goto
<1>1. t \in Triggers /\ ch \in Reset[t] /\ ResetTime[t] > 0 /\ r \notin failed'
      /\ lockFile'[t] # Torn
  BY RowAssumption DEF Excused
<1>2. TcpStep(r) \/ SwitchOff(r)
  BY <1>1 DEF Step, Crash, Fail, ModbusOn, AmqpStep, AmqpOpen, AmqpOn, AmqpPause,
              AmqpOff, AmqpClose, Protocols
<1>3. CASE OpenLock(r)
  BY <1>1, <1>3 DEF OpenLock, Fail, TcpPending
<1>4. CASE WriteLock(r)
  BY <1>1, <1>4 DEF WriteLock, TcpPending
<1>5. CASE SwitchOff(r)
  BY <1>1, <1>5 DEF SwitchOff, Fail, Set
<1>6. CASE CheckLock(r) /\ lockFile[t] = r
  BY <1>1, <1>6 DEF CheckLock, Fail, TcpPending
<1>7. CASE TcpOn(r) /\ c = r
  BY <1>1, <1>7 DEF TcpOn, TcpPending
<1>8. CASE (TcpOn(r) /\ c # r) \/ (CheckLock(r) /\ lockFile[t] # r)
  <2>1. out[ch] = c /\ lockFile' = lockFile
    BY <1>8, Sets DEF TcpOn, CheckLock
  <2>2. TcpPending(c)
    BY <2>1, ExcusedStays DEF TcpInv
  <2>3. pc[r] \in {"start", "check"} /\ \A q \in Children \ {r} : pc'[q] = pc[q]
    BY <1>8 DEF TcpOn, CheckLock
  <2>4. pc[r] = "check" => lockFile[t] # r
    BY <1>8 DEF TcpOn
  <2>5. QED
    BY <2>1, <2>2, <2>3, <2>4 DEF TcpPending
<1>9. QED
  BY <1>2, <1>3, <1>4, <1>5, <1>6, <1>7, <1>8 DEF TcpStep

\* Any step leaves every TCP device that is on with somebody to switch it off.
LEMMA TcpInvStep ==
  ASSUME TypeOK, Unreached, Protocols, TcpInv, [Next]_vars
  PROVE  TcpInv'
<1> SUFFICES ASSUME NEW c \in Children, NEW ch \in Channels,
                    out'[ch] = c, Proto[Row(c)] = "TCPIP", ~Excused(c, ch)'
             PROVE  TcpPending(c)'
  BY DEF TcpInv
<1>1. ASSUME NEW r \in Children, Step(r) \/ Crash(r), Row(r) = Row(c)
      PROVE  TcpPending(c)'
  BY <1>1, TcpOwnStep
<1>2. ASSUME NEW r \in Children, Step(r) \/ Crash(r), Row(r) # Row(c)
      PROVE  TcpPending(c)'
  <2>1. out[ch] = c /\ lockFile'[Row(c)] = lockFile[Row(c)]
    BY <1>2, Sets, OtherLocks, RowType
  <2>2. TcpPending(c)
    BY <2>1, ExcusedStays DEF TcpInv
  <2>3. \A q \in Children : Row(q) = Row(c) => pc'[q] = pc[q]
    BY <1>2, ChildMoves
  <2>4. QED
    BY <2>1, <2>2, <2>3 DEF TcpPending
<1>3. ASSUME NEW a \in Alerts, Load(a) \/ Activate(a)
      PROVE  TcpPending(c)'
  BY <1>3, Starts, ExcusedStays DEF TcpInv, TcpPending
<1>4. CASE Deliver
  <2>1. out[ch] = c
    <3>1. Head(queue) = queue[1] /\ 1 \in 1 .. Len(queue)
      BY <1>4, QueueTail DEF Deliver
    <3>2. Head(queue).val # c
      BY <3>1, RowType DEF Protocols
    <3>3. QED
      BY <1>4, <3>2 DEF Deliver, Set
  <2>2. QED
    BY <1>4, <2>1, ExcusedStays DEF Deliver, TcpInv, TcpPending
<1>5. CASE UNCHANGED <<todo, calls, pc, chans, lockFile, queue, out, failed>>
  BY <1>5 DEF TcpInv, TcpPending, Excused
<1>6. QED
  BY <1>1, <1>2, <1>3, <1>4, <1>5, Others

\* A Modbus child that switched an output on keeps the step that switches it
\* off before it.
LEMMA ModbusInvStep ==
  ASSUME TypeOK, Unreached, Protocols, ModbusInv, [Next]_vars
  PROVE  ModbusInv'
<1> SUFFICES ASSUME NEW c \in Children, NEW ch \in Channels, out'[ch] = c,
                    Proto[Row(c)] \notin {"TCPIP", "SLOT_IO"}, ~Excused(c, ch)'
             PROVE  pc'[c] = "off"
  BY DEF ModbusInv
<1>1. out[ch] = c => pc[c] = "off"
  BY ExcusedStays DEF ModbusInv
<1>2. ASSUME Step(c) \/ Crash(c) PROVE pc'[c] = "off"
  <2>1. ch \in Reset[Row(c)] /\ ResetTime[Row(c)] > 0 /\ c \notin failed'
    BY RowType, RowAssumption DEF Excused
  <2>2. CASE ModbusOn(c)
    <3>1. CASE out' = out
      BY <1>1, <2>2, <3>1 DEF ModbusOn
    <3>2. CASE out' # out
      BY <2>1, <2>2, <3>2 DEF ModbusOn, Goto, TypeOK
    <3>3. QED
      BY <3>1, <3>2
  <2>3. CASE SwitchOff(c)
    BY <2>1, <2>3, RowType DEF SwitchOff, Fail, Set
  <2>4. CASE Crash(c)
    BY <2>1, <2>4 DEF Crash, Fail
  <2>5. ~TcpStep(c) /\ ~AmqpStep(c)
    BY DEF TcpStep, TcpOn, OpenLock, WriteLock, CheckLock, AmqpStep, AmqpOpen,
           AmqpOn, AmqpPause, AmqpOff, AmqpClose, Awake, Protocols
  <2>6. QED
    BY <1>2, <2>2, <2>3, <2>4, <2>5 DEF Step
<1>3. ASSUME NEW r \in Children \ {c}, Step(r) \/ Crash(r) PROVE pc'[c] = "off"
  BY <1>1, <1>3, Sets, ChildMoves
<1>4. ASSUME NEW a \in Alerts, Load(a) \/ Activate(a) PROVE pc'[c] = "off"
  BY <1>1, <1>4, Starts
<1>5. CASE Deliver
  <2>1. Head(queue) = queue[1] /\ 1 \in 1 .. Len(queue)
    BY <1>5, QueueTail DEF Deliver
  <2>2. Head(queue).val # c
    BY <2>1, RowType DEF Protocols
  <2>3. QED
    BY <1>1, <1>5, <2>2 DEF Deliver, Set
<1>6. CASE UNCHANGED <<todo, calls, pc, chans, lockFile, queue, out, failed>>
  BY <1>1, <1>6
<1>7. QED
  BY <1>2, <1>3, <1>4, <1>5, <1>6, Others
-----------------------------------------------------------------------------
\* What a slot's child has promised it keeps, as long as it publishes nothing.
LEMMA SlotKeeps ==
  ASSUME TypeOK, Protocols, NEW r \in Children, Step(r) \/ Crash(r), queue' = queue,
         NEW c \in Children, NEW ch \in Channels, Proto[Row(c)] = "SLOT_IO",
         ~Excused(c, ch)', NEW i \in Nat, SlotPending(c, ch, i)
  PROVE  SlotPending(c, ch, i)'
<1>1. ch \in Reset[Row(c)] /\ ResetTime[Row(c)] > 0 /\ c \notin failed'
  BY RowType, RowAssumption DEF Excused
<1> USE DEF TypeOK, Goto, SlotPending
<1>2. CASE r # c
  <2>1. chans'[c] = chans[c]
    BY <1>2 DEF Step, TcpStep, TcpOn, OpenLock, WriteLock, CheckLock, ModbusOn,
         SwitchOff, AmqpStep, AmqpOpen, AmqpOn, AmqpPause, AmqpOff, AmqpClose,
         Publish, Crash
  <2>2. pc'[c] = pc[c]
    BY <1>2, ChildMoves
  <2>3. QED
    BY <2>1, <2>2
<1>3. CASE r = c
  <2>1. AmqpStep(c)
    BY <1>1, <1>3 DEF Step, TcpStep, TcpOn, OpenLock, WriteLock, CheckLock, ModbusOn,
                      SwitchOff, Crash, Fail, Awake, Protocols
  <2>2. CASE AmqpOpen(c)
    BY <2>2 DEF AmqpOpen
  <2>3. CASE AmqpOn(c)
    BY <2>3 DEF AmqpOn
  <2>4. CASE AmqpPause(c)
    BY <1>1, <2>4 DEF AmqpPause
  <2>5. CASE AmqpOff(c)
    <3>1. PICK e \in chans[c] :
            \/ queue' = Append(queue, [chan |-> e, val |-> NoChild])
            \/ failed' = failed \cup {c}
      BY <2>5 DEF AmqpOff, Publish
    <3>2. queue' # Append(queue, [chan |-> e, val |-> NoChild])
      BY <3>1, QueueAppend
    <3>3. QED
      BY <1>1, <3>1, <3>2
  <2>6. CASE AmqpClose(c)
    <3>1. pc[c] = "off" /\ chans[c] = {}
      BY <2>6 DEF AmqpClose, Awake
    <3>2. \E j \in i + 1 .. Len(queue) : queue[j] = OffMsg(ch)
      BY <3>1
    <3>3. QED
      BY <3>2 DEF OffMsg
  <2>7. QED
    BY <2>1, <2>2, <2>3, <2>4, <2>5, <2>6 DEF AmqpStep
<1>4. QED
  BY <1>2, <1>3

\* A message that is published keeps the promises of its child, and those of
\* the others.
LEMMA SlotPublishes ==
  ASSUME TypeOK, NEW r \in Children, Step(r) \/ Crash(r), queue' # queue,
         NEW c \in Children, NEW ch \in Channels
  PROVE  /\ UNCHANGED out
         /\ Len(queue) \in Nat /\ Len(queue') = Len(queue) + 1
         /\ \A i \in 1 .. Len(queue) : queue'[i] = queue[i]
         /\ \A i \in 0 .. Len(queue) :
              SlotPending(c, ch, i) => SlotPending(c, ch, i)'
         /\ \A n \in Nat \ (0 .. Len(queue)) :
              n <= Len(queue') /\ queue'[n] = [chan |-> ch, val |-> c] =>
                SlotPending(c, ch, n)'
<1> chans[r] \subseteq Channels
  BY DEF TypeOK
<1>1. PICK e \in chans[r], v \in {r, NoChild} :
        /\ queue' = Append(queue, [chan |-> e, val |-> v])
        /\ v = r => pc[r] = "on"
        /\ v = NoChild => pc[r] = "off" /\ Proto[Row(r)] = "SLOT_IO"
        /\ chans' = [chans EXCEPT ![r] = @ \ {e}]
        /\ UNCHANGED <<pc, lockFile, out, failed>>
  BY Appends
<1>2. /\ Len(queue) \in Nat /\ Len(queue') = Len(queue) + 1
      /\ queue'[Len(queue) + 1] = [chan |-> e, val |-> v]
      /\ \A i \in 1 .. Len(queue) : queue'[i] = queue[i]
  BY <1>1, QueueAppend
<1>3. chans'[c] = IF c = r THEN chans[c] \ {e} ELSE chans[c]
  BY <1>1 DEF TypeOK
<1>4. ASSUME NEW i \in 0 .. Len(queue), SlotPending(c, ch, i)
      PROVE  SlotPending(c, ch, i)'
  <2>1. CASE pc[c] = "on"
    BY <1>1, <2>1 DEF SlotPending
  <2>2. CASE pc[c] = "off" /\ ch \in chans[c] /\ ~(c = r /\ ch = e)
    BY <1>1, <1>3, <2>2 DEF SlotPending
  <2>3. CASE pc[c] = "off" /\ c = r /\ ch = e
    <3>1. queue'[Len(queue) + 1] = OffMsg(ch)
      BY <1>1, <1>2, <2>3 DEF OffMsg
    <3>2. Len(queue) + 1 \in i + 1 .. Len(queue')
      BY <1>2
    <3>3. QED
      BY <3>1, <3>2 DEF SlotPending, OffMsg
  <2>4. CASE \E j \in i + 1 .. Len(queue) : queue[j] = OffMsg(ch)
    BY <1>2, <2>4 DEF SlotPending, OffMsg
  <2>5. QED
    BY <1>4, <2>1, <2>2, <2>3, <2>4 DEF SlotPending
<1>5. ASSUME NEW n \in Nat \ (0 .. Len(queue)), n <= Len(queue'),
             queue'[n] = [chan |-> ch, val |-> c]
      PROVE  SlotPending(c, ch, n)'
  <2>1. v = c
    <3> n = Len(queue) + 1
      BY <1>2, <1>5
    <3>1. [chan |-> e, val |-> v] = [chan |-> ch, val |-> c]
      BY <1>2, <1>5
    <3>2. [chan |-> e, val |-> v].val = [chan |-> ch, val |-> c].val
      BY <3>1
    <3>3. QED
      BY <3>2
  <2>2. c = r
    BY <2>1, RowType
  <2>3. QED
    BY <1>1, <2>1, <2>2 DEF SlotPending
<1>6. QED
  BY <1>1, <1>2, <1>4, <1>5

\* Any step leaves every slot's output that is on, or will be by a message in
\* the queue, with a message to come that switches it off.
LEMMA SlotInvStep ==
  ASSUME TypeOK, Unreached, Protocols, SlotInv, [Next]_vars
  PROVE  SlotInv'
<1> SUFFICES ASSUME NEW c \in Children, NEW ch \in Channels,
                    Proto[Row(c)] = "SLOT_IO", ~Excused(c, ch)'
             PROVE  /\ out'[ch] = c => SlotPending(c, ch, 0)'
                    /\ \A i \in 1 .. Len(queue') :
                         queue'[i] = [chan |-> ch, val |-> c] => SlotPending(c, ch, i)'
  BY DEF SlotInv
<1>1. /\ out[ch] = c => SlotPending(c, ch, 0)
      /\ \A i \in 1 .. Len(queue) :
           queue[i] = [chan |-> ch, val |-> c] => SlotPending(c, ch, i)
  BY ExcusedStays DEF SlotInv
<1> DEFINE Kept == /\ out'[ch] = c => SlotPending(c, ch, 0)'
                   /\ \A i \in 1 .. Len(queue') :
                        queue'[i] = [chan |-> ch, val |-> c] => SlotPending(c, ch, i)'
<1>2. ASSUME NEW r \in Children, Step(r) \/ Crash(r), queue' = queue PROVE Kept
  <2>1. \A i \in Nat : SlotPending(c, ch, i) => SlotPending(c, ch, i)'
    BY <1>2, SlotKeeps
  <2>2. out'[ch] = c => out[ch] = c
    <3>1. CASE r # c
      BY <1>2, <3>1, Sets
    <3>2. CASE r = c
      BY <1>2, <3>2 DEF Step, TcpStep, TcpOn, OpenLock, WriteLock, CheckLock, ModbusOn,
           SwitchOff, AmqpStep, AmqpOpen, AmqpOn, AmqpPause, AmqpOff, AmqpClose, Crash
    <3>3. QED
      BY <3>1, <3>2
  <2>3. QED
    BY <1>1, <1>2, <2>1, <2>2
<1>3. ASSUME NEW r \in Children, Step(r) \/ Crash(r), queue' # queue PROVE Kept
  <2>1. /\ out' = out /\ Len(queue) \in Nat /\ Len(queue') = Len(queue) + 1
        /\ \A i \in 1 .. Len(queue) : queue'[i] = queue[i]
        /\ \A i \in 0 .. Len(queue) :
             SlotPending(c, ch, i) => SlotPending(c, ch, i)'
        /\ \A n \in Nat \ (0 .. Len(queue)) :
             n <= Len(queue') /\ queue'[n] = [chan |-> ch, val |-> c] =>
               SlotPending(c, ch, n)'
    BY <1>3, SlotPublishes
  <2>2. out'[ch] = c => SlotPending(c, ch, 0)'
    BY <1>1, <2>1
  <2>3. ASSUME NEW i \in 1 .. Len(queue'), queue'[i] = [chan |-> ch, val |-> c]
        PROVE  SlotPending(c, ch, i)'
    <3>1. CASE i \in Nat \ (0 .. Len(queue))
      BY <2>1, <2>3, <3>1
    <3>2. CASE i \in 1 .. Len(queue)
      BY <1>1, <2>1, <2>3, <3>2
    <3>3. QED
      BY <2>1, <3>1, <3>2
  <2>4. QED
    BY <2>2, <2>3
<1>4. ASSUME NEW a \in Alerts, Load(a) \/ Activate(a) PROVE Kept
  BY <1>1, <1>4, Starts DEF SlotPending
<1>5. CASE Deliver
  <2>1. /\ queue # << >> /\ Head(queue) = queue[1] /\ Len(queue) \in Nat \ {0}
        /\ Head(queue) \in [chan : Channels, val : Children \cup {NoChild}]
        /\ Len(queue') = Len(queue) - 1
        /\ \A i \in 1 .. Len(queue') : queue'[i] = queue[i + 1]
        /\ UNCHANGED <<pc, chans>>
    BY <1>5, QueueTail DEF Deliver
  <2>2. out'[ch] = IF Head(queue).chan = ch THEN Head(queue).val ELSE out[ch]
    BY <1>5 DEF Deliver, Set
  <2>3. ASSUME NEW i \in Nat, SlotPending(c, ch, i + 1)
        PROVE  SlotPending(c, ch, i)'
    <3>1. ASSUME NEW j \in i + 2 .. Len(queue), queue[j] = OffMsg(ch)
          PROVE  j - 1 \in i + 1 .. Len(queue') /\ queue'[j - 1] = OffMsg(ch)
      BY <2>1, <3>1
    <3>2. QED
      BY <2>1, <2>3, <3>1 DEF SlotPending, OffMsg
  <2>4. ASSUME out'[ch] = c PROVE SlotPending(c, ch, 0)'
    <3>1. CASE Head(queue).chan = ch
      <4>1. Head(queue) = [chan |-> ch, val |-> c]
        BY <2>1, <2>2, <2>4, <3>1
      <4>2. SlotPending(c, ch, 1)
        BY <1>1, <2>1, <4>1
      <4>3. QED
        BY <2>3, <4>2
    <3>2. CASE Head(queue).chan # ch
      <4>1. SlotPending(c, ch, 0) /\ queue[1] # OffMsg(ch)
        BY <1>1, <2>1, <2>2, <2>4, <3>2 DEF OffMsg
      <4>2. SlotPending(c, ch, 1)
        BY <2>1, <4>1 DEF SlotPending
      <4>3. QED
        BY <2>3, <4>2
    <3>3. QED
      BY <3>1, <3>2
  <2>5. ASSUME NEW i \in 1 .. Len(queue'), queue'[i] = [chan |-> ch, val |-> c]
        PROVE  SlotPending(c, ch, i)'
    <3>1. i + 1 \in 1 .. Len(queue) /\ queue[i + 1] = [chan |-> ch, val |-> c]
      BY <2>1, <2>5
    <3>2. SlotPending(c, ch, i + 1)
      BY <1>1, <3>1
    <3>3. QED
      BY <2>3, <3>2
  <2>6. QED
    BY <2>4, <2>5
<1>6. CASE UNCHANGED <<todo, calls, pc, chans, lockFile, queue, out, failed>>
  BY <1>1, <1>6 DEF SlotPending
<1>7. QED
  BY <1>2, <1>3, <1>4, <1>5, <1>6, Others
-----------------------------------------------------------------------------
LEMMA Invariant == Spec => []IInv
<1>1. Init => Unreached /\ Protocols /\ TcpInv /\ ModbusInv /\ SlotInv
  BY RowType DEF Init, Unreached, Protocols, TcpInv, ModbusInv, SlotInv
<1>2. ASSUME IInv, TypeOK', [Next]_vars PROVE IInv'
  BY <1>2, UnreachedStep, ProtocolsStep, TcpInvStep, ModbusInvStep, SlotInvStep DEF IInv
<1>3. QED
  BY <1>1, <1>2, TypeCorrect, PTL DEF Spec, IInv

\* QuietIsOff: when every child has ended and the queue is read, an output is
\* on only if its row has no reset, a child of its row failed, or two of them
\* garbled the lock file.
THEOREM OutputsAreReset == Spec => []QuietIsOff
<1>1. ASSUME IInv PROVE QuietIsOff
  <2> SUFFICES ASSUME \A c \in Children : pc[c] \in {"none", "done"}, queue = << >>,
                      NEW ch \in Channels, out[ch] # NoChild, ~Excused(out[ch], ch)
               PROVE  FALSE
    BY DEF QuietIsOff
  <2>1. out[ch] \in Children
    BY <1>1 DEF IInv, TypeOK
  <2>2. ~TcpPending(out[ch]) /\ ~SlotPending(out[ch], ch, 0) /\ pc[out[ch]] # "off"
    BY <2>1 DEF TcpPending, SlotPending
  <2>3. QED
    BY <1>1, <2>1, <2>2 DEF IInv, TcpInv, ModbusInv, SlotInv
<1>2. QED
  BY <1>1, Invariant, PTL
-----------------------------------------------------------------------------
\* A child of a TCP device gets to its reset only by finding its own number.
LEMMA OffMoves ==
  ASSUME TypeOK, Protocols, NEW x \in Children, Step(x) \/ Crash(x),
         NEW c \in Children, Proto[Row(c)] = "TCPIP", pc'[c] = "off"
  PROVE  \/ x # c /\ pc[c] = "off" /\ timer'[c] = timer[c]
         \/ /\ x = c /\ lockFile[Row(c)] = c /\ UNCHANGED lockFile
            /\ timer'[c] \in 0 .. ConnectTime
<1> USE DEF TypeOK, Goto, Sleep, Awake
<1>1. CASE TcpStep(x)
  BY <1>1 DEF TcpStep, TcpOn, OpenLock, WriteLock, CheckLock
<1>2. CASE ModbusOn(x) \/ SwitchOff(x)
  BY <1>2 DEF ModbusOn, SwitchOff
<1>3. CASE AmqpStep(x)
  BY <1>3 DEF AmqpStep, AmqpOpen, AmqpOn, AmqpPause, AmqpOff, AmqpClose, Protocols
<1>4. CASE Crash(x)
  BY <1>4 DEF Crash
<1> QED BY <1>1, <1>2, <1>3, <1>4 DEF Step

\* A child that waits with its number in the file of a row has just begun to
\* wait, or did before: the steps of others only take the file from it.
LEMMA CheckMoves ==
  ASSUME TypeOK, NEW x \in Children, Step(x) \/ Crash(x),
         NEW q \in Children, NEW t \in Triggers, lockFile'[t] = q, pc'[q] = "check"
  PROVE  \/ timer'[q] = ResetTime[Row(q)]
         \/ x # q /\ pc[q] = "check" /\ timer'[q] = timer[q] /\ lockFile[t] = q
<1> q # NoLock /\ q # Torn /\ Row(x) \in Triggers
  BY RowType
<1> USE DEF TypeOK, Goto, Sleep, Awake
<1>1. CASE TcpStep(x)
  BY <1>1 DEF TcpStep, TcpOn, OpenLock, WriteLock, CheckLock
<1>2. CASE ModbusOn(x) \/ SwitchOff(x)
  BY <1>2 DEF ModbusOn, SwitchOff
<1>3. CASE AmqpStep(x)
  BY <1>3 DEF AmqpStep, AmqpOpen, AmqpOn, AmqpPause, AmqpOff, AmqpClose
<1>4. CASE Crash(x)
  BY <1>4 DEF Crash
<1> QED BY <1>1, <1>2, <1>3, <1>4 DEF Step

LEMMA OffInvStep ==
  ASSUME TypeOK, TypeOK', Unreached, Protocols, OffInv, [Next]_vars
  PROVE  OffInv'
<1> SUFFICES ASSUME NEW c \in Children, Proto[Row(c)] = "TCPIP", pc'[c] = "off"
             PROVE  /\ timer'[c] <= ConnectTime
                    /\ \A q \in Children \ {c} :
                         lockFile'[Row(c)] = q /\ pc'[q] = "check"
                         => timer'[q] + ConnectTime >= ResetTime[Row(q)] + timer'[c]
  BY DEF OffInv
<1>0. /\ Row(c) \in Triggers /\ ConnectTime \in Nat
      /\ \A q \in Children : timer[q] \in Nat /\ timer'[q] \in Nat /\ ResetTime[Row(q)] \in Nat
  BY RowType, RowAssumption, TimeAssumption DEF TypeOK
<1>1. ASSUME NEW x \in Children, Step(x) \/ Crash(x)
      PROVE  /\ timer'[c] <= ConnectTime
             /\ \A q \in Children \ {c} :
                  lockFile'[Row(c)] = q /\ pc'[q] = "check"
                  => timer'[q] + ConnectTime >= ResetTime[Row(q)] + timer'[c]
  <2>1. timer'[c] <= ConnectTime
    BY <1>0, <1>1, OffMoves DEF OffInv
  <2>2. ASSUME NEW q \in Children \ {c}, lockFile'[Row(c)] = q, pc'[q] = "check"
        PROVE  timer'[q] + ConnectTime >= ResetTime[Row(q)] + timer'[c]
    <3>1. CASE timer'[q] = ResetTime[Row(q)]
      BY <1>0, <2>1, <3>1
    <3>2. CASE pc[q] = "check" /\ timer'[q] = timer[q] /\ lockFile[Row(c)] = q
      <4>1. pc[c] = "off" /\ timer'[c] = timer[c]
        BY <1>1, <2>2, <3>2, OffMoves
      <4> QED BY <2>2, <3>2, <4>1 DEF OffInv
    <3> QED BY <1>0, <1>1, <2>2, <3>1, <3>2, CheckMoves
  <2> QED BY <2>1, <2>2
<1>2. CASE Tick
  <2>1. \A q \in Children : pc[q] \in {"off", "check"} =>
          timer[q] > 0 /\ timer'[q] = timer[q] - 1
    BY <1>0, <1>2 DEF Tick
  <2>2. UNCHANGED <<pc, lockFile>>
    BY <1>2 DEF Tick
  <2> QED BY <1>0, <2>1, <2>2 DEF OffInv
<1>3. CASE UNCHANGED <<timer, lockFile>> /\ \A q \in Children :
             pc'[q] = pc[q] \/ pc'[q] = "start"
  BY <1>3 DEF OffInv
<1>4. ASSUME NEW a \in Alerts, Load(a) \/ Activate(a)
      PROVE  UNCHANGED <<timer, lockFile>> /\ \A q \in Children :
               pc'[q] = pc[q] \/ pc'[q] = "start"
  BY <1>4, Starts
<1>5. Deliver => UNCHANGED <<timer, lockFile, pc>>
  BY DEF Deliver
<1> QED BY <1>1, <1>2, <1>3, <1>4, <1>5 DEF Next, vars

\* The reset of an older alert switches the TCP device of a younger one off
\* only if that took the lock while the older one was connecting, so that its
\* pause is no older than ConnectTime.  Any number of alerts, all faults.
THEOREM ResetsSpareTheHolder == Spec => OffSparesHolder
<1>1. Init => OffInv
  BY DEF Init, OffInv
<1>2. ASSUME IInv, OffInv, TypeOK', [Next]_vars PROVE OffInv'
  BY <1>2, OffInvStep DEF IInv
<1>3. ASSUME IInv, OffInv, NEW c \in Children, pc[c] = "off", Proto[Row(c)] = "TCPIP",
             NEW q \in Children \ {c}, lockFile[Row(c)] = q, pc[q] = "check"
      PROVE  timer[q] + ConnectTime >= ResetTime[Row(q)]
  <2>1. timer[q] + ConnectTime >= ResetTime[Row(q)] + timer[c]
    BY <1>3 DEF OffInv
  <2>2. /\ timer[q] \in Nat /\ timer[c] \in Nat /\ ConnectTime \in Nat
        /\ ResetTime[Row(q)] \in Nat
    BY <1>3, RowType, RowAssumption, TimeAssumption DEF IInv, TypeOK
  <2> QED BY <2>1, <2>2
<1>4. ASSUME IInv, OffInv
      PROVE  [ \A c \in Children :
                 pc[c] = "off" /\ pc'[c] = "done" /\ out' # out /\ Proto[Row(c)] = "TCPIP" =>
                   \A q \in Children \ {c} :
                     lockFile[Row(c)] = q /\ pc[q] = "check"
                     => timer[q] + ConnectTime >= ResetTime[Row(q)] ]_vars
  BY <1>3, <1>4
<1> QED
  BY <1>1, <1>2, <1>4, Invariant, TypeCorrect, PTL DEF Spec, OffSparesHolder
=============================================================================
