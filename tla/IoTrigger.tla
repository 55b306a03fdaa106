----------------------------- MODULE IoTrigger -----------------------------
(***************************************************************************)
(* Watchman::IO (lib/Watchman/IO.pm): the relays, sirens and lamps that an *)
(* alert switches on and that are switched off again ResetTime later.      *)
(* Every alert forks a child for each trigger of IO_Device that concerns   *)
(* it.  Three protocols are in use: a TCP device, guarded by a lock file   *)
(* per trigger as the LED signs are; a Modbus device, without a lock; and  *)
(* the slots of a LinPAC, served by whoever reads a message queue, without *)
(* a lock.                                                                 *)
(*                                                                         *)
(* Time is counted in ticks, and a child that is not asleep runs within    *)
(* the tick.  Children draw distinct lock numbers; a number stands for the *)
(* child that drew it.                                                     *)
(***************************************************************************)
EXTENDS Naturals, Sequences, FiniteSets

CONSTANTS
  Alerts,       \* calls of Watchman::IO->new
  Keys,         \* Keys[a]: the units and tones of alert a
  Triggers,     \* rows of IO_Device
  Event,        \* Event[t]: the unit or tone of a row, or Always
  Always,       \* EventType 0
  Proto,        \* Proto[t]: TriggerType
  Channels,     \* outputs of all devices
  Enable,       \* Enable[t]: the channels t switches on
  Reset,        \* Reset[t]: the channels t switches off
  ResetTime,    \* ResetTime[t]: ticks, 0 for never
  AnswerTime,   \* ticks until a TCP device has answered
  ConnectTime,  \* bound: ticks a successful connect may take
  NoChild,
  NoLock,       \* an empty or missing lock file
  Torn,         \* a lock file with digits of two numbers
  Failures      \* bound: children that a failure keeps from their reset

Protos   == {"TCPIP", "MB_TCP", "MB_RTU", "MB_RTUIP", "SLOT_IO"}
Children == Alerts \X Triggers

ASSUME RowAssumption ==
  /\ Proto \in [Triggers -> Protos]
  /\ Enable \in [Triggers -> SUBSET Channels]
  /\ Reset \in [Triggers -> SUBSET Channels]
  /\ ResetTime \in [Triggers -> Nat]
  /\ \A t \in Triggers : Proto[t] = "TCPIP" => Reset[t] = Enable[t]
ASSUME NullAssumption ==
  /\ NoChild \notin Children
  /\ {NoLock, Torn} \cap Children = {}
  /\ NoLock # Torn
ASSUME TimeAssumption == AnswerTime \in Nat /\ ConnectTime \in Nat
ASSUME FailAssumption == Failures \in Nat

VARIABLES
  todo,      \* todo[a]: the triggers activate_IO of a has still to go through
  calls,     \* calls[a]: how far the call of Watchman::IO->new is
  pc,        \* pc[c]: what child c does when its sleep is over
  timer,     \* timer[c]: ticks left of its sleep
  chans,     \* chans[c]: the channels c has still to publish
  lockFile,  \* lockFile[t]: the number in io_<TriggerID>.lock
  queue,     \* iodevice_queue: channels and what they are set to
  out,       \* out[ch]: the child that switched ch on, or NoChild
  failed     \* history: the children that a failure kept from their reset

vars == <<todo, calls, pc, timer, chans, lockFile, queue, out, failed>>

Steps == {"none", "start", "on", "lock", "write", "check", "off", "done"}
Row(c) == c[2]

Awake(c, step) == pc[c] = step /\ timer[c] = 0
Goto(c, step)  == pc' = [pc EXCEPT ![c] = step]
Sleep(c, n)    == timer' = [timer EXCEPT ![c] = n]
Fail(c)        == failed' = failed \cup {c}

\* Devices, files, forks, statements and processes may fail.
MayFail == Cardinality(failed) < Failures

Set(chs, by) == [ch \in Channels |-> IF ch \in chs THEN by ELSE out[ch]]

TypeOK ==
  /\ todo \in [Alerts -> SUBSET Triggers]
  /\ calls \in [Alerts -> {"idle", "activating", "ended"}]
  /\ pc \in [Children -> Steps]
  /\ timer \in [Children -> Nat]
  /\ chans \in [Children -> SUBSET Channels]
  /\ lockFile \in [Triggers -> Children \cup {NoLock, Torn}]
  /\ queue \in Seq([chan : Channels, val : Children \cup {NoChild}])
  /\ out \in [Channels -> Children \cup {NoChild}]
  /\ failed \subseteq Children

Init ==
  /\ todo = [a \in Alerts |-> {}]
  /\ calls = [a \in Alerts |-> "idle"]
  /\ pc = [c \in Children |-> "none"]
  /\ timer = [c \in Children |-> 0]
  /\ chans = [c \in Children |-> {}]
  /\ lockFile = [t \in Triggers |-> NoLock]
  /\ queue = << >>
  /\ out = [ch \in Channels |-> NoChild]
  /\ failed = {}
-----------------------------------------------------------------------------
(* The call of Watchman::IO->new.                                          *)

Concerns(t, a) == Event[t] = Always \/ Event[t] \in Keys[a]

\* The rows of IO_Device; without them the call returns.
Load(a) ==
  /\ calls[a] = "idle"
  /\ LET rows == {t \in Triggers : Concerns(t, a)} IN
       \/ /\ rows # {}
          /\ todo' = [todo EXCEPT ![a] = rows]
          /\ calls' = [calls EXCEPT ![a] = "activating"]
       \/ /\ rows = {} \/ MayFail
          /\ calls' = [calls EXCEPT ![a] = "ended"]
          /\ UNCHANGED todo
  /\ UNCHANGED <<pc, timer, chans, lockFile, queue, out, failed>>

\* activate_IO forks a child for the next trigger.  If the fork fails, the
\* test of its result takes the parent for the child: it serves this trigger
\* itself and exits, and the triggers behind it are not served.
Activate(a) ==
  /\ calls[a] = "activating"
  /\ \E t \in todo[a] :
       /\ Goto(<<a, t>>, "start")
       /\ \E rest \in {todo[a] \ {t}, {}} :
            /\ rest = todo[a] \ {t} \/ MayFail
            /\ todo' = [todo EXCEPT ![a] = rest]
            /\ calls' = IF rest = {} THEN [calls EXCEPT ![a] = "ended"] ELSE calls
  /\ UNCHANGED <<timer, chans, lockFile, queue, out, failed>>
-----------------------------------------------------------------------------
(* The child of a TCP device (IO_TcpIp).                                   *)

\* The ON command, then a sleep and the device's answer.  Without a connection
\* the child goes on just the same.
TcpOn(c) ==
  /\ pc[c] = "start" /\ Proto[Row(c)] = "TCPIP"
  /\ \/ out' = Set(Enable[Row(c)], c) /\ Sleep(c, AnswerTime)
     \/ MayFail /\ UNCHANGED <<out, timer>>
  /\ Goto(c, IF ResetTime[Row(c)] > 0 THEN "lock" ELSE "done")
  /\ UNCHANGED <<todo, calls, chans, lockFile, queue, failed>>

\* Mutant: the lock file is named after the unit or tone of the row, so that the
\* rows of one unit share it.
OpenLockOfEvent(c) ==
  /\ Awake(c, "lock")
  /\ lockFile' = [f \in Triggers \cup {Event[Row(c)]} |->
                    IF f = Event[Row(c)] THEN NoLock ELSE lockFile[f]]
  /\ Goto(c, "write")
  /\ UNCHANGED <<todo, calls, timer, chans, queue, out, failed>>

\* iolock draws a number and opens the file, which empties it.  If that fails
\* the child waits for nothing: its number is in no file.
OpenLock(c) ==
  /\ Awake(c, "lock")
  /\ \/ /\ lockFile' = [lockFile EXCEPT ![Row(c)] = NoLock]
        /\ Goto(c, "write")
        /\ UNCHANGED <<timer, failed>>
     \/ /\ MayFail /\ Fail(c)
        /\ Goto(c, "check")
        /\ Sleep(c, ResetTime[Row(c)])
        /\ UNCHANGED lockFile
  /\ UNCHANGED <<todo, calls, chans, queue, out>>

\* The number reaches the file when it is closed.  Over the number of a child
\* that had opened it, too, a shorter one leaves a digit.
WriteLock(c) ==
  /\ pc[c] = "write"
  /\ \E text \in {c, Torn} :
       /\ text = Torn => lockFile[Row(c)] # NoLock
       /\ lockFile' = [lockFile EXCEPT ![Row(c)] = text]
  /\ Goto(c, "check")
  /\ Sleep(c, ResetTime[Row(c)])
  /\ UNCHANGED <<todo, calls, chans, queue, out, failed>>

\* Mutant: any number in the file is a valid lock.
CheckLockBlind(c) ==
  /\ Awake(c, "check")
  /\ \/ /\ lockFile[Row(c)] # NoLock
        /\ Goto(c, "off")
        /\ \E n \in 0 .. ConnectTime : Sleep(c, n)
     \/ /\ lockFile[Row(c)] = NoLock
        /\ Goto(c, "done")
        /\ UNCHANGED timer
  /\ UNCHANGED <<todo, calls, chans, lockFile, queue, out, failed>>

\* Mutant: the lock is taken for valid if somebody else's number is in it.
CheckLockInverted(c) ==
  /\ Awake(c, "check")
  /\ \/ /\ lockFile[Row(c)] \notin {c, NoLock}
        /\ Goto(c, "off")
        /\ \E n \in 0 .. ConnectTime : Sleep(c, n)
     \/ /\ lockFile[Row(c)] \in {c, NoLock}
        /\ Goto(c, "done")
        /\ UNCHANGED timer
  /\ UNCHANGED <<todo, calls, chans, lockFile, queue, out, failed>>

\* After its sleep the child reads the file, and connects to the device if it
\* finds its number, or leaves the reset to the child that wrote another.
CheckLock(c) ==
  /\ Awake(c, "check")
  /\ \/ /\ lockFile[Row(c)] = c
        /\ Goto(c, "off")
        /\ \E n \in 0 .. ConnectTime : Sleep(c, n)
        /\ UNCHANGED failed
     \/ /\ lockFile[Row(c)] # c
        /\ Goto(c, "done")
        /\ UNCHANGED <<timer, failed>>
     \/ /\ MayFail /\ Fail(c)
        /\ Goto(c, "done")
        /\ UNCHANGED timer
  /\ UNCHANGED <<todo, calls, chans, lockFile, queue, out>>
-----------------------------------------------------------------------------
(* The children of Modbus devices.                                         *)

\* IO_ModbusRtu, IO_ModbusRtuIp: a write that failed, wholly or in part, is only
\* logged; without the bus or the unit the child returns.  IO_ModbusTcp only
\* logs.
ModbusOn(c) ==
  /\ pc[c] = "start" /\ Proto[Row(c)] \in {"MB_TCP", "MB_RTU", "MB_RTUIP"}
  /\ \/ /\ Proto[Row(c)] # "MB_TCP"
        /\ \E chs \in SUBSET Enable[Row(c)] :
             /\ chs = Enable[Row(c)] \/ MayFail
             /\ out' = Set(chs, c)
        /\ IF Reset[Row(c)] # {} /\ ResetTime[Row(c)] > 0
           THEN Goto(c, "off") /\ Sleep(c, ResetTime[Row(c)])
           ELSE Goto(c, "done") /\ UNCHANGED timer
     \/ /\ Proto[Row(c)] = "MB_TCP" \/ MayFail
        /\ Goto(c, "done")
        /\ UNCHANGED <<out, timer>>
  /\ UNCHANGED <<todo, calls, chans, lockFile, queue, failed>>

\* The OFF command of a TCP or Modbus child.
SwitchOff(c) ==
  /\ Awake(c, "off") /\ Proto[Row(c)] # "SLOT_IO"
  /\ \/ out' = Set(Reset[Row(c)], NoChild) /\ UNCHANGED failed
     \/ /\ MayFail /\ Fail(c)
        /\ \E chs \in SUBSET Reset[Row(c)] : out' = Set(chs, NoChild)
  /\ Goto(c, "done")
  /\ UNCHANGED <<todo, calls, timer, chans, lockFile, queue>>
-----------------------------------------------------------------------------
(* The child of a LinPAC slot (IO_LinPAC_amqp).                            *)

\* It connects to the broker and publishes nothing if it cannot, or if the row
\* has no channel to switch on.
AmqpOpen(c) ==
  /\ pc[c] = "start" /\ Proto[Row(c)] = "SLOT_IO"
  /\ \/ /\ Enable[Row(c)] # {}
        /\ chans' = [chans EXCEPT ![c] = Enable[Row(c)]]
        /\ Goto(c, "on")
     \/ /\ Enable[Row(c)] = {} \/ MayFail
        /\ Goto(c, "done")
        /\ UNCHANGED chans
  /\ UNCHANGED <<todo, calls, timer, lockFile, queue, out, failed>>

\* One message for one channel; a failure is only logged.
Publish(c, val) ==
  \E ch \in chans[c] :
    /\ chans' = [chans EXCEPT ![c] = @ \ {ch}]
    /\ \/ /\ queue' = Append(queue, [chan |-> ch, val |-> val])
          /\ UNCHANGED failed
       \/ /\ MayFail
          /\ failed' = IF val = NoChild THEN failed \cup {c} ELSE failed
          /\ UNCHANGED queue

AmqpOn(c) ==
  /\ pc[c] = "on"
  /\ Publish(c, c)
  /\ UNCHANGED <<todo, calls, pc, timer, lockFile, out>>

AmqpPause(c) ==
  /\ pc[c] = "on" /\ chans[c] = {}
  /\ IF Reset[Row(c)] # {} /\ ResetTime[Row(c)] > 0
     THEN /\ chans' = [chans EXCEPT ![c] = Reset[Row(c)]]
          /\ Goto(c, "off")
          /\ Sleep(c, ResetTime[Row(c)])
     ELSE Goto(c, "done") /\ UNCHANGED <<chans, timer>>
  /\ UNCHANGED <<todo, calls, lockFile, queue, out, failed>>

\* Mutant: publishes the value for ON again.
AmqpOffOn(c) ==
  /\ Awake(c, "off") /\ Proto[Row(c)] = "SLOT_IO"
  /\ Publish(c, c)
  /\ UNCHANGED <<todo, calls, pc, timer, lockFile, out>>

AmqpOff(c) ==
  /\ Awake(c, "off") /\ Proto[Row(c)] = "SLOT_IO"
  /\ Publish(c, NoChild)
  /\ UNCHANGED <<todo, calls, pc, timer, lockFile, out>>

AmqpClose(c) ==
  /\ Awake(c, "off") /\ Proto[Row(c)] = "SLOT_IO"
  /\ chans[c] = {}
  /\ Goto(c, "done")
  /\ UNCHANGED <<todo, calls, timer, chans, lockFile, queue, out, failed>>

\* The program on the LinPAC takes the next message.
Deliver ==
  /\ queue # << >>
  /\ LET m == Head(queue) IN out' = Set({m.chan}, m.val)
  /\ queue' = Tail(queue)
  /\ UNCHANGED <<todo, calls, pc, timer, chans, lockFile, failed>>
-----------------------------------------------------------------------------
\* A child dies, or waits for ever for the answer of a device that sends none.
Crash(c) ==
  /\ MayFail /\ Fail(c)
  /\ pc[c] \notin {"none", "done"}
  /\ Goto(c, "done")
  /\ timer' = [timer EXCEPT ![c] = 0]
  /\ UNCHANGED <<todo, calls, chans, lockFile, queue, out>>

\* A tick passes when no child has a step to take.
Tick ==
  /\ \A c \in Children : timer[c] = 0 => pc[c] \in {"none", "done"}
  /\ timer' = [c \in Children |-> IF timer[c] = 0 THEN 0 ELSE timer[c] - 1]
  /\ timer' # timer
  /\ UNCHANGED <<todo, calls, pc, chans, lockFile, queue, out, failed>>

TcpStep(c)  == TcpOn(c) \/ OpenLock(c) \/ WriteLock(c) \/ CheckLock(c)
AmqpStep(c) == AmqpOpen(c) \/ AmqpOn(c) \/ AmqpPause(c) \/ AmqpOff(c) \/ AmqpClose(c)
Step(c)     == TcpStep(c) \/ ModbusOn(c) \/ SwitchOff(c) \/ AmqpStep(c)

Next ==
  \/ \E a \in Alerts : Load(a) \/ Activate(a)
  \/ \E c \in Children : Step(c) \/ Crash(c)
  \/ Deliver
  \/ Tick

Spec == Init /\ [][Next]_vars

\* Children run, sleeps end and the queue is read.  No step can be repeated
\* without end, so that fairness of them together is fairness of each.
FairSpec == Spec /\ WF_vars((\E c \in Children : Step(c)) \/ Deliver \/ Tick)
-----------------------------------------------------------------------------
\* What excuses that an output stays on which c switched on: its row does not
\* reset it, a child of the row failed to, or the lock is not readable.
Excused(c, ch) ==
  \/ ch \notin Reset[Row(c)]
  \/ ResetTime[Row(c)] = 0
  \/ \E f \in failed : Row(f) = Row(c)
  \/ lockFile[Row(c)] = Torn

\* When all children have ended and the queue is read, every output is off,
\* however the alerts overlapped: a child of IO_TcpIp skips its reset only if
\* another one is going to do it.
QuietIsOff ==
  /\ \A c \in Children : pc[c] \in {"none", "done"}
  /\ queue = << >>
  => \A ch \in Channels : out[ch] # NoChild => Excused(out[ch], ch)

\* The reset of an older alert does not switch off the TCP device of a younger
\* one that has taken the lock, unless so late that the younger one took it
\* while the older was connecting: its pause has hardly begun.
OffSparesHolder ==
  [][ \A c \in Children :
        pc[c] = "off" /\ pc'[c] = "done" /\ out' # out /\ Proto[Row(c)] = "TCPIP" =>
          \A q \in Children \ {c} :
            lockFile[Row(c)] = q /\ pc[q] = "check"
            => timer[q] + ConnectTime >= ResetTime[Row(q)] ]_vars

\* What an alert switched on is switched off in the end.
OffEventually ==
  \A ch \in Channels :
    out[ch] # NoChild ~> out[ch] = NoChild \/ Excused(out[ch], ch)
=============================================================================
