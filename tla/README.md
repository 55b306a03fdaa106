# Watchman Alerting in TLA+

Watchman Alerting is the station-alerting system of a fire department. Daemons
written in Perl receive dispatches and pending incidents from the county's CAD
(computer-aided dispatch) system and turn them into lights, LED signs, audio,
relay outputs, printouts and text messages. This directory holds TLA+ models of
its core, the TLC configurations that check them, and proofs checked by TLAPS.

Paths below are relative to the repository. `lib/` stands for `lib/Watchman/`
where no other file is meant.

## 1. Inventory

### How the parts interact

    CAD printer traffic --> network-listener.pl --(TCP 8888)--> INET listener
    CAD middleware -----------------------------(TCP 8888)--> INET listener
    INET listener --fork per connection--> child: Watchman->new, sub alert
    CAD web server <--HTTP poll-- AlertQueue process
    AMQP rfalert_queue --> RF tone process
    child / AlertQueue / RF process --fork--> LED process, audio, SMS; IO devices

All processes share one MySQL database (one statement per transaction) and the
lock files of the signs and IO devices. There is no other shared state: every
child works on a copy of its parent's memory.

### Components

| Component | State | Operations | What is hard | What makes it correct |
|---|---|---|---|---|
| iCAD dispatch path (`watchman-alerting.pl` INET block and `sub alert`, `lib/Watchman.pm`) | tables iCADAlertTrans, Incident, IncidentUnit; locals of a child | accept, read, store, reply, register units, parse, compare with history, commit, alert | concurrent children, retransmitted and additional dispatches, closing messages, failing SQL, deaths | every unit of the station is announced, once; what is confirmed is on file |
| LED signs and lock (`ttylock`, LED blocks of three processes, `LED_Display.pm`) | `tty_lock.lock`, what the signs show, forked writes | lock, preamble, message, sleep, check, reset | overlapping alerts, writes overtaking one another, equal or torn lock numbers, failed writes | the last alert takes its message down, no other one does |
| Pending incident poller (`AlertQueue.pm`, AlertQueue block) | `call_alert`, table ActiveIncident | poll (new, update, cancel, dispatched), alert, silent sleep, death, stop, start | incidents displacing one another, changes between polls, failing SQL, a poller that ends | new once, changes followed, cancellation final |
| Printer capture (`network-listener.pl`) | one slot: port, packets, checksum | process_pkt, process_payload | reordered, repeated, lost segments; overlapping connections; wrap-around | a job that is forwarded is one connection's, without a gap; every whole call is forwarded, once |
| Supervision (`watchman-alerting.pl`) | ForkManager's table of children, flags of the main program and its children | start, restart (`goto`), signals, shutdown | the restart jumps out of a `start` or a wait and falls through into later blocks; `term_handler` takes children from ForkManager | one reader of tones, the port served, no service after a signal |
| IO devices (`IO.pm`) | `io_<id>.lock`, relays | ON, lock, sleep, check, OFF; Modbus, LinPAC, AMQP variants | ON before lock; a variant without lock | a device stays on for its full time after its last trigger |
| RF tones (`RF_Alert.pm`) | AMQP queue and consumer, table RF_Incident | poll_amqp, ack, alert | one connection for each message; acknowledged before alerted; unmapped messages never acknowledged; a broken connection ends the process | every tone alerted, once |
| Text messages (`SMS.pm`, `GTalk.pm`) | table SMSNotifications | look up, send, save | two children at once; the repeat path uses a hash as an array | one message per recipient and change |
| Audio (`NetAudio.pm`) | multicast group | play | two alerts at once | announcements do not mix |
| Host synchronisation (`HostSync.pm`) | table incidentpoll, remote host | compare, update, push | table updated before the push | remote host gets every change |
| Alert zone server (`Alert_Zone/zone-server.js`) | connections, queries in flight, processes of resets | request-reply, RST, EXT, V= | callbacks after the end of a connection, commands that arrive together, concurrent relay writes, exceptions that end the process | replies belong to requests; no panel harms another; relays end off |
| Printing, RSS, serial, Connect, web administration | output files, device, forms | write only | none that others depend on | - |

The start-up of `watchman-alerting.pl` at this commit has two debugging exits
(`print Dumper` and `exit`, lines 183 and 198-199) left from a change of the
database layer. The models are of the daemon code behind them.

Every hazard, with its line and the properties that cover it, is in
`PROJECT.json` under `hazards`.

## 2. Plan

Done, in this order: `Dispatch` and its proofs, `DisplayOwner` and `TtyLock`
and theirs, `PacketStream` and its proofs, `AlertQueue` and its proofs,
`IoTrigger` and its proofs, `ReplyService` and `ZoneServer` and theirs, `Supervisor`, `RfAlert` and
their composition `ToneService`, each with proofs.

Next:

1. `Notify`: SMSNotifications and its check in concurrent children, called by
   `AlertQueue` and `Dispatch`.
2. `HostSync`: the local update and the push; what the remote host may miss.
3. `Intake`: PacketStream composed with Dispatch's listener, the wait for the
   confirmation inside the capture callback included; abstract specification:
   a call printed by CAD is announced at most once per unit.

Every safety property of the passing runs is proved, so that what is left to
prove comes with these modules.

## 3. Modules

| Module | Models | 
|---|---|
| `Dispatch` | the dispatch path |
| `MCDispatch` | its instances: streams that overlap in incidents and units |
| `DispatchProofs` | its theorems |
| `DisplayOwner` | abstract: the signs have an owner, who resets them |
| `TtyLock` | the lock file, the LED processes, the forked writes |
| `MCTtyLock`, `TtyLockProofs` | instances, theorems |
| `PacketStream`, `MCPacketStream`, `PacketStreamProofs` | the printer capture |
| `AlertQueue`, `MCAlertQueue`, `AlertQueueProofs` | the poller |
| `IoTrigger`, `MCIoTrigger`, `IoTriggerProofs` | the relays and other devices an alert switches on |
| `ReplyService` | abstract: what a client of the alert zone server may rely on |
| `ZoneServer`, `MCZoneServer`, `ZoneServerProofs` | the alert zone server |
| `Supervisor`, `SupervisorProofs` | the main program, its children and the signals |
| `RfAlert` | the reader of the RF tones and the broker |
| `ToneService`, `MCToneService`, `ToneServiceProofs` | `RfAlert` as a child of `Supervisor`; theorems of both `RfAlert` and the composition |

Operators whose comment begins with *Mutant* are deliberate mistakes of the kind
that could be made in the code. They are not used by the specifications: put in
the place of the operator they stand before, each makes TLC find one property
violated (`PROJECT.json`, `mutants`).

### Dispatch

`pc[c]` is where the child of connection `c` is. `Accept` is the listener;
`Read`, `StoreTransaction`, `Reply` the intake half (INET block); `RegisterUnits`
is `Watchman::new`, `ParseDispatch` `parseDispatch`, and the steps from
`LookupIncident` to `SaveUnit` are `NewIncident`, one per SQL statement.
`StartAlerting` is `sub alert`, and `Started` what it starts: nothing (`none`), the
IO devices alone (`devices`), or signs and audio, too (`announced`). A closed message has neither an `audiosrc` nor an `xml_msg`. So
with network audio (`NetAudio`) the child dies of the undefined `audiosrc` (855)
before anything is forked; without it, `LED_Display->new` refuses the undefined
message (48-55), and the IO devices alone are triggered. `units`, `prior`, `alert`, `assigned` are
`$self->{units}`, `$prior_incident_flag`, `$self->{alert}` and `UnitAssign`.
`before[c]` is a history variable, which no guard reads: the children that had
ended when that of `c` was forked. `AnnouncedOnce` needs it, since the code
promises nothing about two children that overlap.

A stream is a record of what the code tells apart: whether it is confirmed
(complete, parses, has a sequence number), what XSLT makes of it, its incident,
units and status. `UnitPreempt` and `UnitReplace` are set to empty
(`lib/Watchman.pm` 277-279) and never filled, so the branches for pre-emption,
replacement and silent alerts cannot run and have no action. The foreach loops
over units take them in any order, since the order of the code depends on the
message.

With `DbMayFail` every statement may raise its exception, which the code logs
and ignores. One case is excluded from `NoUnitDropped` by the definition of
`MyUnits`: if the SELECT on `Units` fails, the child knows no unit of the
station and treats all of them as strangers.

### TtyLock and DisplayOwner

`pc[p]` and `timer[p]` are an LED process and its sleep, `lockFile` the content
of `tty_lock.lock`, `id[p]` its `$ttylock`. `OpenLock` and `CloseLock` are the
two moments of `ttylock` other processes can see: `open '>'` empties the file,
`close` writes the number. Numbers have four or five digits (`Short`), and a
short one written over a long one by a process that had opened the file earlier
leaves `Torn`. `Send` forks a write, which `Arrive`s within `WriteTime` or is
lost. The reset of a failed dispatch message (`ttylock_reset`) opens the file
for reading, so that its `truncate` fails: it changes nothing. `Tick` lets time
pass when nobody has a step to take.

`DisplayOwner` is the promise: `owner` is the alert that took the signs last,
and `Finish` resets them if and only if the alert still owns them. `Owner` and
`Outcome` in `TtyLock` are the refinement mapping.

### PacketStream

`port`, `packet`, `checksum` are `__port__`, `__packet__`, `__checksum__`. The
stream of a connection is numbered by places: the SYN, the data, the FIN; a place
stands for a piece that is never divided further. A packet is
`<<connection, first place, last place>>`. `Send` cuts the stream as it likes, and
`Retransmit` repeats a packet as it was or any places that were sent, cut anew
(`recut` says of which connections). `NextNum` is the number `process_pkt` expects
behind a segment; a job is the sequence of the packets whose data it consists of.
`Assembled` is the sort by sequence number:
the i-th segment is the one with i numbers up to its own. `Calls` have data,
since the number of a call is in them. `TakeSyn`, `TakeData`, `TakeFin`,
`IgnoreOther` are the branches of `process_pkt`; `Decode`, `Forward`, `Confirm`
are `process_payload`, during which the capture loop does not run. `Send`,
`Retransmit`, `Miss` are the sender and the network, external to the code.
`SeqSpace` stands for 2^32; a number is not wrapped when the code adds to it.
`disturbed` is a history variable: the connections with a packet that was
repeated, lost or overtaken, that lost the slot, or whose job the daemon refused.
`EveryCallForwarded` is about the others, whatever happens around them.
Left out: packets with RST, which the code does not look at, and a segment whose
data are the single character `0`, which Perl takes for none (line 112).

The checksum holds first numbers of segments only. If [1,101) and [101,201) are
captured and [1,201) with the FIN is repeated in one packet, every number it expects
was seen, and the places from 101 on are in the job twice. So `ForwardedIsOneJob`
says of a connection in `recut` only that its job has no gap, and not even that if
its numbers wrap as well: without either exception TLC finds a violation.

### AlertQueue

`current` and `shown` are what `call_alert` holds, `row` is table
ActiveIncident, whose primary key is EventNo
(`etc/sql/Pittsburgh/WatchmanAlerting_Schema.sql`).
A poll is a `Scan`, or `PollDies`. The rules are selected for every answer that is not
empty, outside an `eval` (`AlertQueue.pm` 452-474), through a `$DBH` that nothing
sets in this package: as the code stands, the first such answer always ends the
poller, and `Scan` describes the poller with that handle. `RulesMayFail` leaves
the choice open, since a statement that fails there throws as well. Nothing starts a
poller again but a start of the daemon (`Start`), and what it held is gone (`End`);
`Stop` is a stop of the daemon at any step.
`Scan` works on one answer of the CAD: `Considered` is its filter, `Before` the
order of `reverse @inc`, and the scan ends at the `First` incident that takes a
branch. `PollNew`, `PollUpdate`, `PollCancel` and `MeetsDispatched` are those
branches. `Alert` is the main loop; `silent` is the sleep cycle with
SilentSleepMode, which sends text messages only; the text messages themselves
are not modelled. `OpenIncident` to
`ExpireIncident` are the CAD as its answers show it. `OldestFirst` covers both
orders of the CAD's list. Result -2, which the main loop tests for, is returned
nowhere.

### IoTrigger

`Load` is `Watchman::IO->new` reading table IO_Device, `Activate` one turn of
the loop of `activate_IO`, which forks a child for a row; `todo` holds the rows
the loop has not reached. If the fork fails, the parent takes the branch of the
child and exits. A child is a pair of an alert and a row. `TcpOn` to `CheckLock`
are `IO_TcpIp` with its lock file `io_<TriggerID>.lock`, `ModbusOn` the start of
the Modbus children, `SwitchOff` the reset of both; `AmqpOpen` to `AmqpClose` are
`IO_LinPAC_amqp`, which publishes one message for each channel, and `Deliver` is
the program that takes them, external to the repository. `IO_ModbusTcp` only
logs. `IO_LinPAC` is commented out where it would be called.

Children draw distinct lock numbers here (`TtyLock` has the case that they do
not), but one number may garble another (`Torn`). `failed` is a history variable:
the children whose lock, reset or life a failure took. Only the TCP children
have a lock: the reset of an older Modbus or LinPAC child does cut a younger one
short, and so does that of another row for the same device, since every row has
a lock file of its own. `OffSparesHolder` is therefore a property of the TCP
children of one row.

### ZoneServer and ReplyService

A panel's `asked` are the commands it has sent on a connection, `taken` how many
of them `data` events have brought: one that TCP divides
between two events fits nothing in either, which `BAD` stands for (if what comes
first is `V=` or `RST:`, it is taken for the whole command, and is one here);
several that arrive in one event are compared
as one command, which only `V=` then still fits (`TakeVolume`), so that the event
is an unknown command otherwise (`TakeUnknown`). `TakeQuery` makes a query, and
`Callback` is the function of the query at the head of `queries`; the driver runs
them in order. `VOL` stands for `V=`, `Fields`, `Numeric` and `Lists` for the
other commands by what their callback writes: `Numeric` is not a string, `Blank`
the empty string (UME and UMI of a zone in no group, UNT without groups, an empty
column), of which no byte is sent, so that it is no answer (`AnswerNothing`). What throws (a query error, the
handler of line 55, which names a variable that does not exist, a write of a
number or to a socket that was ended, a socket error) is one `Crash`, after which
`supervisor` starts the server again. The processes of a reset outlive it.

`rude`, `spoilt`, `crashed` and `dbErrors` are history variables, which no guard
reads but the bound on `dbErrors`. `ReplyService` is what a panel relies on:
replies carry no label.

### Supervisor, RfAlert and ToneService

`at` is the statement of the main program, `proc` the children by a process
identifier, `table` ForkManager's own list of them. `Fork` is a `start` that
forks; while it waits for room or looks for dead children it may `Reap` one, and
so may `wait_all_children`. `Reap` is the callback of `run_on_finish` with its
`goto`: the `start` it interrupts is left for ever. `Interrupt` is the handler of
HUP, INT and QUIT, `HandlerReaps` and `HandlerReturns` are `term_handler`; after
HUP and INT the main program goes on where it was. Perl holds up only a signal whose
own handler is running, so that another one is handled within it: the flags are down
already, and QUIT ends the program when the inner handler is done, whatever the
outer one would have returned to. `Signals` does not count these. `InterruptChild` is the same
handler in a child, which only clears its own copy of the flag, and `LoopEnds` is
a loop that finds it cleared. `Terminate` is TERM, which ends everyone. The poller of
pending incidents is not a child of ForkManager (`Polls`); nothing restarts it.
`abandoned`, `readers`, `stopped` and `late` are history variables.

`RfAlert` is `poll_amqp` and the loop around it. `pushed` are the messages the
broker has sent to the consumer of this poll. The code gives no option to
`consume`, for which the library takes messages as acknowledged when sent, and
acknowledges them itself later; `mode` has both kinds of consumers, since the
library is external. `company`, `unacked` and `fallen` are history variables.

`ToneService` is both: `Begins`, `Leaves`, `Dies`, `Throws` and `Terminated` are
the steps they take together. In `RfAlert` alone the reader may end and begin at
any time; here it does only as the main program makes it.

## 4. Runs

| Run | Bounds | Shows |
|---|---|---|
| `DispatchFaults` | 2 children, network audio, 9 kinds of streams, 2 incidents, 2+1 units; SQL failures, deaths; fairness | a unit on record is announced, about to be, or its child died or handled a closing message; no unit of a finished open message is dropped; every unit is announced |
| `DispatchConcurrent` | 3 children, no network audio, open streams, deaths | replies follow the stored stream, announcements follow the record, a later child announces no unit again |
| `DispatchClosed` | 2 children, no network audio | **violation**: see findings |
| `TtyLockFaults` | one process of each kind, 3 numbers, all faults | a reset spares the message of the lock's holder |
| `TtyLockLive` | dispatch, queue, dispatch; no faults; fairness | refinement of DisplayOwner; when all is over the signs show the default, and it comes back again and again |
| `PacketStreamFaults` | 2 calls of 2 places of data in any cut, one with or without wrap-around; overlap, reordering, one repetition in any cut, losses, refusals; fairness | what is forwarded is one connection's job, once, without a gap, whole unless repeated in another cut; every call is forwarded that was not disturbed |
| `AlertQueueFaults` | 2 incidents, 3 details (one not selected), all faults | new once; changes only after new; a cancellation is final |
| `AlertQueueLive` | 2 incidents that may be pending at once, oldest first; deaths, stops and starts; a working database otherwise; fairness | announced, followed and cancelled, unless displaced, hidden for good or the poller ends; held and recorded details agree |
| `IoTriggerFaults` | 2 alerts; a TCP row for both, a Modbus and a LinPAC row for one each with an output in common; `Failures` = 1: one child may miss its reset, and until it has, forks, connections and writes may fail; fairness | outputs are off when all is over, and in the end, unless their own row failed or its lock file is garbled; a reset spares the holder of the lock |
| `ZoneServerFaults` | a panel with a relay and 2 commands, a client without a zone and 1 command, neither in a group; one database failure, resets of connections; fairness | refinement of ReplyService; who may end the server; relays end off; who waits is answered |
| `ToneServiceFaults` | 3 process identifiers, a tone and another message, both kinds of consumers, 1 death, 1 signal, 1 broken connection; fairness | one reader, kept; no more listeners than readers were forked; the port is served; signals are final; what becomes of every tone |
| `ToneServiceAbandoned` | 2 deaths, no messages; fairness | **violation**: see findings |

Why the bounds are enough. *Dispatch*: a unit is affected by one writer and one
reader of its row, and by a third child that closes or repeats; the streams
include overlapping unit lists, so two children can race for one row while a
third finds it. *TtyLock*: the protocol is between the holder and one
successor; the third process makes the successor itself be displaced. Times
keep the order of the defaults (reset 120 s, preamble 3 s, a write of a second
or so): ResetTime is larger than PreambleTime + WriteTime, and `QuietShowsDefault`
depends on it. *PacketStream*: two places of data are the fewest that can be
reordered or cut anew, and two connections the fewest that share the slot; its safety
properties are proved for any number of both and any sequence space. *AlertQueue*:
displacement needs two incidents, pending at the same time, in both runs; `news` stops counting at 2, one more than
`NewOnce` allows; the safety properties are proved for any number. *IoTrigger*:
a reset is contested between two children of one row; `QuietIsOff` is proved for
any number of alerts, rows and failures. `MCTime` makes the pause of the TCP row
longer than `ConnectTime`, as it is in the row of Pittsburgh's schema (120 s
against a time-out of 5 s). The rows of the instance cover all protocols but
MB_TCP, whose child does nothing. *ZoneServer*: an impatient panel needs two
commands, so that one is under way when the other ends the connection, is
answered or resets again; the second client is the one that must not be harmed
or harm. All its safety properties are proved for any number. *ToneService*: three
process identifiers are a reader, a listener and the superfluous one of a restart,
and `MaxProc` leaves room for them, as 5 does in the code; one death, one
signal and one broken connection meet in any order; a tone meets another message.
Two deaths, of reader and listener at once, are what `ToneServiceAbandoned` needs.
All its safety properties are proved for any number of processes and messages.

Deadlock is not checked (`CHECK_DEADLOCK FALSE`) anywhere, since in every
instance the finite set of connections, alerts, jobs or incidents is used up.

### Fairness

- `Dispatch`: the listener accepts and a child runs on; both are ordinary
  processes of the system, and no step of a child waits for another child.
- `TtyLock`: processes run, sleeps end, writes arrive. No fairness for
  `OpenLock`: alerts need not come.
- `PacketStream`: the sender finishes its jobs (TCP) and the capture loop runs.
  Packets may be missed all the same, and hand-overs refused.
- `AlertQueue`: a poller that runs scans and alerts. None for the CAD, for its death,
  or for anyone to start it again. `AlertQueueLive` has no failing SQL but that of
  the rules: an INSERT that fails can lose an alert for good. The three liveness
  properties are conditional: they say of an incident that is not `Hidden` for ever
  by another pending one that it is dealt with, displaced, or the poller ends.
- `IoTrigger`: children run, sleeps end, the queue is read. No step repeats for
  ever, so that one fairness condition for all of them is enough. None for the
  alerts.
- `ZoneServer`: the server is restarted, events arrive, callbacks run and the
  processes of a reset end (they have time-outs). Each step uses something up, so
  that one condition is enough. None for clients and failures.
- `ToneService`: the main program runs, and it waits for a dead child in the end
  whatever others do (a condition for each child, since `waitpid` takes them in
  turn); a new child comes to its first accept or poll; the reader goes on from
  poll to poll; the broker accepts and delivers. None for deaths, signals or the
  decoder.

### Findings

Each is a run with expected violation and an entry under `findings`.

1. `DispatchClosed`: a closed incident clears the wrong flag (`lib/Watchman.pm` 519).
   Without network audio the IO devices are still triggered; with it the child dies at
   `watchman-alerting.pl` 855.
2. `ToneServiceAbandoned`: when the reader of tones is dead and the listener dies
   as well, the `start` that was to restart the reader may find the dead listener
   first (`watchman-alerting.pl` 480); the callback jumps from there to
   `INET_START` (470), behind the reader's block. No tone is read any more, though the log says
   that a restart is attempted (468). `ReaderIsKept` and `EveryToneIsTaken` hold but
   for this case (`abandoned`).

Observed while modelling, without a run of their own:

- The RF process sleeps for a setting that nothing puts where it is read
  (`watchman-alerting.pl` 543), so that its reset competes with its own message
  (`Hold` is 0 for it).
- The text of a new pending incident is sent again at each of its updates
  (`watchman-alerting.pl` 410).
- A dispatch alert whose message fails forgets its lock number (919): it reports
  its lock as expired, which nobody else holds, and leaves the preamble on the
  signs (`ExpiredHasOwner` and `ImplementsOwner` fail once `SignMayFail` is set).
- A failed fork in `activate_IO` ends the parent (`lib/Watchman/IO.pm` 111-122).
- A complete job captured out of order is refused, because a segment marks its
  successor as missing even if it was seen (`network-listener.pl` 109, 129).
- A repetition that TCP cuts in another way than the segments it repeats may put data
  into a job twice (`network-listener.pl` 108-112, 127-135).
- A pending incident that was displaced, and even one the poller announced before it was
  started again, ends every scan at its duplicate row (`AlertQueue.pm` 899): as long as it
  is pending, new incidents behind it are not announced, and neither are updates and the
  cancellation of the current one. Without the exception for `Hidden` incidents
  each of `EveryPendingAnnounced`, `EveryCancelAnnounced` and `EveryUpdateShown` fails,
  with two pending incidents already. A displaced incident is never followed
  again (`Displaced`).
- The first answer with incidents ends the poller (`AlertQueue.pm` 452, `$DBH` is not
  set in the package; 474 would throw when the statement fails), and nothing restarts it.
- TERM ends everyone in the process group: the list of line 139 has a false value for
  each process, which is taken for process 0 (139-157).
- `ALERTQUEUE_START` is the target of no `goto`: the poller is not restarted. `%PIDS`
  is never filled, so that `term_handler` waits for children nobody has told to end.
- `SMS.pm` 109 and 126 use the reference to a hash as one to an array, which ends
  the process that sends a text again.
- The zone server: `handleDisconnect` reconnects, but the handler of line 55 throws
  first, so that the loss of the database ends the server; the number of a zone
  (ZID, an integer in `etc/sql/WatchmanAlerting_Schema.sql`, a string in the schema
  of Pittsburgh; the levels are strings in both) cannot be written to a socket and ends
  it, too; so do UME and UMI with the first of these schemas, which has a table
  `AlertGroupMembers` where they ask for `AlertGroupMember`; an empty reply leaves the
  panel waiting (204, 218, 232); the OK of
  a reset (315) comes before its commands have run; the address of
  the audio interface is put behind `10.100.1.` even if it is a whole one (245).

## 5. Proofs

TLAPS proves, for any number of children, incidents, units, connections, messages and processes:

`DispatchProofs` (constants: the named assumptions of `Dispatch` only; SQL
failures and deaths included)

- `TypeCorrect`: `TypeOK`.
- `RecordedUnitsAreAnnounced`, `UnitsAreNotDropped`, `AnnouncedUnitsAreRecorded`,
  `ConfirmedStreamsAreStored`. The first three are not inductive. The invariant
  `IInv` adds, for a child in the middle of `NewIncident`, which units its `todo`
  still has, which are already on record or explained, and what its `alert` flag
  says at each step; `RecordedIsAnnounced` survives a step because an
  explanation (`Explains`) once given is never withdrawn (`ExplainsStep`), and a
  new row is explained by the child that inserts it (`NewRow`).
- `UnitsAreAnnouncedOnce`: `AnnouncedOnce`. From `IInv`, the incident and the
  units that an ended child announced are on record (`AnnouncedRows`); rows are
  never deleted, so a child forked later finds the incident, cannot take the
  branch of a new one, and removes those units from `UnitAssign` (`FreshStep`).

`TtyLockProofs` (constants: the named assumptions of `TtyLock`)

- `TypeCorrect`: under all faults.
- `ExpiredLocksHaveOwners` and `LockImplementsOwner`: under `Faultless`
  (distinct numbers, no short ones, no failures, no deaths). The invariant
  `LockInv` says that numbers are distinct, that every process past its lock has
  one, and that a non-empty lock file holds the number of a process that has
  closed it. Each assumption of `Faultless` is needed: a
  failing sign, for one, makes a process disown its lock (see *Findings*).
- `ResetsSpareTheHolder`: `ResetSparesHolder`, with distinct numbers and under all
  faults. The invariant `SpareInv` is about times: while a process that did not
  find itself displaced has its reset to send, a holder that took the lock has
  only begun to wait, and while a reset is under way to the signs the holder has
  waited no longer than the reset has travelled (`ResetsInTime`). A message is
  that of its sender, who keeps its number (`Senders`).
- `QuietSignsShowDefault`: `QuietShowsDefault`, under `Faultless` and
  `SleepsAreLong` (ResetTime > PreambleTime + WriteTime, and no process that resets
  without a sleep). The invariant `QuietInv` says that whatever is still shown
  when the holder waits comes from processes it displaced and is at most
  PreambleTime and WriteTime late (`HolderOutlasts`), so that nothing is on its way
  any more when the holder resets, and the last write is its reset (`HolderResets`).

`PacketStreamProofs` (constants: the named assumptions of `PacketStream`; any number
of connections, lengths and first sequence numbers, wrap-around included)

- `TypeCorrect`, `OneJobIsForwarded`, `JobsAreForwardedOnce`. The invariant
  `StreamInv` says what the slot can hold (`SlotOf`): the number behind the SYN is
  expected, a number that was seen is that of a place whose data are held, behind
  a packet that is held the next number is expected, and there are no other data. If
  nothing is missing, the first number was seen, so that it has data, so that the
  number behind them was seen, and so on (`Chain`). Packets as they were sent first
  do not overlap (`NetInv`), so that this ends with the last place before a number
  wraps (`Unwrapped`, by the packet with the greatest first place that does not), and
  the data in their order are the job (`Sorted`, `AssembledJob`). A connection whose
  job left the slot is past its SYN, so that it never has the slot again (`SpentInv`).
- `CallsAreNotDropped`: the safety part of `EveryCallForwarded`. By `CallInv`, the
  packets of an undisturbed call that are not on their way any more have been
  collected in order (`Collected`), or its job was handed over.

`AlertQueueProofs` (constants: the named assumptions of `AlertQueue`; all faults
included, any number of pending incidents)

- `TypeCorrect`, `IncidentsAreNewOnce`, `ChangesFollowNew`,
  `CancellationsAreLast`, `CurrentIsOnRecord`. The invariant ties what was
  alerted to table ActiveIncident: an incident without a row is untouched
  (`Untouched`), one held in `call_alert` was alerted as new or is about to be
  (`Counts`), and a cancelled one is let go of for good (`LetGo`).

`IoTriggerProofs` (constants: the named assumptions of `IoTrigger`; all faults,
any number of alerts and rows, any sharing of outputs)

- `TypeCorrect`, and `OutputsAreReset` for `QuietIsOff`. That an output is off at
  the end is not inductive; the invariant says at any time who is going to switch
  it off. For a TCP row that is a child before its lock, with the file open, with
  its own number in it, or past its check (`TcpInv`); for a Modbus row the child
  that switched it on (`ModbusInv`); for a slot a message to come, published or
  in the queue behind the one that switches the output on (`SlotInv`).
- `ResetsSpareTheHolder`: `OffSparesHolder`. By `OffInv`, a child that is connecting to
  switch a device off has been for as long, at least, as a younger one that has
  taken its lock has waited.

`ZoneServerProofs` (constants: the named assumptions of `ZoneServer`; all faults,
any number of connections, zones and commands)

- `TypeCorrect`; `ServerImplementsReplies`, by `OrderInv`: what is answered was
  taken, what is taken was asked, and the queue holds the requests of a
  connection in their order and behind the answered ones, so that the reply of the
  head is the next one.
- `PatientClientsDoNoHarm`, by `PatienceInv`: a client that waits has one request
  without a reply, and its socket is open while a query may write to it; so a
  crash has one of the named causes.
- `RelaysEndOff`, by `RelayInv`: a relay is on only while a 0 is still to come, or
  after one that was lost or overtaken.

`SupervisorProofs` (constants: the named assumptions of `Supervisor`)

- `TypeCorrect`, `ProcessesAreKept`, `SignalsAreFinal`. None is inductive, since a jump
  may come at any statement. The invariant says which children ForkManager knows
  (`Known`), that no reader is there where one is to be forked, now or after the
  handler returns (`ReaderInv`, with `Where`), that where a listener is to be forked
  there is room for it in the count (`ListenerInv`), and that flags stay down
  after a signal (`SignalInv`).

`ToneServiceProofs` (constants: the named assumptions of `RfAlert` and `Supervisor`)

- `RfTypeCorrect`, `TonesAreLostInCompany`, `TonesAreAlertedOnce`, of `RfAlert` by
  itself. The invariant says in which places a message can be (`PlaceInv`: in one of
  them, unless the broker has taken back what the reader still has in hand), what
  the reader holds at each step (`HandInv`), and which messages have met
  (`CompanyInv`).
- `ImplementsSupervisor` and `ImplementsRfAlert`: a step of the composition is a
  step or a stutter of each part. What is proved of the parts therefore holds of
  it: `ToneTypeCorrect`, `ServicesAreKept`, `TonesAreAccountedFor`.
- `TonesAreReadByAChild`: the reader of `RfAlert` is there if and only if a child of
  `Supervisor` is, which neither part can say.

Model-checked only: liveness, since the prover does not handle ENABLED, and the
properties of the two violations. Theorems of induction cannot be applied, since
they take an operator as a parameter; where an argument goes along a sequence of
numbers, as in `Unwrapped`, it is by a least element, which exists by
well-foundedness.

## 6. Not modelled

Texts, layout, printouts, formatting and the data in them; HTTP sessions and
log-in; XSLT and PCL conversion, of which only the outcome appears; the sleep
cycle without silent mode (the poller just waits); sleep windows across
midnight, which the comparison of the code never finds active; several sign
boards (one stands for all); the order of units in a message. The PID
file, which is looked at once, before anything is forked.

Of the components of the inventory: text messages and host synchronisation, which
are next in the plan; the playback of audio, which external programs do and
nothing in the code orders; and the write-only ones in the last row.

Most of the C and JavaScript in the repository is not part of the program:
SDKs and examples of the LinPAC controller, text-to-speech engines, audio tools
and libraries, kept under `dev/`, `tools/` and the web root. None of it is modelled.
The program is in Perl, except for the zone server.
