---------------------------- MODULE PacketStream ----------------------------
(***************************************************************************)
(* network-listener.pl: print jobs of the CAD system are captured off the  *)
(* wire between the CAD server and a printer.  process_pkt keeps the       *)
(* segments of one TCP connection in a single slot, checks at its FIN that *)
(* none is missing, and hands the job to process_payload, which forwards   *)
(* the calls among the jobs to the alerting daemon and waits for its       *)
(* answer inside the capture callback.                                     *)
(*                                                                         *)
(* The data of a connection are numbered by their places, a place standing *)
(* for any piece of the stream that is never divided further.  The SYN has *)
(* place 0, the FIN the one behind the data.  A packet is <<c, f, l>>, the *)
(* places f to l of connection c: the sender cuts its stream as it likes,  *)
(* and what it repeats need not be cut as before.                          *)
(***************************************************************************)
EXTENDS Naturals, FiniteSets, Sequences

CONSTANTS
  Conns,         \* the connections of the CAD server to the printer
  NoConn,        \* the port number 0, or none yet
  Isns,          \* the initial sequence numbers the connections may start with
  Length,        \* Length[c]: places of data
  Calls,         \* connections that print a call (it has an EventNo)
  SeqSpace,      \* sequence numbers are taken modulo SeqSpace (2^32)
  MaxRepeats     \* bound: how many packets are repeated

ASSUME ConnsAssumption ==
  /\ NoConn \notin Conns
  /\ SeqSpace \in Nat \ {0}
  /\ Isns \subseteq [Conns -> 0 .. SeqSpace - 1]
  /\ Length \in [Conns -> 0 .. SeqSpace - 3]
  /\ Calls \subseteq {c \in Conns : Length[c] > 0}
  /\ MaxRepeats \in Nat

VARIABLES
  isn,       \* isn[c]: initial sequence number
  sent,      \* sent[c]: places of c the sender has sent
  segments,  \* the packets as they were sent first
  repeats,   \* how many packets were repeated
  wire,      \* packets on their way to the capture
  port,      \* __port__: the connection in the slot
  packet,    \* __packet__: data by sequence number
  checksum,  \* __checksum__: by sequence number, whether it was seen
  listener,  \* what the capture callback does
  payload,   \* the job in process_payload
  forwarded, \* the jobs sent to the daemon, in order
  recut,     \* history: connections that repeated places cut in another way
  disturbed  \* history: connections with a packet repeated, lost or overtaken,
             \* that lost the slot, or whose job the daemon refused

slot == <<port, packet, checksum>>
net  == <<isn, sent, segments, repeats, wire, recut>>
vars == <<isn, sent, segments, repeats, wire, port, packet, checksum, listener, payload,
          forwarded, recut, disturbed>>

FinPos(c)  == Length[c] + 1
Cuts(c)    == {<<0, 0>>} \cup
              {cut \in (1 .. FinPos(c)) \X (1 .. FinPos(c)) : cut[1] <= cut[2]}
Packets    == UNION {{<<c, cut[1], cut[2]>> : cut \in Cuts(c)} : c \in Conns}
HasData(p) == p[2] \in 1 .. Length[p[1]]
IsFin(p)   == p[3] = FinPos(p[1])
LastOf(p)  == IF IsFin(p) THEN Length[p[1]] ELSE p[3]    \* last place with data
Num(c, k)  == (isn[c] + k) % SeqSpace
SeqNum(p)  == Num(p[1], p[2])

\* A job is the data of packets, one after the other: of one connection, ...
JobOf(c, job) == job # <<>> /\ \A i \in DOMAIN job : job[i][1] = c

\* ... from its first place to its last, none left out, ...
Covers(c, job) ==
  /\ job[1][2] = 1 /\ LastOf(job[Len(job)]) = Length[c]
  /\ \A i \in 1 .. Len(job) - 1 : job[i + 1][2] \in job[i][2] + 1 .. LastOf(job[i]) + 1

\* ... and none twice.
Whole(c, job) ==
  Covers(c, job) /\ \A i \in 1 .. Len(job) - 1 : job[i + 1][2] = LastOf(job[i]) + 1

EmptyMap == [s \in {} |-> 0]
Put(f, s, v) == [t \in DOMAIN f \cup {s} |-> IF t = s THEN v ELSE f[t]]

TypeOK ==
  /\ isn \in Isns
  /\ sent \in [Conns -> Nat] /\ \A c \in Conns : sent[c] <= FinPos(c) + 1
  /\ segments \subseteq Packets /\ wire \subseteq Packets /\ repeats \in Nat
  /\ port \in Conns \cup {NoConn}
  /\ DOMAIN packet \subseteq DOMAIN checksum
  /\ \A s \in DOMAIN packet : packet[s] \in Packets
  /\ DOMAIN checksum \subseteq Nat
  /\ \A s \in DOMAIN checksum : checksum[s] \in {0, 1}
  /\ listener \in {"capture", "decode", "connect", "confirm"}
  /\ payload \in Seq(Packets) /\ forwarded \in Seq(Seq(Packets))
  /\ recut \subseteq Conns /\ disturbed \subseteq Conns

Init ==
  /\ isn \in Isns
  /\ sent = [c \in Conns |-> 0]
  /\ segments = {}
  /\ repeats = 0
  /\ wire = {}
  /\ port = NoConn
  /\ packet = EmptyMap
  /\ checksum = EmptyMap
  /\ listener = "capture"
  /\ payload = <<>>
  /\ forwarded = <<>>
  /\ recut = {}
  /\ disturbed = {}
-----------------------------------------------------------------------------
(***************************************************************************)
(* The sender and the network.                                             *)
(***************************************************************************)

\* The sender sends its next places, up to some last one; data follow the
\* handshake only.
Send(c) ==
  \E cut \in Cuts(c) :
    /\ cut[1] = sent[c]
    /\ <<c, 0, 0>> \notin wire
    /\ sent' = [sent EXCEPT ![c] = cut[2] + 1]
    /\ wire' = wire \cup {<<c, cut[1], cut[2]>>}
    /\ segments' = segments \cup {<<c, cut[1], cut[2]>>}
    /\ UNCHANGED <<isn, repeats, recut, slot, listener, payload, forwarded, disturbed>>

\* It repeats what it has had no answer to: a packet as it was, or places of
\* several packets or of a part of one.
Retransmit(p) ==
  /\ repeats < MaxRepeats
  /\ p \notin wire
  /\ p[3] < sent[p[1]]
  /\ p[2] = 0 => sent[p[1]] = 1
  /\ wire' = wire \cup {p}
  /\ repeats' = repeats + 1
  /\ recut' = recut \cup (IF p \in segments THEN {} ELSE {p[1]})
  /\ disturbed' = disturbed \cup {p[1]}
  /\ UNCHANGED <<isn, sent, segments, slot, listener, payload, forwarded>>

\* The capture misses a packet, for instance because its buffer is full while
\* the callback waits for the daemon.
Miss(p) ==
  /\ wire' = wire \ {p}
  /\ disturbed' = disturbed \cup {p[1]}
  /\ UNCHANGED <<isn, sent, segments, repeats, recut, slot, listener, payload, forwarded>>
-----------------------------------------------------------------------------
(***************************************************************************)
(* process_pkt.                                                            *)
(***************************************************************************)

\* The data in the order of their sequence numbers: the i-th are those with i
\* numbers up to their own.
Assembled(pkts, sums) ==
  LET held    == DOMAIN sums \cap DOMAIN pkts
      rank(s) == Cardinality({t \in held : t <= s})
  IN  [i \in 1 .. Cardinality(held) |-> pkts[CHOOSE s \in held : rank(s) = i]]

\* The number behind the data of a segment.
NextNum(p) == SeqNum(p) + (LastOf(p) - p[2] + 1)

\* Mutant: without the number that must follow.
MarkedSeen(p) == Put(checksum, SeqNum(p), 1)

\* Mutant: without the number of the segment itself.
MarkedNext(p) ==
  IF HasData(p) /\ ~IsFin(p) THEN Put(checksum, NextNum(p), 0) ELSE checksum

\* Mutant: a number is expected after a FIN with data, too.
MarkedPastFin(p) ==
  Put(IF HasData(p) THEN Put(checksum, NextNum(p), 0) ELSE checksum,
      SeqNum(p), 1)

\* A segment of the connection in the slot marks its own number as seen and
\* the number behind its data as missing, unless it is the last one.
Marked(p) ==
  LET expect == IF HasData(p) /\ ~IsFin(p)
                THEN Put(checksum, NextNum(p), 0) ELSE checksum
  IN  Put(expect, SeqNum(p), 1)

Stored(p) == IF HasData(p) THEN Put(packet, SeqNum(p), p) ELSE packet

\* A SYN takes the slot, whatever is in it.
TakeSyn(p) ==
  /\ p[2] = 0
  /\ port' = p[1]
  /\ packet' = EmptyMap
  /\ checksum' = Put(EmptyMap, SeqNum(p) + 1, 0)
  /\ UNCHANGED <<listener, payload>>

TakeData(p) ==
  /\ p[2] > 0 /\ p[1] = port /\ ~IsFin(p)
  /\ packet' = Stored(p)
  /\ checksum' = Marked(p)
  /\ UNCHANGED <<port, listener, payload>>

\* Mutant: a job that was processed stays in the slot.
TakeFinKeep(p) ==
  /\ p[2] > 0 /\ p[1] = port /\ IsFin(p)
  /\ packet' = Stored(p)
  /\ checksum' = Marked(p)
  /\ IF \A s \in DOMAIN Marked(p) : Marked(p)[s] = 1
     THEN /\ payload' = Assembled(Stored(p), Marked(p))
          /\ listener' = "decode"
     ELSE UNCHANGED <<listener, payload>>
  /\ UNCHANGED port

\* The FIN: a job none of whose numbers is missing leaves the slot for
\* process_payload; one with a missing number stays.
TakeFin(p) ==
  /\ p[2] > 0 /\ p[1] = port /\ IsFin(p)
  /\ IF \A s \in DOMAIN Marked(p) : Marked(p)[s] = 1
     THEN /\ payload' = Assembled(Stored(p), Marked(p))
          /\ listener' = "decode"
          /\ packet' = EmptyMap
          /\ checksum' = EmptyMap
          /\ port' = NoConn
     ELSE /\ packet' = Stored(p)
          /\ checksum' = Marked(p)
          /\ UNCHANGED <<port, listener, payload>>

IgnoreOther(p) ==
  /\ p[2] > 0 /\ p[1] # port
  /\ UNCHANGED <<slot, listener, payload>>

\* No earlier packet of the connection is still on its way.
InOrder(p) == \A q \in wire : q[1] = p[1] => q[2] >= p[2]

\* The capture loop calls process_pkt for the next packet; it is not entered
\* again while a job is processed.
ProcessPacket(p) ==
  /\ listener = "capture"
  /\ p \in wire
  /\ wire' = wire \ {p}
  /\ TakeSyn(p) \/ TakeData(p) \/ TakeFin(p) \/ IgnoreOther(p)
  /\ disturbed' = disturbed
       \cup (IF InOrder(p) THEN {} ELSE {p[1]})
       \cup (IF p[2] = 0 THEN {port} \ {NoConn, p[1]} ELSE {})
  /\ UNCHANGED <<isn, sent, segments, repeats, recut, forwarded>>
-----------------------------------------------------------------------------
(***************************************************************************)
(* process_payload.                                                        *)
(***************************************************************************)

\* Text without an EventNo is not a call.
Decode ==
  /\ listener = "decode"
  /\ listener' = IF payload # <<>> /\ payload[1][1] \in Calls
                 THEN "connect" ELSE "capture"
  /\ UNCHANGED <<net, slot, payload, forwarded, disturbed>>

\* A call is sent to port 8888, or given up if the connection fails.
Forward ==
  /\ listener = "connect"
  /\ \/ /\ forwarded' = Append(forwarded, payload)
        /\ listener' = "confirm"
        /\ UNCHANGED disturbed
     \/ /\ disturbed' = disturbed \cup {payload[1][1]}
        /\ listener' = "capture"
        /\ UNCHANGED forwarded
  /\ UNCHANGED <<net, slot, payload>>

\* The daemon answers or closes the connection.
Confirm ==
  /\ listener = "confirm"
  /\ listener' = "capture"
  /\ UNCHANGED <<net, slot, payload, forwarded, disturbed>>

Listen == (\E p \in wire : ProcessPacket(p)) \/ Decode \/ Forward \/ Confirm

Next ==
  \/ \E c \in Conns : Send(c)
  \/ \E p \in Packets : Retransmit(p)
  \/ \E p \in wire : Miss(p)
  \/ Listen

Spec == Init /\ [][Next]_vars

\* The sender finishes its jobs and the capture loop runs.
FairSpec == Spec /\ (\A c \in Conns : WF_vars(Send(c))) /\ WF_vars(Listen)
-----------------------------------------------------------------------------
\* The data of one connection.  Only where the sender has cut its stream anew for
\* a repetition may a place come twice; even then none is left out, unless the
\* sequence numbers wrap as well.
IsJob(c, job) ==
  /\ JobOf(c, job)
  /\ c \notin recut => Whole(c, job)
  /\ isn[c] + Length[c] < SeqSpace => Covers(c, job)

\* Every job sent to the daemon is that of one connection that prints a call,
\* whatever is lost, repeated or overtaken and however connections overlap: the
\* checksum, which knows first numbers of segments only, admits no gap and no
\* mixture, and a place twice only if it was repeated in another cut.
ForwardedIsOneJob ==
  \A i \in DOMAIN forwarded : \E c \in Calls : IsJob(c, forwarded[i])

\* No two jobs sent to the daemon are of one connection, retransmitted packets
\* or not.
ForwardedOnce ==
  \A i, j \in DOMAIN forwarded : \A c \in Conns :
    JobOf(c, forwarded[i]) /\ JobOf(c, forwarded[j]) => i = j

\* A call is forwarded whatever happens to other connections, unless one of its
\* own packets is repeated, lost or overtaken, another connection takes the slot,
\* the daemon refuses it or its sequence numbers wrap.
EveryCallForwarded ==
  \A c \in Calls :
    sent[c] = FinPos(c) + 1
      ~> (\/ \E i \in DOMAIN forwarded :
               JobOf(c, forwarded[i]) /\ Whole(c, forwarded[i])
          \/ c \in disturbed \/ isn[c] + FinPos(c) >= SeqSpace)
=============================================================================
