----------------------------- MODULE ZoneServer -----------------------------
(***************************************************************************)
(* The alert zone server (Alert_Zone/zone-server.js): a Node.js process    *)
(* that tells the panels of the alert zones their settings and resets a    *)
(* zone's audio and relay.  A panel sends short commands over TCP; most of *)
(* them are answered by the callback of a query on the one database        *)
(* connection, which runs queries in the order they were made.             *)
(*                                                                         *)
(* An exception nobody catches ends the process and with it every          *)
(* connection; `supervisor' (etc/init.d/rc.local) starts it again.  It is  *)
(* thrown by a query error, by a lost database connection (the handler of  *)
(* line 55 names a variable that does not exist), by a write to a socket   *)
(* that has been ended and by a socket error (sockets have no handler for  *)
(* either), and by a write of something that is not a string.  A write of  *)
(* the empty string sends nothing: no panel can tell it from silence.      *)
(***************************************************************************)
EXTENDS Naturals, Sequences

CONSTANTS
  Conn,       \* connections of the panels, each used once
  Zone,       \* rows of AlertZones
  NoZone,     \* the zone of an address without a row
  zoneOf,     \* zoneOf[c]: the zone whose HostAddr is that of the client of c
  Relays,     \* zones with a serial port and a reset address
  Ports,      \* zones with a TCP control port
  Fields,     \* commands for one column of the zone's row
  Numeric,    \* those whose column is not a string: an integer, or NULL
  Lists,      \* commands for the groups
  Blank,      \* Blank[c]: those of either kind that find only the empty string
  AskLimit,   \* bound: AskLimit[c] commands are sent on c
  DbErrors    \* bound: failures of the database

\* "BAD" is what fits no command: an unknown one, or one that the network has
\* brought in two pieces, of which neither fits.
Queries == Fields \cup Lists \cup {"RST"}
Command == Queries \cup {"EXT", "VOL", "BAD"}
Request == Conn \X (Nat \ {0})

ASSUME CommandAssumption ==
  /\ Numeric \subseteq Fields
  /\ (Fields \cup Lists) \cap {"RST", "EXT", "VOL", "BAD"} = {}
  /\ Fields \cap Lists = {}
  /\ Blank \in [Conn -> SUBSET ((Fields \ Numeric) \cup Lists)]
ASSUME ZoneAssumption ==
  /\ NoZone \notin Zone
  /\ zoneOf \in [Conn -> Zone \cup {NoZone}]
  /\ Relays \subseteq Zone /\ Ports \subseteq Zone
ASSUME BoundAssumption ==
  /\ AskLimit \in [Conn -> Nat]
  /\ DbErrors \in Nat

VARIABLES
  up,        \* the process runs
  sock,      \* sock[c]: "ended" after conn.end, "closed" by the client or a crash
  asked,     \* asked[c]: the commands sent
  taken,     \* taken[c]: how many of them a data event has brought
  queries,   \* the requests in the queue of the database connection
  answered,  \* answered[c]: the requests with a reply
  running,   \* commands of resets that run in processes of their own
  relay,     \* relay[z]: the output of the zone's relay
  spoilt,    \* history: resets whose 0 failed or was overtaken by their 1
  rude,      \* history: connections whose client did not wait for a reply
  dbErrors,  \* history: failures of the database
  crashed    \* history: an exception has ended the process

sockets == <<sock, asked, taken, answered, rude>>
zones   == <<running, relay, spoilt>>
process == <<up, dbErrors, crashed>>
vars    == <<up, sock, asked, taken, queries, answered, running, relay,
             spoilt, rude, dbErrors, crashed>>

TypeOK ==
  /\ up \in BOOLEAN
  /\ sock \in [Conn -> {"idle", "open", "ended", "closed"}]
  /\ asked \in [Conn -> Seq(Command)]
  /\ taken \in [Conn -> Nat]
  /\ queries \in Seq(Request)
  /\ answered \in [Conn -> SUBSET (Nat \ {0})]
  /\ running \subseteq Request \X {"vol", "on", "off"}
  /\ relay \in [Zone -> {0, 1}]
  /\ spoilt \subseteq Request
  /\ rude \subseteq Conn
  /\ dbErrors \in Nat
  /\ crashed \in BOOLEAN

Init ==
  /\ up = TRUE
  /\ sock = [c \in Conn |-> "idle"]
  /\ asked = [c \in Conn |-> << >>]
  /\ taken = [c \in Conn |-> 0]
  /\ queries = << >>
  /\ answered = [c \in Conn |-> {}]
  /\ running = {}
  /\ relay = [z \in Zone |-> 0]
  /\ spoilt = {}
  /\ rude = {}
  /\ dbErrors = 0
  /\ crashed = FALSE
-----------------------------------------------------------------------------
(* The process ends, and starts again.                                     *)

Crash ==
  /\ up' = FALSE
  /\ sock' = [c \in Conn |-> IF sock[c] = "idle" THEN "idle" ELSE "closed"]
  /\ queries' = << >>
  /\ crashed' = TRUE

\* The supervisor.
Restart ==
  /\ ~up
  /\ up' = TRUE
  /\ UNCHANGED <<sockets, queries, zones, dbErrors, crashed>>

\* A query fails or the connection is lost: the callbacks throw the error, and
\* if there is none, the handlers of the connection do.
DatabaseFails ==
  /\ up
  /\ dbErrors < DbErrors
  /\ dbErrors' = dbErrors + 1
  /\ Crash
  /\ UNCHANGED <<asked, taken, answered, rude, zones>>
-----------------------------------------------------------------------------
(* The client.                                                             *)

Pending(c) == DOMAIN asked[c] \ answered[c]

Connect(c) ==
  /\ up /\ sock[c] = "idle"
  /\ sock' = [sock EXCEPT ![c] = "open"]
  /\ UNCHANGED <<asked, taken, answered, rude, queries, zones, process>>

Ask(c) ==
  /\ sock[c] \in {"open", "ended"}
  /\ Len(asked[c]) < AskLimit[c]
  /\ \E cmd \in Command : asked' = [asked EXCEPT ![c] = Append(@, cmd)]
  /\ rude' = IF Pending(c) # {} \/ sock[c] = "ended" THEN rude \cup {c} ELSE rude
  /\ UNCHANGED <<sock, taken, answered, queries, zones, process>>

\* The client's end of the connection, which arrives behind its commands and
\* makes Node end the other half.
HangUp(c) ==
  /\ sock[c] \in {"open", "ended"}
  /\ taken[c] = Len(asked[c])
  /\ sock' = [sock EXCEPT ![c] = "closed"]
  /\ rude' = IF Pending(c) # {} THEN rude \cup {c} ELSE rude
  /\ UNCHANGED <<asked, taken, answered, queries, zones, process>>

\* The connection is reset: an error event without a handler.
Reset(c) ==
  /\ sock[c] \in {"open", "ended"}
  /\ rude' = rude \cup {c}
  /\ Crash
  /\ UNCHANGED <<asked, taken, answered, zones, dbErrors>>
-----------------------------------------------------------------------------
(* The data event (handleTcpReq), for the commands up to n.  Nothing       *)
(* divides the stream into commands: what has arrived together is compared *)
(* as one, which only the pattern of VOL then still fits.                  *)

Arrived(c, n) ==
  /\ sock[c] \in {"open", "ended"}
  /\ n \in taken[c] + 1 .. Len(asked[c])
  /\ taken' = [taken EXCEPT ![c] = n]

Single(c, n) == n = taken[c] + 1

TakeQuery(c, n) ==
  /\ Arrived(c, n) /\ Single(c, n)
  /\ asked[c][n] \in Queries
  /\ queries' = Append(queries, <<c, n>>)
  /\ UNCHANGED <<sock, asked, answered, rude, zones, process>>

TakeExit(c, n) ==
  /\ Arrived(c, n) /\ Single(c, n)
  /\ asked[c][n] = "EXT"
  /\ sock' = [sock EXCEPT ![c] = "ended"]
  /\ UNCHANGED <<asked, answered, rude, queries, zones, process>>

\* The reply is written at once, ahead of those to queries.
TakeVolume(c, n) ==
  /\ Arrived(c, n)
  /\ \E k \in taken[c] + 1 .. n :
       /\ asked[c][k] = "VOL"
       /\ IF sock[c] = "open"
          THEN /\ answered' = [answered EXCEPT ![c] = @ \cup {k}]
               /\ UNCHANGED <<sock, queries, process>>
          ELSE Crash /\ UNCHANGED <<answered, dbErrors>>
  /\ UNCHANGED <<asked, rude, zones>>

TakeUnknown(c, n) ==
  /\ Arrived(c, n)
  /\ \A k \in taken[c] + 1 .. n : asked[c][k] # "VOL"
  /\ Single(c, n) => asked[c][n] = "BAD"
  /\ UNCHANGED <<sock, asked, answered, rude, queries, zones, process>>

Receive(c) ==
  \E n \in 1 .. Len(asked[c]) :
    TakeQuery(c, n) \/ TakeExit(c, n) \/ TakeVolume(c, n) \/ TakeUnknown(c, n)
-----------------------------------------------------------------------------
(* The callback of the query that r = <<c, k>> made.                       *)

Asked(r) == asked[r[1]][r[2]]
ZoneOf(r) == zoneOf[r[1]]

Called(r) == queries # << >> /\ r = Head(queries)

\* Mutants: the socket is not looked at; rows[0] is used without looking.
MutantCanWrite(r) == Asked(r) \notin Numeric
MutantCanWriteRow(r) ==
  sock[r[1]] = "open" /\ Asked(r) \notin Numeric /\ ZoneOf(r) # NoZone

\* Writes a reply that is a string, if the socket takes one.
CanWrite(r) == sock[r[1]] = "open" /\ Asked(r) \notin Numeric

\* Mutant: the reply goes to the command before.
MutantAnswer(r) == answered' = [answered EXCEPT ![r[1]] = @ \cup {r[2] - 1}]

Answer(r) == answered' = [answered EXCEPT ![r[1]] = @ \cup {r[2]}]

\* Mutant: no question for a column is answered.
MutantNoRow(r) == Asked(r) \in Fields

\* An address without a row gets no answer to a question for a column.
NoRow(r) == Asked(r) \in Fields /\ ZoneOf(r) = NoZone

\* An empty column, a zone in no group, no groups.
NoText(r) == Asked(r) \in Blank[r[1]]

AnswerNothing(r) ==
  /\ Called(r)
  /\ NoRow(r) \/ (NoText(r) /\ CanWrite(r))
  /\ queries' = Tail(queries)
  /\ UNCHANGED <<sockets, zones, process>>

AnswerQuery(r) ==
  /\ Called(r) /\ ~NoRow(r)
  /\ Asked(r) # "RST" /\ ~NoText(r) /\ CanWrite(r)
  /\ Answer(r)
  /\ queries' = Tail(queries)
  /\ UNCHANGED <<sock, asked, taken, rude, zones, process>>

\* The commands of a reset: to the audio interface, and 1 and 0 to the relay.
\* Each is started without waiting for those before it.
ResetCommands(r) ==
  (IF ZoneOf(r) \in Ports THEN {<<r, "vol">>} ELSE {}) \cup
  (IF ZoneOf(r) \in Relays THEN {<<r, "on">>, <<r, "off">>} ELSE {})

StartReset(r) ==
  /\ running' = running \cup ResetCommands(r)
  /\ UNCHANGED <<relay, spoilt>>

AnswerReset(r) ==
  /\ Called(r) /\ Asked(r) = "RST" /\ CanWrite(r)
  /\ StartReset(r)
  /\ Answer(r)
  /\ sock' = [sock EXCEPT ![r[1]] = "ended"]
  /\ queries' = Tail(queries)
  /\ UNCHANGED <<asked, taken, rude, process>>

AnswerThrows(r) ==
  /\ Called(r) /\ ~NoRow(r) /\ ~CanWrite(r)
  /\ IF Asked(r) = "RST" THEN StartReset(r) ELSE UNCHANGED zones
  /\ Crash
  /\ UNCHANGED <<asked, taken, answered, rude, dbErrors>>

Callback ==
  \E c \in Conn : \E k \in DOMAIN asked[c] :
    LET r == <<c, k>> IN
      AnswerNothing(r) \/ AnswerQuery(r) \/ AnswerReset(r) \/ AnswerThrows(r)
-----------------------------------------------------------------------------
(* The processes of a reset, which outlive the server.  They end in any    *)
(* order, after what they do or without it: an error or the time-out is    *)
(* only logged.                                                            *)

Overtaken(r) == <<r, "off">> \notin running

SwitchOn(r) ==
  /\ <<r, "on">> \in running
  /\ running' = running \ {<<r, "on">>}
  /\ relay' = [relay EXCEPT ![ZoneOf(r)] = 1]
  /\ spoilt' = IF Overtaken(r) THEN spoilt \cup {r} ELSE spoilt
  /\ UNCHANGED <<sockets, queries, process>>

\* Mutant: the second command writes 1 again.
MutantSwitchOff(r) ==
  /\ <<r, "off">> \in running
  /\ running' = running \ {<<r, "off">>}
  /\ relay' = [relay EXCEPT ![ZoneOf(r)] = 1]
  /\ UNCHANGED <<spoilt, sockets, queries, process>>

SwitchOff(r) ==
  /\ <<r, "off">> \in running
  /\ running' = running \ {<<r, "off">>}
  /\ relay' = [relay EXCEPT ![ZoneOf(r)] = 0]
  /\ UNCHANGED <<spoilt, sockets, queries, process>>

\* The audio interface is not modelled: its command changes nothing here.
EndInVain(r) ==
  /\ \E what \in {"vol", "on", "off"} :
       /\ <<r, what>> \in running
       /\ running' = running \ {<<r, what>>}
       /\ spoilt' = IF what = "off" THEN spoilt \cup {r} ELSE spoilt
  /\ UNCHANGED <<relay, sockets, queries, process>>

CommandEnds ==
  \E c \in Conn : \E k \in DOMAIN asked[c] :
    SwitchOn(<<c, k>>) \/ SwitchOff(<<c, k>>) \/ EndInVain(<<c, k>>)
-----------------------------------------------------------------------------
Client == \E c \in Conn : Connect(c) \/ Ask(c) \/ HangUp(c) \/ Reset(c)

Server == Restart \/ (\E c \in Conn : Receive(c)) \/ Callback \/ CommandEnds

Next == Client \/ DatabaseFails \/ Server

Spec == Init /\ [][Next]_vars

\* Every step of the server uses up something, so that one condition will do.
FairSpec == Spec /\ WF_vars(Server)
-----------------------------------------------------------------------------
(* Properties.                                                             *)

\* As long as every panel waits for the reply to one command before it sends
\* another or hangs up, no connection breaks, the database works and no
\* integer column is asked for, the server does not end, whoever else is
\* connected: handleTcpReq writes to no socket that was ended meanwhile.
PatientClientsKeepItUp ==
  crashed =>
    \/ rude # {} \/ dbErrors > 0
    \/ \E c \in Conn : \E k \in DOMAIN asked[c] : asked[c][k] \in Numeric

\* However many resets of a zone overlap, its relay is off when their
\* processes have ended, unless one of them lost its 0 or had its own 1 come
\* later: the two writes that are started at once (zone-server.js 282-313).
RelayEndsOff ==
  \A z \in Zone :
    relay[z] = 1 =>
      \/ \E p \in running : ZoneOf(p[1]) = z
      \/ \E r \in spoilt : ZoneOf(r) = z

\* What a panel may rely on: its replies are to its requests, each at most
\* once, in order, and none after the end.
RequestReply ==
  INSTANCE ReplyService WITH
    Ordered <- Queries, Final <- {"RST"},
    over <- {c \in Conn : sock[c] \notin {"idle", "open"}}
ImplementsReplies == RequestReply!Spec

\* A panel that waits is not left waiting: its question, if it has come in one
\* piece, is answered or its connection ends, unless its address is no zone's or
\* the answer is the empty string, which the panel never sees.
PatientIsAnswered ==
  \A c \in Conn : \A k \in 1 .. AskLimit[c] :
    (/\ k \in DOMAIN asked[c] /\ asked[c][k] \in Queries \ Blank[c]
     /\ asked[c][k] \in Lists \cup {"RST"} \/ zoneOf[c] # NoZone)
      ~> (k \in answered[c] \/ sock[c] # "open" \/ c \in rude)
=============================================================================
