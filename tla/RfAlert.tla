-------------------------------- MODULE RfAlert --------------------------------
(***************************************************************************)
(* The reader of the RF tones: RF_Alert->poll_amqp and the loop around it  *)
(* (watchman-alerting.pl, RFTONE_LOOP).  Every poll opens a connection to  *)
(* the message broker of its own and starts a consumer, to which the       *)
(* broker sends whatever is in the queue; the poll returns with the first  *)
(* message, and the connection goes with it.                               *)
(*                                                                         *)
(* What becomes of the other messages depends on the consumer: if the      *)
(* broker takes a message for acknowledged when it has sent it ("auto"),   *)
(* they are gone; if it waits for the ack ("manual"), they go back to the  *)
(* head of the queue.  The code gives no option to `consume', for which    *)
(* Net::RabbitMQ has "auto", yet acknowledges what it reads.               *)
(***************************************************************************)
EXTENDS Naturals, Sequences, Functions

CONSTANTS
  Tone,     \* messages of the tone decoder
  Mapped,   \* those with a row in RF_Alert
  NoTone,
  Modes,    \* a subset of {"auto", "manual"}
  Breaks    \* bound: connections closed by the broker

ASSUME ToneAssumption == Mapped \subseteq Tone /\ NoTone \notin Tone
ASSUME ModeAssumption == Modes \subseteq {"auto", "manual"} /\ Breaks \in Nat

VARIABLES
  mode,
  queue,      \* rfalert_queue
  open,       \* the broker has the connection of this poll
  pushed,     \* messages sent to it and not read
  cur,        \* the message in hand
  step,       \* what the reader is about to do; "down" without a reader
  sent,       \* messages the decoder has sent
  recorded,   \* tones in RF_Incident
  alerts,     \* alerts[t]: how often t was alerted
  breaks,
  company,    \* history: messages that met another one on a connection
  unacked,    \* history: tones whose acknowledgement failed
  fallen      \* history: messages under way or read when the connection broke
              \* or the reader ended

rfVars == <<mode, queue, open, pushed, cur, step, sent, recorded, alerts, breaks,
            company, unacked, fallen>>

RfTypeOK ==
  /\ mode \in Modes
  /\ queue \in Seq(Tone) /\ pushed \in Seq(Tone)
  /\ open \in BOOLEAN
  /\ cur \in Tone \cup {NoTone}
  /\ step \in {"down", "idle", "wait", "save", "ack", "alert"}
  /\ sent \subseteq Tone /\ recorded \subseteq Mapped
  /\ alerts \in [Mapped -> Nat]
  /\ breaks \in Nat
  /\ company \subseteq Tone /\ unacked \subseteq Tone /\ fallen \subseteq Tone

RfInit ==
  /\ mode \in Modes
  /\ queue = << >> /\ pushed = << >>
  /\ open = FALSE
  /\ cur = NoTone /\ step = "down"
  /\ sent = {} /\ recorded = {}
  /\ alerts = [t \in Mapped |-> 0]
  /\ breaks = 0
  /\ company = {} /\ unacked = {} /\ fallen = {}

InHand == Range(pushed) \cup ({cur} \ {NoTone})
-----------------------------------------------------------------------------
(* The decoder and the broker.                                             *)

Publish(t) ==
  /\ t \notin sent
  /\ sent' = sent \cup {t}
  /\ queue' = Append(queue, t)
  /\ UNCHANGED <<mode, open, pushed, cur, step, recorded, alerts, breaks,
                 company, unacked, fallen>>

Push ==
  /\ open /\ queue # << >>
  /\ pushed' = Append(pushed, Head(queue))
  /\ queue' = Tail(queue)
  /\ company' = IF InHand = {} THEN company
                ELSE company \cup InHand \cup {Head(queue)}
  /\ UNCHANGED <<mode, open, cur, step, sent, recorded, alerts, breaks, unacked, fallen>>

\* The connection is at its end: what was not acknowledged goes back.
Requeue(messages) ==
  /\ open' = FALSE
  /\ queue' = IF open /\ mode = "manual" THEN messages \o queue ELSE queue

Held == (IF cur = NoTone THEN << >> ELSE <<cur>>) \o pushed

\* What has arrived by then can still be read.
BrokerCloses ==
  /\ open
  /\ breaks < Breaks /\ breaks' = breaks + 1
  /\ Requeue(Held)
  /\ \E n \in 0 .. Len(pushed) : pushed' = SubSeq(pushed, 1, n)
  /\ fallen' = fallen \cup (Range(pushed) \ Range(pushed'))
  /\ UNCHANGED <<mode, cur, step, sent, recorded, alerts, company, unacked>>
-----------------------------------------------------------------------------
(* The reader.                                                             *)

Begin ==
  /\ step = "down"
  /\ step' = "idle"
  /\ UNCHANGED <<mode, queue, open, pushed, cur, sent, recorded, alerts, breaks,
                 company, unacked, fallen>>

\* A connection that cannot be opened is tried again at the next poll.
Connect ==
  /\ step = "idle"
  /\ step' = "wait"
  /\ open' = TRUE
  /\ UNCHANGED <<mode, queue, pushed, cur, sent, recorded, alerts, breaks,
                 company, unacked, fallen>>

\* Mutant: what no row of RF_Alert maps is taken for a tone.
MutantReceive ==
  /\ step = "wait" /\ pushed # << >>
  /\ cur' = Head(pushed)
  /\ pushed' = Tail(pushed)
  /\ step' = "save"
  /\ UNCHANGED <<mode, queue, open, sent, recorded, alerts, breaks, company, unacked, fallen>>

Receive ==
  /\ step = "wait" /\ pushed # << >>
  /\ Head(pushed) \in Mapped
  /\ cur' = Head(pushed)
  /\ pushed' = Tail(pushed)
  /\ step' = "save"
  /\ UNCHANGED <<mode, queue, open, sent, recorded, alerts, breaks, company, unacked, fallen>>

\* The poll returns -1, without an acknowledgement.
ReceiveUnmapped ==
  /\ step = "wait" /\ pushed # << >>
  /\ Head(pushed) \notin Mapped
  /\ Requeue(Held)
  /\ pushed' = << >>
  /\ step' = "idle"
  /\ UNCHANGED <<mode, cur, sent, recorded, alerts, breaks, company, unacked, fallen>>

\* The INSERT may fail, which is logged.
Save ==
  /\ step = "save"
  /\ recorded' \in {recorded, recorded \cup {cur}}
  /\ step' = "ack"
  /\ UNCHANGED <<mode, queue, open, pushed, cur, sent, alerts, breaks, company, unacked, fallen>>

\* Mutants: a tone that cannot be acknowledged is given up; none is acknowledged.
MutantAcknowledge ==
  /\ step = "ack"
  /\ Requeue(pushed)
  /\ unacked' = IF open THEN unacked ELSE unacked \cup {cur}
  /\ pushed' = << >>
  /\ step' = IF open THEN "alert" ELSE "idle"
  /\ cur' = IF open THEN cur ELSE NoTone
  /\ UNCHANGED <<mode, sent, recorded, alerts, breaks, company, fallen>>
MutantAcknowledgeNot ==
  /\ step = "ack"
  /\ Requeue(Held)
  /\ pushed' = << >>
  /\ step' = "alert"
  /\ UNCHANGED <<mode, cur, sent, recorded, alerts, breaks, company, unacked, fallen>>

\* Acknowledges, if the connection is still there, and returns the tone.
Acknowledge ==
  /\ step = "ack"
  /\ Requeue(pushed)
  /\ unacked' = IF open THEN unacked ELSE unacked \cup {cur}
  /\ pushed' = << >>
  /\ step' = "alert"
  /\ UNCHANGED <<mode, cur, sent, recorded, alerts, breaks, company, fallen>>

\* Audio, signs and IO devices.
Alert ==
  /\ step = "alert"
  /\ alerts' = [alerts EXCEPT ![cur] = @ + 1]
  /\ cur' = NoTone
  /\ step' = "idle"
  /\ UNCHANGED <<mode, queue, open, pushed, sent, recorded, breaks, company, unacked, fallen>>

\* recv throws when the connection is gone, and nothing catches it.
CannotReceive == step = "wait" /\ ~open /\ pushed = << >>

\* The reader ends.
Fall ==
  /\ step # "down"
  /\ Requeue(Held)
  /\ fallen' = fallen \cup InHand
  /\ pushed' = << >> /\ cur' = NoTone
  /\ step' = "down"
  /\ UNCHANGED <<mode, sent, recorded, alerts, breaks, company, unacked>>

Environment == (\E t \in Tone : Publish(t)) \/ Push \/ BrokerCloses
Reader == Receive \/ ReceiveUnmapped \/ Save \/ Acknowledge \/ Alert

RfNext == Environment \/ Begin \/ Connect \/ Reader \/ Fall

RfSpec == RfInit /\ [][RfNext]_rfVars
-----------------------------------------------------------------------------
(* Properties.                                                             *)

Lost(t) ==
  /\ t \in sent \ (Range(queue) \cup InHand)
  /\ alerts[t] = 0

\* A tone is lost only in the hands of a reader that ends, or, if the broker
\* acknowledges by itself, because another message was sent to the same
\* connection: alone, it is alerted.  One that is on record is alerted, too,
\* unless the reader ended in between.
LostInCompany ==
  /\ \A t \in Mapped : Lost(t) => t \in fallen \/ (mode = "auto" /\ t \in company)
  /\ \A t \in recorded : alerts[t] > 0 \/ t \in fallen \/ t = cur

\* A tone is alerted again only if its acknowledgement failed.
AlertedOnce == \A t \in Mapped : alerts[t] > 1 => t \in unacked
=============================================================================
