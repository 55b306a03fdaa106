---------------------------- MODULE ReplyService ----------------------------
(***************************************************************************)
(* What a client of the alert zone server may rely on, without saying how: *)
(* a reply answers a request of that connection, once, before the          *)
(* connection is over; replies carry no label, so that those to database   *)
(* requests come in the order of the requests; a reset is the last.        *)
(***************************************************************************)
EXTENDS Naturals, Sequences

CONSTANTS
  Conn,      \* connections
  Command,   \* what can be asked
  Ordered,   \* the commands whose replies keep their order
  Final      \* the commands whose reply ends the connection

VARIABLES
  asked,     \* asked[c]: the commands a client has sent
  answered,  \* answered[c]: the positions of those with a reply
  over       \* connections that get no reply any more

vars == <<asked, answered, over>>

Init ==
  /\ asked = [c \in Conn |-> << >>]
  /\ answered = [c \in Conn |-> {}]
  /\ over = {}

Ask(c) ==
  /\ \E cmd \in Command : asked' = [asked EXCEPT ![c] = Append(@, cmd)]
  /\ UNCHANGED <<answered, over>>

Reply(c, k) ==
  /\ c \notin over
  /\ k \in DOMAIN asked[c] \ answered[c]
  /\ asked[c][k] \in Ordered =>
       \A j \in answered[c] : asked[c][j] \in Ordered => j < k
  /\ answered' = [answered EXCEPT ![c] = @ \cup {k}]
  /\ over' = IF asked[c][k] \in Final THEN over \cup {c} ELSE over
  /\ UNCHANGED asked

\* One connection ends, or all of them do.
End ==
  /\ over \subseteq over' /\ over' \subseteq Conn
  /\ UNCHANGED <<asked, answered>>

Next ==
  \/ \E c \in Conn : Ask(c) \/ \E k \in DOMAIN asked[c] : Reply(c, k)
  \/ End

Spec == Init /\ [][Next]_vars
=============================================================================
