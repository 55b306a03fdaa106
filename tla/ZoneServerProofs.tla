-------------------------- MODULE ZoneServerProofs --------------------------
(***************************************************************************)
(* Theorems about ZoneServer, for any number of connections, zones and     *)
(* commands and any failures: type correctness, what a panel may rely on   *)
(* (the refinement of ReplyService), that panels that wait do not end the  *)
(* server, and that relays end off.                                        *)
(***************************************************************************)
EXTENDS ZoneServer, TLAPS

\* What is taken was asked, and what is answered was taken.
Taken ==
  \A c \in Conn :
    /\ taken[c] <= Len(asked[c])
    /\ \A k \in answered[c] : k <= taken[c]
    /\ sock[c] = "idle" => asked[c] = << >>

\* The queue holds requests for a query that were taken and have no reply, in
\* the order of their connection, and behind all the answered ones.
Queue ==
  \A i \in 1 .. Len(queries) :
    LET c == queries[i][1]
        k == queries[i][2]
    IN  /\ k <= taken[c]
        /\ asked[c][k] \in Queries
        /\ \A j \in answered[c] : asked[c][j] \in Queries => j < k
        /\ \A h \in 1 .. Len(queries) :
             h < i /\ queries[h][1] = c => queries[h][2] < k

OrderInv == TypeOK /\ Taken /\ Queue

\* A client that waits has one request without a reply, and its socket is open
\* as long as a query or a command to come may write to it.
Waits(c) ==
  /\ \A j, k \in Pending(c) : j = k
  /\ \A i \in 1 .. Len(queries) : queries[i][1] = c => sock[c] = "open"
  /\ sock[c] = "ended" => taken[c] = Len(asked[c])

Patient == \A c \in Conn : c \notin rude => Waits(c)

Culprit ==
  \/ rude # {} \/ dbErrors > 0
  \/ \E c \in Conn : \E k \in DOMAIN asked[c] : asked[c][k] \in Numeric

PatienceInv == OrderInv /\ Patient /\ (crashed => Culprit)

\* A relay that is on has a 0 still to come, or is spoilt.
RelayInv ==
  \A z \in Zone :
    relay[z] = 1 =>
      \/ \E r \in Request : <<r, "off">> \in running /\ ZoneOf(r) = z
      \/ \E r \in spoilt : ZoneOf(r) = z
-----------------------------------------------------------------------------
\* The disjunctions of Callback and CommandEnds.
Answers(r) ==
  AnswerNothing(r) \/ AnswerQuery(r) \/ AnswerReset(r) \/ AnswerThrows(r)
Ends(r) == SwitchOn(r) \/ SwitchOff(r) \/ EndInVain(r)

\* What SMT needs to know of requests, and of the two ends of the queue.
LEMMA RequestFacts ==
  ASSUME TypeOK, NEW c \in Conn, NEW k \in DOMAIN asked[c]
  PROVE  /\ <<c, k>> \in Request
         /\ k \in Nat \ {0} /\ k <= Len(asked[c]) /\ Len(asked[c]) \in Nat
         /\ asked[c] \in Seq(Command)
         /\ asked[c][k] \in Command
         /\ Asked(<<c, k>>) = asked[c][k] /\ ZoneOf(<<c, k>>) = zoneOf[c]
<1>1. asked[c] \in Seq(Command) /\ zoneOf[c] \in Zone \cup {NoZone}
  BY ZoneAssumption DEF TypeOK
<1> HIDE DEF Command
<1>2. /\ k \in Nat \ {0} /\ k <= Len(asked[c]) /\ Len(asked[c]) \in Nat
      /\ asked[c][k] \in Command
  BY <1>1
<1>3. QED
  BY <1>1, <1>2 DEF Request, Asked, ZoneOf

LEMMA QueueHead ==
  ASSUME TypeOK, queries # << >>
  PROVE  /\ Head(queries) = queries[1] /\ Head(queries) \in Request
         /\ Tail(queries) \in Seq(Request)
         /\ Len(queries) \in Nat \ {0}
         /\ Len(Tail(queries)) = Len(queries) - 1
         /\ \A i \in 1 .. Len(queries) - 1 : Tail(queries)[i] = queries[i + 1]
<1>1. queries \in Seq(Request)
  BY DEF TypeOK
<1> HIDE DEF Request
<1>2. QED
  BY <1>1

LEMMA QueueAppend ==
  ASSUME TypeOK, NEW r \in Request, NEW q, q = Append(queries, r)
  PROVE  /\ q \in Seq(Request)
         /\ Len(queries) \in Nat /\ Len(q) = Len(queries) + 1
         /\ q[Len(queries) + 1] = r
         /\ \A i \in 1 .. Len(queries) : q[i] = queries[i]
<1>1. queries \in Seq(Request)
  BY DEF TypeOK
<1> HIDE DEF Request
<1>2. QED
  BY <1>1

LEMMA CrashFacts ==
  ASSUME TypeOK, Crash
  PROVE  /\ up' \in BOOLEAN /\ crashed' \in BOOLEAN
         /\ sock' \in [Conn -> {"idle", "open", "ended", "closed"}]
         /\ queries' \in Seq(Request) /\ Len(queries') = 0
         /\ \A c \in Conn : /\ sock'[c] = "idle" <=> sock[c] = "idle"
                            /\ sock'[c] \in {"idle", "closed"}
<1>1. queries' = << >> /\ up' = FALSE /\ crashed' = TRUE
  BY DEF Crash
<1>2. sock' = [c \in Conn |-> IF sock[c] = "idle" THEN "idle" ELSE "closed"]
  BY DEF Crash
<1>3. << >> \in Seq(Request) /\ Len(<< >>) = 0
  OBVIOUS
<1>4. QED
  BY <1>1, <1>2, <1>3

\* The action of the initial state and of each step on the types.
LEMMA TypeInit == Init => TypeOK
<1> SUFFICES ASSUME Init PROVE TypeOK
  OBVIOUS
<1>1. /\ sock \in [Conn -> {"idle", "open", "ended", "closed"}]
      /\ asked \in [Conn -> Seq(Command)]
      /\ taken \in [Conn -> Nat]
      /\ queries \in Seq(Request)
  BY DEF Init
<1>2. answered \in [Conn -> SUBSET (Nat \ {0})]
  BY DEF Init
<1>3. QED
  BY <1>1, <1>2 DEF Init, TypeOK

LEMMA ClientTypes ==
  ASSUME TypeOK, NEW c \in Conn, Connect(c) \/ Ask(c) \/ HangUp(c) \/ Reset(c)
  PROVE  TypeOK'
<1>1. CASE Connect(c)
  BY <1>1 DEF TypeOK, Connect, zones, process
<1>2. CASE Ask(c)
  BY <1>2 DEF TypeOK, Ask, zones, process
<1>3. CASE HangUp(c)
  BY <1>3 DEF TypeOK, HangUp, zones, process
<1>4. CASE Reset(c)
  BY <1>4, CrashFacts DEF TypeOK, Reset, zones
<1>5. QED
  BY <1>1, <1>2, <1>3, <1>4

LEMMA ReceiveTypes ==
  ASSUME TypeOK, NEW c \in Conn, Receive(c)
  PROVE  TypeOK'
<1>1. PICK n \in 1 .. Len(asked[c]) :
        TakeQuery(c, n) \/ TakeExit(c, n) \/ TakeVolume(c, n) \/ TakeUnknown(c, n)
  BY DEF Receive
<1>2. asked[c] \in Seq(Command) /\ DOMAIN asked[c] = 1 .. Len(asked[c]) /\ n \in Nat \ {0}
  BY DEF TypeOK
<1>3. <<c, n>> \in Request
  BY <1>2 DEF Request, TypeOK
<1>4. CASE TakeQuery(c, n)
  BY <1>2, <1>3, <1>4, QueueAppend DEF TypeOK, TakeQuery, Arrived, zones, process
<1>5. CASE TakeExit(c, n)
  BY <1>2, <1>5 DEF TypeOK, TakeExit, Arrived, zones, process
<1>6. CASE TakeVolume(c, n)
  <2>1. PICK k \in taken[c] + 1 .. n :
          /\ asked[c][k] = "VOL"
          /\ \/ /\ answered' = [answered EXCEPT ![c] = @ \cup {k}]
                /\ UNCHANGED <<sock, queries, process>>
             \/ Crash /\ UNCHANGED <<answered, dbErrors>>
    BY <1>6 DEF TakeVolume
  <2>2. k \in Nat \ {0}
    BY <1>2 DEF TypeOK
  <2>3. CASE Crash /\ UNCHANGED <<answered, dbErrors>>
    BY <1>2, <1>6, <2>3, CrashFacts DEF TypeOK, TakeVolume, Arrived, zones
  <2>4. CASE /\ answered' = [answered EXCEPT ![c] = @ \cup {k}]
             /\ UNCHANGED <<sock, queries, process>>
    <3>1. answered' \in [Conn -> SUBSET (Nat \ {0})]
      BY <2>2, <2>4 DEF TypeOK
    <3>2. QED
      BY <1>2, <1>6, <2>4, <3>1 DEF TypeOK, TakeVolume, Arrived, zones, process
  <2>5. QED
    BY <2>1, <2>3, <2>4
<1>7. CASE TakeUnknown(c, n)
  BY <1>2, <1>7 DEF TypeOK, TakeUnknown, Arrived, zones, process
<1>8. QED
  BY <1>1, <1>4, <1>5, <1>6, <1>7

LEMMA StartTypes ==
  ASSUME TypeOK, NEW r \in Request, StartReset(r)
  PROVE  running' \subseteq Request \X {"vol", "on", "off"}
BY DEF TypeOK, StartReset, ResetCommands

LEMMA CallbackTypes ==
  ASSUME TypeOK, Callback
  PROVE  TypeOK'
<1>1. PICK c \in Conn : \E k \in DOMAIN asked[c] : Answers(<<c, k>>)
  BY DEF Callback, Answers
<1>0. PICK k \in DOMAIN asked[c] : Answers(<<c, k>>)
  BY <1>1
<1> DEFINE r == <<c, k>>
<1>2. r \in Request /\ r[1] = c /\ r[2] = k /\ k \in Nat \ {0}
  BY RequestFacts
<1> HIDE DEF r
<1>3. CASE AnswerNothing(r)
  BY <1>3, QueueHead DEF TypeOK, AnswerNothing, Called, sockets, zones, process
<1>4. CASE AnswerQuery(r)
  BY <1>2, <1>4, QueueHead DEF TypeOK, AnswerQuery, Called, Answer, zones, process
<1>5. CASE AnswerReset(r)
  BY <1>2, <1>5, QueueHead, StartTypes
     DEF TypeOK, AnswerReset, Called, Answer, process, StartReset
<1>6. CASE AnswerThrows(r)
  <2>1. running' \subseteq Request \X {"vol", "on", "off"} /\ UNCHANGED <<relay, spoilt>>
    BY <1>2, <1>6, StartTypes DEF AnswerThrows, StartReset, zones, TypeOK
  <2>2. QED
    BY <1>6, <2>1, CrashFacts DEF TypeOK, AnswerThrows
<1>7. QED
  BY <1>0, <1>3, <1>4, <1>5, <1>6 DEF r, Answers

LEMMA CommandTypes ==
  ASSUME TypeOK, CommandEnds
  PROVE  TypeOK'
<1>1. PICK c \in Conn : \E k \in DOMAIN asked[c] : Ends(<<c, k>>)
  BY DEF CommandEnds, Ends
<1>0. PICK k \in DOMAIN asked[c] : Ends(<<c, k>>)
  BY <1>1
<1>2. <<c, k>> \in Request
  BY RequestFacts
<1>3. CASE SwitchOn(<<c, k>>)
  BY <1>2, <1>3 DEF TypeOK, SwitchOn, sockets, process
<1>4. CASE SwitchOff(<<c, k>>)
  BY <1>2, <1>4 DEF TypeOK, SwitchOff, sockets, process
<1>5. CASE EndInVain(<<c, k>>)
  BY <1>2, <1>5 DEF TypeOK, EndInVain, sockets, process
<1>6. QED
  BY <1>0, <1>3, <1>4, <1>5 DEF Ends

LEMMA TypeStep ==
  ASSUME TypeOK, [Next]_vars
  PROVE  TypeOK'
<1>1. CASE Client
  BY <1>1, ClientTypes DEF Client
<1>2. CASE DatabaseFails
  <2>1. Crash /\ dbErrors' \in Nat
    BY <1>2 DEF DatabaseFails, TypeOK
  <2>2. QED
    BY <1>2, <2>1, CrashFacts DEF DatabaseFails, TypeOK, zones
<1>3. CASE Restart
  BY <1>3 DEF Restart, TypeOK, sockets, zones
<1>4. CASE \E c \in Conn : Receive(c)
  BY <1>4, ReceiveTypes
<1>5. CASE Callback
  BY <1>5, CallbackTypes
<1>6. CASE CommandEnds
  BY <1>6, CommandTypes
<1>7. CASE UNCHANGED vars
  BY <1>7 DEF vars, TypeOK
<1>8. QED
  BY <1>1, <1>2, <1>3, <1>4, <1>5, <1>6, <1>7 DEF Next, Server

\* Sockets, queues and processes of resets are what TypeOK says, whatever the
\* panels send and whatever fails.
THEOREM TypeCorrect == Spec => []TypeOK
<1>1. QED
  BY TypeInit, TypeStep, PTL DEF Spec
-----------------------------------------------------------------------------
(* Relays.                                                                 *)

LEMMA RelayStep ==
  ASSUME TypeOK, RelayInv, [Next]_vars
  PROVE  RelayInv'
<1>1. ASSUME UNCHANGED relay, running \subseteq running', spoilt \subseteq spoilt'
      PROVE  RelayInv'
  BY <1>1 DEF RelayInv, ZoneOf
<1>2. CASE Client
  BY <1>1, <1>2 DEF Client, Connect, Ask, HangUp, Reset, zones
<1>3. CASE DatabaseFails \/ Restart \/ UNCHANGED vars
  BY <1>1, <1>3 DEF DatabaseFails, Restart, vars, zones
<1>4. CASE \E c \in Conn : Receive(c)
  BY <1>1, <1>4 DEF Receive, TakeQuery, TakeExit, TakeVolume, TakeUnknown, zones
<1>5. CASE Callback
  BY <1>1, <1>5
     DEF Callback, AnswerNothing, AnswerQuery, AnswerReset, AnswerThrows, StartReset, zones
<1>6. CASE CommandEnds
  <2>1. PICK c \in Conn : \E k \in DOMAIN asked[c] : Ends(<<c, k>>)
    BY <1>6 DEF CommandEnds, Ends
  <2>2. PICK k \in DOMAIN asked[c] : Ends(<<c, k>>)
    BY <2>1
  <2> DEFINE r == <<c, k>>
  <2>3. r \in Request
    BY RequestFacts
  <2> HIDE DEF r
  <2> SUFFICES ASSUME NEW z \in Zone, relay'[z] = 1
               PROVE  \/ \E q \in Request : <<q, "off">> \in running' /\ ZoneOf(q) = z
                      \/ \E q \in spoilt' : ZoneOf(q) = z
    BY DEF RelayInv, ZoneOf
  <2>4. relay[z] = 1 =>
          \/ \E q \in Request : <<q, "off">> \in running /\ ZoneOf(q) = z
          \/ \E q \in spoilt : ZoneOf(q) = z
    BY DEF RelayInv
  <2>5. CASE SwitchOn(r)
    <3>1. CASE ZoneOf(r) = z
      <4>1. CASE <<r, "off">> \in running
        BY <2>3, <2>5, <3>1, <4>1 DEF SwitchOn
      <4>2. CASE <<r, "off">> \notin running
        BY <2>5, <3>1, <4>2 DEF SwitchOn, Overtaken
      <4>3. QED
        BY <4>1, <4>2
    <3>2. CASE ZoneOf(r) # z
      <4>1. relay[z] = 1
        BY <2>5, <3>2 DEF SwitchOn, TypeOK
      <4>2. spoilt \subseteq spoilt' /\ \A q \in Request :
              <<q, "off">> \in running => <<q, "off">> \in running'
        BY <2>5 DEF SwitchOn
      <4>3. QED
        BY <2>4, <4>1, <4>2
    <3>3. QED
      BY <3>1, <3>2
  <2>6. CASE SwitchOff(r)
    <3>1. ZoneOf(r) # z /\ relay[z] = 1
      BY <2>6 DEF SwitchOff, TypeOK
    <3>2. spoilt' = spoilt /\ \A q \in Request :
            <<q, "off">> \in running /\ q # r => <<q, "off">> \in running'
      BY <2>6 DEF SwitchOff
    <3>3. QED
      BY <2>4, <3>1, <3>2
  <2>7. CASE EndInVain(r)
    <3>1. relay[z] = 1 /\ spoilt \subseteq spoilt'
      BY <2>7 DEF EndInVain
    <3>2. \A q \in Request : <<q, "off">> \in running =>
            <<q, "off">> \in running' \/ q \in spoilt'
      BY <2>7 DEF EndInVain
    <3>3. QED
      BY <2>4, <3>1, <3>2
  <2>8. QED
    BY <2>2, <2>5, <2>6, <2>7 DEF r, Ends
<1>7. QED
  BY <1>2, <1>3, <1>4, <1>5, <1>6 DEF Next, Server

\* RelayEndsOff, for any number of overlapping resets of any zones: the
\* processes started by one RST are only bound among themselves.
THEOREM RelaysEndOff == Spec => []RelayEndsOff
<1>1. Init => RelayInv
  BY DEF Init, RelayInv
<1>2. TypeOK /\ RelayInv => RelayEndsOff
  BY DEF RelayInv, RelayEndsOff, ZoneOf
<1>3. QED
  BY <1>1, <1>2, RelayStep, TypeInit, TypeStep, PTL DEF Spec
-----------------------------------------------------------------------------
(* The order of requests and replies.                                      *)

LEMMA OrderInit == Init => OrderInv
<1> SUFFICES ASSUME Init PROVE OrderInv
  OBVIOUS
<1>1. TypeOK
  BY TypeInit
<1>2. Len(queries) = 0 /\ \A c \in Conn : /\ asked[c] = << >> /\ taken[c] = 0
                                          /\ answered[c] = {}
  BY DEF Init
<1>3. QED
  BY <1>1, <1>2 DEF OrderInv, Taken, Queue

\* The types OrderInv speaks of.
LEMMA OrderTypes ==
  ASSUME OrderInv
  PROVE  /\ \A c \in Conn : /\ Len(asked[c]) \in Nat /\ taken[c] \in Nat
                            /\ answered[c] \subseteq Nat \ {0}
                            /\ DOMAIN asked[c] = 1 .. Len(asked[c])
         /\ Len(queries) \in Nat
         /\ \A i \in 1 .. Len(queries) :
              /\ queries[i] \in Request
              /\ queries[i][1] \in Conn /\ queries[i][2] \in Nat \ {0}
<1>1. \A c \in Conn : asked[c] \in Seq(Command)
  BY DEF OrderInv, TypeOK
<1>2. queries \in Seq(Request)
  BY DEF OrderInv, TypeOK
<1>3. Len(queries) \in Nat /\ \A i \in 1 .. Len(queries) : queries[i] \in Request
  <2> HIDE DEF Request
  <2>1. QED
    BY <1>2
<1>4. ASSUME NEW c \in Conn
      PROVE  Len(asked[c]) \in Nat /\ DOMAIN asked[c] = 1 .. Len(asked[c])
  <2>1. asked[c] \in Seq(Command)
    BY <1>1
  <2> HIDE DEF Command
  <2>2. QED
    BY <2>1
<1>5. QED
  BY <1>3, <1>4 DEF OrderInv, TypeOK, Request

\* What Queue says of one place.
LEMMA QueueAt ==
  ASSUME OrderInv, NEW i \in 1 .. Len(queries)
  PROVE  /\ queries[i][1] \in Conn /\ queries[i][2] \in Nat \ {0}
         /\ queries[i][2] <= taken[queries[i][1]]
         /\ asked[queries[i][1]][queries[i][2]] \in Queries
         /\ \A j \in answered[queries[i][1]] :
              asked[queries[i][1]][j] \in Queries => j < queries[i][2]
         /\ \A h \in 1 .. Len(queries) :
              h < i /\ queries[h][1] = queries[i][1] => queries[h][2] < queries[i][2]
BY OrderTypes DEF OrderInv, Queue

\* A step that ends the process empties the queue.
LEMMA OrderCrash ==
  ASSUME OrderInv, Crash, UNCHANGED <<asked, answered>>,
         \A c \in Conn : taken'[c] >= taken[c] /\ taken'[c] <= Len(asked[c]) /\ taken'[c] \in Nat
  PROVE  Taken' /\ Queue'
<1>1. Len(queries') = 0 /\ \A c \in Conn : sock'[c] = "idle" <=> sock[c] = "idle"
  BY CrashFacts DEF OrderInv
<1>2. Taken'
  BY <1>1, OrderTypes DEF OrderInv, Taken
<1>3. QED
  BY <1>1, <1>2 DEF Queue

\* So does no step that leaves the queue and the requests as they are.
LEMMA OrderSame ==
  ASSUME OrderInv, UNCHANGED <<asked, taken, answered, queries>>,
         \A c \in Conn : sock'[c] = "idle" => sock[c] = "idle"
  PROVE  Taken' /\ Queue'
<1>1. Taken'
  BY DEF OrderInv, Taken
<1>2. Queue'
  BY DEF OrderInv, Queue
<1>3. QED
  BY <1>1, <1>2

LEMMA OrderAsk ==
  ASSUME OrderInv, NEW c \in Conn, Ask(c)
  PROVE  Taken' /\ Queue'
<1>1. PICK cmd \in Command : asked' = [asked EXCEPT ![c] = Append(@, cmd)]
  BY DEF Ask
<1>2. /\ UNCHANGED <<sock, taken, answered, queries>> /\ sock[c] # "idle"
      /\ asked[c] \in Seq(Command)
  BY DEF Ask, OrderInv, TypeOK
<1>3. \A d \in Conn : /\ Len(asked'[d]) >= Len(asked[d]) /\ Len(asked'[d]) \in Nat
                      /\ \A k \in 1 .. Len(asked[d]) : asked'[d][k] = asked[d][k]
                      /\ sock[d] = "idle" => asked'[d] = asked[d]
  BY <1>1, <1>2, OrderTypes DEF OrderInv, TypeOK
<1>4. Taken'
  BY <1>2, <1>3, OrderTypes DEF OrderInv, Taken
<1>5. \A d \in Conn : \A k \in 1 .. taken[d] : asked'[d][k] = asked[d][k]
  BY <1>3, OrderTypes DEF OrderInv, Taken
<1>6. \A d \in Conn : \A k \in answered[d] : asked'[d][k] = asked[d][k]
  BY <1>5, OrderTypes DEF OrderInv, Taken
<1>7. Queue'
  BY <1>2, <1>5, <1>6, OrderTypes DEF OrderInv, Queue
<1>8. QED
  BY <1>4, <1>7

LEMMA OrderReceive ==
  ASSUME OrderInv, NEW c \in Conn, Receive(c)
  PROVE  Taken' /\ Queue'
<1>1. PICK n \in 1 .. Len(asked[c]) :
        TakeQuery(c, n) \/ TakeExit(c, n) \/ TakeVolume(c, n) \/ TakeUnknown(c, n)
  BY DEF Receive
<1>2. /\ n > taken[c] /\ n <= Len(asked[c]) /\ n \in Nat
      /\ taken' = [taken EXCEPT ![c] = n]
      /\ sock[c] # "idle"
      /\ UNCHANGED asked
  BY <1>1, OrderTypes DEF TakeQuery, TakeExit, TakeVolume, TakeUnknown, Arrived
<1>3. \A d \in Conn : taken'[d] >= taken[d] /\ taken'[d] <= Len(asked[d]) /\ taken'[d] \in Nat
  BY <1>2, OrderTypes DEF OrderInv, Taken, TypeOK
<1>4. ASSUME UNCHANGED <<queries, answered>>,
             \A d \in Conn : sock'[d] = "idle" => sock[d] = "idle"
      PROVE  Taken' /\ Queue'
  <2>1. Taken'
    BY <1>2, <1>3, <1>4, OrderTypes DEF OrderInv, Taken
  <2>2. \A i \in 1 .. Len(queries) : taken[queries[i][1]] <= taken'[queries[i][1]]
                                    /\ taken[queries[i][1]] \in Nat
                                    /\ taken'[queries[i][1]] \in Nat
    BY <1>3, QueueAt, OrderTypes
  <2>4. Queue'
    BY <1>2, <1>4, <2>2, QueueAt DEF Queue
  <2>3. QED
    BY <2>1, <2>4
<1>5. CASE TakeExit(c, n) \/ TakeUnknown(c, n)
  BY <1>4, <1>5 DEF TakeExit, TakeUnknown, OrderInv, TypeOK
<1>6. CASE TakeQuery(c, n)
  <2>1. /\ queries' = Append(queries, <<c, n>>) /\ UNCHANGED <<sock, answered>>
        /\ asked[c][n] \in Queries
    BY <1>6 DEF TakeQuery
  <2>2. Taken'
    BY <1>2, <1>3, <2>1, OrderTypes DEF OrderInv, Taken
  <2>3. <<c, n>> \in Request
    BY <1>2, OrderTypes DEF Request, OrderInv, TypeOK
  <2>4. /\ Len(queries') = Len(queries) + 1 /\ Len(queries) \in Nat
        /\ queries'[Len(queries) + 1] = <<c, n>>
        /\ \A i \in 1 .. Len(queries) : queries'[i] = queries[i]
    BY <2>1, <2>3, QueueAppend DEF OrderInv
  <2>5. \A i \in 1 .. Len(queries') :
          \/ i \in 1 .. Len(queries) /\ queries'[i] = queries[i]
          \/ i = Len(queries) + 1 /\ queries'[i] = <<c, n>>
    BY <2>4
  <2> SUFFICES ASSUME NEW i \in 1 .. Len(queries')
               PROVE  /\ queries'[i][2] <= taken'[queries'[i][1]]
                      /\ asked[queries'[i][1]][queries'[i][2]] \in Queries
                      /\ \A j \in answered[queries'[i][1]] :
                           asked[queries'[i][1]][j] \in Queries => j < queries'[i][2]
                      /\ \A h \in 1 .. Len(queries') :
                           h < i /\ queries'[h][1] = queries'[i][1] =>
                             queries'[h][2] < queries'[i][2]
    BY <1>2, <2>1, <2>2 DEF Queue
  <2>6. CASE i \in 1 .. Len(queries)
    <3>1. queries'[i] = queries[i] /\ \A h \in 1 .. Len(queries') :
            h < i => h \in 1 .. Len(queries) /\ queries'[h] = queries[h]
      BY <2>4, <2>6
    <3>2. queries[i][2] <= taken'[queries[i][1]]
      BY <1>3, <2>6, QueueAt, OrderTypes
    <3>3. QED
      BY <2>6, <3>1, <3>2, QueueAt
  <2>7. CASE i = Len(queries) + 1
    <3>1. queries'[i] = <<c, n>> /\ \A h \in 1 .. Len(queries') :
            h < i => h \in 1 .. Len(queries) /\ queries'[h] = queries[h]
      BY <2>4, <2>7
    <3>2. \A h \in 1 .. Len(queries) : queries[h][1] = c => queries[h][2] < n
      BY <1>2, OrderTypes DEF OrderInv, Queue
    <3>3. \A j \in answered[c] : j < n
      BY <1>2, OrderTypes DEF OrderInv, Taken
    <3>4. taken'[c] = n
      BY <1>2 DEF OrderInv, TypeOK
    <3>5. QED
      BY <2>1, <3>1, <3>2, <3>3, <3>4, <1>2
  <2>8. QED
    BY <2>4, <2>6, <2>7
<1>7. CASE TakeVolume(c, n)
  <2>1. PICK k \in taken[c] + 1 .. n :
          /\ asked[c][k] = "VOL"
          /\ \/ /\ answered' = [answered EXCEPT ![c] = @ \cup {k}]
                /\ UNCHANGED <<sock, queries, process>>
             \/ Crash /\ UNCHANGED <<answered, dbErrors>>
    BY <1>7 DEF TakeVolume
  <2>2. CASE Crash /\ UNCHANGED <<answered, dbErrors>>
    BY <1>2, <1>3, <2>2, OrderCrash
  <2>3. CASE /\ answered' = [answered EXCEPT ![c] = @ \cup {k}]
             /\ UNCHANGED <<sock, queries, process>>
    <3>1. k <= n /\ k \in Nat /\ asked[c][k] \notin Queries
      BY <1>2, <2>1, OrderTypes, CommandAssumption DEF Queries
    <3>2. \A d \in Conn : \A j \in answered'[d] : j \in answered[d] \/ (d = c /\ j = k)
      BY <2>3 DEF OrderInv, TypeOK
    <3>3. taken'[c] = n
      BY <1>2 DEF OrderInv, TypeOK
    <3>4. Taken'
      BY <1>2, <1>3, <2>3, <3>1, <3>2, <3>3, OrderTypes DEF OrderInv, Taken
    <3>5. Queue'
      <4> SUFFICES ASSUME NEW i \in 1 .. Len(queries)
                   PROVE  /\ queries[i][2] <= taken'[queries[i][1]]
                          /\ asked[queries[i][1]][queries[i][2]] \in Queries
                          /\ \A j \in answered'[queries[i][1]] :
                               asked[queries[i][1]][j] \in Queries => j < queries[i][2]
                          /\ \A h \in 1 .. Len(queries) :
                               h < i /\ queries[h][1] = queries[i][1] =>
                                 queries[h][2] < queries[i][2]
        BY <1>2, <2>3 DEF Queue
      <4>1. queries[i][2] <= taken'[queries[i][1]]
        BY <1>3, QueueAt, OrderTypes
      <4>2. ASSUME NEW j \in answered'[queries[i][1]], asked[queries[i][1]][j] \in Queries
            PROVE  j < queries[i][2]
        <5>1. j \in answered[queries[i][1]]
          BY <3>1, <3>2, <4>2, QueueAt
        <5>2. QED
          BY <4>2, <5>1, QueueAt
      <4>3. QED
        BY <4>1, <4>2, QueueAt
    <3>6. QED
      BY <3>4, <3>5
  <2>4. QED
    BY <2>1, <2>2, <2>3
<1>8. QED
  BY <1>1, <1>5, <1>6, <1>7

LEMMA OrderCallback ==
  ASSUME OrderInv, Callback
  PROVE  Taken' /\ Queue'
<1>1. PICK c \in Conn : \E k \in DOMAIN asked[c] : Answers(<<c, k>>)
  BY DEF Callback, Answers
<1>2. PICK k \in DOMAIN asked[c] : Answers(<<c, k>>)
  BY <1>1
<1> DEFINE r == <<c, k>>
<1>3. r \in Request /\ r[1] = c /\ r[2] = k /\ k \in Nat \ {0}
  BY RequestFacts DEF OrderInv
<1> HIDE DEF r
<1>4. CASE AnswerThrows(r)
  BY <1>4, OrderTypes, OrderCrash DEF AnswerThrows, OrderInv, Taken
<1>5. CASE AnswerNothing(r) \/ AnswerQuery(r) \/ AnswerReset(r)
  <2>1. /\ queries # << >> /\ r = Head(queries) /\ queries' = Tail(queries)
        /\ UNCHANGED <<asked, taken>>
        /\ answered' = answered \/ answered' = [answered EXCEPT ![c] = @ \cup {k}]
        /\ \A d \in Conn : sock'[d] = "idle" => sock[d] = "idle"
    BY <1>3, <1>5 DEF AnswerNothing, AnswerQuery, AnswerReset, Called, Answer, sockets,
                      OrderInv, TypeOK
  <2>2. /\ queries[1] = r /\ Len(queries) \in Nat \ {0}
        /\ Len(queries') = Len(queries) - 1
        /\ \A i \in 1 .. Len(queries') : i + 1 \in 1 .. Len(queries) /\ queries'[i] = queries[i + 1]
    BY <2>1, QueueHead DEF OrderInv
  <2>3. \A d \in Conn : \A j \in answered'[d] : j \in answered[d] \/ (d = c /\ j = k)
    BY <2>1 DEF OrderInv, TypeOK
  <2>4. k <= taken[c]
    BY <1>3, <2>2 DEF OrderInv, Queue
  <2>5. Taken'
    BY <2>1, <2>3, <2>4, OrderTypes DEF OrderInv, Taken
  <2>6. \A i \in 2 .. Len(queries) : queries[i][1] = c => k < queries[i][2]
    BY <1>3, <2>2, OrderTypes DEF OrderInv, Queue
  <2> SUFFICES ASSUME NEW i \in 1 .. Len(queries')
               PROVE  /\ queries'[i][2] <= taken[queries'[i][1]]
                      /\ asked[queries'[i][1]][queries'[i][2]] \in Queries
                      /\ \A j \in answered'[queries'[i][1]] :
                           asked[queries'[i][1]][j] \in Queries => j < queries'[i][2]
                      /\ \A h \in 1 .. Len(queries') :
                           h < i /\ queries'[h][1] = queries'[i][1] =>
                             queries'[h][2] < queries'[i][2]
    BY <2>1, <2>5 DEF Queue
  <2>7. queries'[i] = queries[i + 1] /\ i + 1 \in 2 .. Len(queries)
    BY <2>2
  <2>8. \A h \in 1 .. Len(queries') : h < i =>
          queries'[h] = queries[h + 1] /\ h + 1 \in 1 .. Len(queries) /\ h + 1 < i + 1
    BY <2>2
  <2>9. \A j \in answered'[queries'[i][1]] :
          asked[queries'[i][1]][j] \in Queries => j < queries'[i][2]
    BY <2>2, <2>3, <2>6, <2>7, QueueAt
  <2>10. QED
    BY <2>2, <2>7, <2>8, <2>9, QueueAt
<1>6. QED
  BY <1>2, <1>4, <1>5 DEF r, Answers

LEMMA OrderStep ==
  ASSUME OrderInv, [Next]_vars
  PROVE  OrderInv'
<1> SUFFICES Taken' /\ Queue'
  BY TypeStep DEF OrderInv
<1>1. \A c \in Conn : taken[c] >= taken[c] /\ taken[c] <= Len(asked[c]) /\ taken[c] \in Nat
  BY OrderTypes DEF OrderInv, Taken
<1>2. CASE \E c \in Conn : Ask(c)
  BY <1>2, OrderAsk
<1>3. CASE \E c \in Conn : Connect(c) \/ HangUp(c)
  BY <1>3, OrderSame DEF Connect, HangUp, OrderInv, TypeOK
<1>4. CASE (\E c \in Conn : Reset(c)) \/ DatabaseFails
  BY <1>1, <1>4, OrderCrash DEF Reset, DatabaseFails
<1>5. CASE Restart \/ CommandEnds \/ UNCHANGED vars
  BY <1>5, OrderSame
     DEF Restart, CommandEnds, SwitchOn, SwitchOff, EndInVain, vars, sockets
<1>6. CASE \E c \in Conn : Receive(c)
  BY <1>6, OrderReceive
<1>7. CASE Callback
  BY <1>7, OrderCallback
<1>8. QED
  BY <1>2, <1>3, <1>4, <1>5, <1>6, <1>7 DEF Next, Server, Client
-----------------------------------------------------------------------------
(* The refinement of ReplyService.                                         *)

Over == {c \in Conn : sock[c] \notin {"idle", "open"}}

\* Steps that leave the requests and the replies alone end connections at most.
LEMMA EndStep ==
  ASSUME TypeOK, UNCHANGED <<asked, answered>>,
         \A c \in Conn : sock[c] \notin {"idle", "open"} => sock'[c] \notin {"idle", "open"}
  PROVE  RequestReply!Next
<1>1. Over \subseteq Over' /\ Over' \subseteq Conn
  BY DEF Over
<1>2. RequestReply!End
  BY <1>1 DEF RequestReply!End, Over
<1>3. QED
  BY <1>2 DEF RequestReply!Next

\* A reply, to the request at position k.
LEMMA ReplyStep ==
  ASSUME TypeOK, NEW c \in Conn, NEW k \in DOMAIN asked[c],
         sock[c] = "open", k \notin answered[c],
         asked[c][k] \in Queries =>
           \A j \in answered[c] : asked[c][j] \in Queries => j < k,
         answered' = [answered EXCEPT ![c] = @ \cup {k}],
         UNCHANGED asked,
         sock' = IF asked[c][k] = "RST" THEN [sock EXCEPT ![c] = "ended"] ELSE sock
  PROVE  RequestReply!Next
<1>1. c \notin Over
  BY DEF Over
<1>2. Over' = IF asked[c][k] \in {"RST"} THEN Over \cup {c} ELSE Over
  BY DEF Over, TypeOK
<1>3. RequestReply!Reply(c, k)
  BY <1>1, <1>2 DEF RequestReply!Reply, Over
<1>4. QED
  BY <1>3 DEF RequestReply!Next

LEMMA RepliesReceive ==
  ASSUME OrderInv, NEW c \in Conn, Receive(c)
  PROVE  RequestReply!Next
<1>1. TypeOK
  BY DEF OrderInv
<1>2. PICK n \in 1 .. Len(asked[c]) :
        TakeQuery(c, n) \/ TakeExit(c, n) \/ TakeVolume(c, n) \/ TakeUnknown(c, n)
  BY DEF Receive
<1>3. CASE TakeQuery(c, n) \/ TakeUnknown(c, n)
  BY <1>1, <1>3, EndStep DEF TakeQuery, TakeUnknown
<1>4. CASE TakeExit(c, n)
  BY <1>1, <1>4, EndStep DEF TakeExit, TypeOK
<1>5. CASE TakeVolume(c, n)
  <2>1. PICK k \in taken[c] + 1 .. n :
          /\ asked[c][k] = "VOL"
          /\ IF sock[c] = "open"
             THEN /\ answered' = [answered EXCEPT ![c] = @ \cup {k}]
                  /\ UNCHANGED <<sock, queries, process>>
             ELSE Crash /\ UNCHANGED <<answered, dbErrors>>
    BY <1>5 DEF TakeVolume
  <2>2. CASE sock[c] = "open"
    <3>1. k \in DOMAIN asked[c] /\ k \notin answered[c] /\ asked[c][k] \notin Queries
      BY <1>5, <2>1, OrderTypes, CommandAssumption
         DEF TakeVolume, Arrived, Queries, OrderInv, Taken
    <3>2. UNCHANGED asked /\ asked[c][k] # "RST"
      BY <1>5, <2>1 DEF TakeVolume
    <3>3. QED
      BY <1>1, <2>1, <2>2, <3>1, <3>2, ReplyStep
  <2>3. CASE sock[c] # "open"
    BY <1>1, <1>5, <2>1, <2>3, EndStep, CrashFacts DEF TakeVolume
  <2>4. QED
    BY <2>2, <2>3
<1>6. QED
  BY <1>2, <1>3, <1>4, <1>5

LEMMA RepliesCallback ==
  ASSUME OrderInv, Callback
  PROVE  RequestReply!Next
<1>0. TypeOK
  BY DEF OrderInv
<1>1. PICK c \in Conn : \E k \in DOMAIN asked[c] : Answers(<<c, k>>)
  BY DEF Callback, Answers
<1>2. PICK k \in DOMAIN asked[c] : Answers(<<c, k>>)
  BY <1>1
<1> DEFINE r == <<c, k>>
<1>3. r[1] = c /\ r[2] = k /\ Asked(r) = asked[c][k]
  BY DEF Asked
<1> HIDE DEF r
<1>4. CASE AnswerThrows(r)
  BY <1>0, <1>4, EndStep, CrashFacts DEF AnswerThrows
<1>5. CASE AnswerNothing(r)
  BY <1>0, <1>5, EndStep DEF AnswerNothing, sockets
<1>6. CASE AnswerQuery(r) \/ AnswerReset(r)
  <2>1. queries # << >> /\ r = Head(queries)
    BY <1>6 DEF AnswerQuery, AnswerReset, Called
  <2>2. r = queries[1] /\ 1 \in 1 .. Len(queries)
    BY <1>0, <2>1, QueueHead
  <2>3. asked[c][k] \in Queries /\ \A j \in answered[c] : asked[c][j] \in Queries => j < k
    BY <1>3, <2>2, QueueAt
  <2>4. k \notin answered[c]
    BY <2>3, OrderTypes
  <2>5. /\ sock[c] = "open" /\ UNCHANGED asked
        /\ answered' = [answered EXCEPT ![c] = @ \cup {k}]
        /\ sock' = IF asked[c][k] = "RST" THEN [sock EXCEPT ![c] = "ended"] ELSE sock
    BY <1>3, <1>6 DEF AnswerQuery, AnswerReset, CanWrite, Answer
  <2>6. QED
    BY <1>0, <2>3, <2>4, <2>5, ReplyStep
<1>7. QED
  BY <1>2, <1>4, <1>5, <1>6 DEF r, Answers

LEMMA RepliesStep ==
  ASSUME OrderInv, [Next]_vars
  PROVE  [RequestReply!Next]_(RequestReply!vars)
<1>0. TypeOK
  BY DEF OrderInv
<1>1. ASSUME NEW c \in Conn, Ask(c)
      PROVE  RequestReply!Next
  <2>1. RequestReply!Ask(c)
    BY <1>1 DEF Ask, RequestReply!Ask
  <2>2. QED
    BY <2>1 DEF RequestReply!Next
<1>2. CASE \E c \in Conn : Connect(c)
  BY <1>0, <1>2, EndStep DEF Connect, TypeOK
<1>3. CASE \E c \in Conn : HangUp(c)
  BY <1>0, <1>3, EndStep DEF HangUp, TypeOK
<1>4. CASE (\E c \in Conn : Reset(c)) \/ DatabaseFails
  BY <1>0, <1>4, EndStep, CrashFacts DEF Reset, DatabaseFails
<1>5. CASE Restart \/ CommandEnds
  BY <1>0, <1>5, EndStep
     DEF Restart, CommandEnds, SwitchOn, SwitchOff, EndInVain, sockets
<1>6. CASE \E c \in Conn : Receive(c)
  BY <1>6, RepliesReceive
<1>7. CASE Callback
  BY <1>7, RepliesCallback
<1>8. CASE UNCHANGED vars
  BY <1>8 DEF vars, RequestReply!vars
<1>9. QED
  BY <1>1, <1>2, <1>3, <1>4, <1>5, <1>6, <1>7, <1>8 DEF Next, Server, Client

\* ImplementsReplies: the server keeps what ReplyService promises a panel, the
\* commands of all panels in any order and with any crash in between.
THEOREM ServerImplementsReplies == Spec => ImplementsReplies
<1>1. Init => RequestReply!Init
  BY DEF Init, RequestReply!Init
<1>2. QED
  BY <1>1, OrderInit, OrderStep, RepliesStep, PTL DEF Spec, ImplementsReplies, RequestReply!Spec
-----------------------------------------------------------------------------
(* Clients that wait.                                                      *)

\* A request in the queue, or one that was not taken, has no reply yet.
LEMMA PendingFacts ==
  ASSUME OrderInv
  PROVE  /\ \A i \in 1 .. Len(queries) : queries[i][2] \in Pending(queries[i][1])
         /\ \A c \in Conn : \A n \in taken[c] + 1 .. Len(asked[c]) : n \in Pending(c)
<1>1. ASSUME NEW i \in 1 .. Len(queries)
      PROVE  queries[i][2] \in Pending(queries[i][1])
  <2> DEFINE c == queries[i][1]
             k == queries[i][2]
  <2>1. /\ c \in Conn /\ k \in Nat \ {0} /\ k <= taken[c]
        /\ asked[c][k] \in Queries
        /\ \A j \in answered[c] : asked[c][j] \in Queries => j < k
    BY QueueAt
  <2> HIDE DEF c, k
  <2>2. k \notin answered[c]
    BY <2>1
  <2>3. k \in DOMAIN asked[c]
    BY <2>1, OrderTypes DEF OrderInv, Taken
  <2>4. k \in Pending(c)
    BY <2>2, <2>3 DEF Pending
  <2>5. QED
    BY <2>4 DEF c, k
<1>2. ASSUME NEW c \in Conn, NEW n \in taken[c] + 1 .. Len(asked[c])
      PROVE  n \in Pending(c)
  BY OrderTypes DEF Pending, OrderInv, Taken
<1>3. QED
  BY <1>1, <1>2

\* After a crash nothing is in the queue and no socket is half open.
LEMMA WaitsCrash ==
  ASSUME OrderInv, Patient, Crash, UNCHANGED <<asked, answered>>, rude \subseteq rude'
  PROVE  Patient'
<1>1. Len(queries') = 0 /\ \A c \in Conn : sock'[c] # "ended"
  BY CrashFacts DEF OrderInv
<1>2. QED
  BY <1>1 DEF Patient, Waits, Pending

\* A step of connection d does not concern the others.
LEMMA WaitsOther ==
  ASSUME OrderInv, NEW c \in Conn, Waits(c),
         asked'[c] = asked[c], taken'[c] = taken[c], answered'[c] = answered[c],
         sock'[c] = sock[c],
         \A i \in 1 .. Len(queries') : queries'[i][1] = c =>
           \E h \in 1 .. Len(queries) : queries[h][1] = c
  PROVE  Waits(c)'
BY DEF Waits, Pending

LEMMA WaitsClient ==
  ASSUME OrderInv, Patient, NEW c \in Conn, Connect(c) \/ Ask(c) \/ HangUp(c)
  PROVE  Patient'
<1>1. UNCHANGED <<queries, taken, answered>> /\ rude \subseteq rude'
  BY DEF Connect, Ask, HangUp
<1>2. ASSUME NEW d \in Conn, d \notin rude', d # c
      PROVE  Waits(d)'
  BY <1>1, <1>2, WaitsOther DEF Patient, Connect, Ask, HangUp, OrderInv, TypeOK
<1>3. ASSUME c \notin rude'
      PROVE  Waits(c)'
  <2>1. Waits(c)
    BY <1>1, <1>3 DEF Patient
  <2>2. CASE Connect(c)
    BY <1>1, <2>1, <2>2 DEF Connect, Waits, Pending, OrderInv, TypeOK
  <2>3. CASE Ask(c)
    <3>1. Pending(c) = {} /\ sock[c] = "open" /\ sock' = sock
      BY <1>3, <2>3 DEF Ask
    <3>2. PICK cmd \in Command : asked' = [asked EXCEPT ![c] = Append(@, cmd)]
      BY <2>3 DEF Ask
    <3>3. DOMAIN asked'[c] = DOMAIN asked[c] \cup {Len(asked[c]) + 1}
      BY <3>2 DEF OrderInv, TypeOK
    <3>4. QED
      BY <1>1, <2>1, <3>1, <3>3 DEF Waits, Pending
  <2>4. CASE HangUp(c)
    <3>1. Pending(c) = {} /\ asked' = asked /\ sock'[c] = "closed"
      BY <1>3, <2>4 DEF HangUp, OrderInv, TypeOK
    <3>2. \A i \in 1 .. Len(queries) : queries[i][1] # c
      BY <3>1, PendingFacts
    <3>3. QED
      BY <1>1, <2>1, <3>1, <3>2 DEF Waits, Pending
  <2>5. QED
    BY <2>2, <2>3, <2>4
<1>4. QED
  BY <1>2, <1>3 DEF Patient

LEMMA WaitsReceive ==
  ASSUME OrderInv, Patient, NEW c \in Conn, Receive(c)
  PROVE  Patient' /\ (crashed' => crashed \/ Culprit)
<1>1. PICK n \in 1 .. Len(asked[c]) :
        TakeQuery(c, n) \/ TakeExit(c, n) \/ TakeVolume(c, n) \/ TakeUnknown(c, n)
  BY DEF Receive
<1>2. /\ n \in taken[c] + 1 .. Len(asked[c])
      /\ sock[c] \in {"open", "ended"}
      /\ taken' = [taken EXCEPT ![c] = n]
      /\ UNCHANGED <<asked, rude>>
  BY <1>1 DEF TakeQuery, TakeExit, TakeVolume, TakeUnknown, Arrived
<1>3. c \notin rude => sock[c] = "open" /\ Waits(c)
  BY <1>2, OrderTypes DEF Patient, Waits
<1>4. n \in Pending(c) /\ taken[c] \in Nat /\ Len(asked[c]) \in Nat
  BY <1>2, PendingFacts, OrderTypes
<1>5. CASE TakeQuery(c, n)
  <2>1. /\ queries' = Append(queries, <<c, n>>)
        /\ UNCHANGED <<sock, answered, crashed>>
    BY <1>5 DEF TakeQuery, process
  <2>2. <<c, n>> \in Request
    BY <1>2, <1>4 DEF Request
  <2>3. \A i \in 1 .. Len(queries') :
          \/ i \in 1 .. Len(queries) /\ queries'[i] = queries[i]
          \/ queries'[i] = <<c, n>>
    BY <2>1, <2>2, QueueAppend DEF OrderInv
  <2>4. ASSUME NEW d \in Conn, d \notin rude', d # c
        PROVE  Waits(d)'
    BY <1>2, <2>1, <2>3, <2>4, WaitsOther DEF Patient, OrderInv, TypeOK
  <2>5. c \notin rude' => Waits(c)'
    BY <1>2, <1>3, <2>1, <2>3 DEF Waits, Pending
  <2>6. QED
    BY <2>1, <2>4, <2>5 DEF Patient
<1>6. CASE TakeExit(c, n)
  <2>1. /\ sock' = [sock EXCEPT ![c] = "ended"]
        /\ UNCHANGED <<queries, answered, crashed>>
    BY <1>6 DEF TakeExit, process
  <2>2. ASSUME NEW d \in Conn, d \notin rude', d # c
        PROVE  Waits(d)'
    BY <1>2, <2>1, <2>2, WaitsOther DEF Patient, OrderInv, TypeOK
  <2>3. ASSUME c \notin rude'
        PROVE  Waits(c)'
    <3>1. Waits(c)
      BY <1>2, <1>3, <2>3
    <3>2. \A i \in 1 .. Len(queries) : queries[i][1] # c
      <4>1. SUFFICES ASSUME NEW i \in 1 .. Len(queries), queries[i][1] = c PROVE FALSE
        OBVIOUS
      <4>2. queries[i][2] \in Pending(c) /\ queries[i][2] <= taken[c] /\ queries[i][2] \in Nat
        BY <4>1, PendingFacts, QueueAt
      <4>3. QED
        BY <1>2, <1>4, <3>1, <4>2 DEF Waits
    <3>3. n = Len(asked[c])
      BY <1>2, <1>4, <3>1, PendingFacts DEF Waits
    <3>4. taken'[c] = n
      BY <1>2 DEF OrderInv, TypeOK
    <3>5. QED
      BY <1>2, <2>1, <3>1, <3>2, <3>3, <3>4 DEF Waits, Pending
  <2>4. QED
    BY <2>1, <2>2, <2>3 DEF Patient
<1>7. CASE TakeUnknown(c, n)
  <2>1. UNCHANGED <<sock, queries, answered, crashed>>
    BY <1>7 DEF TakeUnknown, process
  <2>2. ASSUME NEW d \in Conn, d \notin rude', d # c
        PROVE  Waits(d)'
    BY <1>2, <2>1, <2>2, WaitsOther DEF Patient, OrderInv, TypeOK
  <2>3. c \notin rude' => Waits(c)'
    BY <1>2, <1>3, <2>1 DEF Waits, Pending
  <2>4. QED
    BY <2>1, <2>2, <2>3 DEF Patient
<1>8. CASE TakeVolume(c, n)
  <2>1. PICK k \in taken[c] + 1 .. n :
          IF sock[c] = "open"
          THEN /\ answered' = [answered EXCEPT ![c] = @ \cup {k}]
               /\ UNCHANGED <<sock, queries, process>>
          ELSE Crash /\ UNCHANGED <<answered, dbErrors>>
    BY <1>8 DEF TakeVolume
  <2>2. CASE sock[c] = "open"
    <3>1. ASSUME NEW d \in Conn, d \notin rude', d # c
          PROVE  Waits(d)'
      BY <1>2, <2>1, <2>2, <3>1, WaitsOther DEF Patient, OrderInv, TypeOK
    <3>2. answered[c] \subseteq answered'[c]
      BY <2>1, <2>2 DEF OrderInv, TypeOK
    <3>3. c \notin rude' => Waits(c)'
      BY <1>2, <1>3, <2>1, <2>2, <3>2 DEF Waits, Pending
    <3>4. QED
      BY <2>1, <2>2, <3>1, <3>3 DEF Patient, process
  <2>3. CASE sock[c] # "open"
    <3>1. c \in rude
      BY <1>3, <2>3
    <3>2. QED
      BY <1>2, <2>1, <2>3, <3>1, WaitsCrash DEF Culprit
  <2>4. QED
    BY <2>2, <2>3
<1>9. QED
  BY <1>1, <1>5, <1>6, <1>7, <1>8

LEMMA WaitsCallback ==
  ASSUME OrderInv, Patient, Callback
  PROVE  Patient' /\ (crashed' => crashed \/ Culprit)
<1>1. PICK c \in Conn : \E k \in DOMAIN asked[c] : Answers(<<c, k>>)
  BY DEF Callback, Answers
<1>2. PICK k \in DOMAIN asked[c] : Answers(<<c, k>>)
  BY <1>1
<1> DEFINE r == <<c, k>>
<1>3. r[1] = c /\ r[2] = k /\ Asked(r) = asked[c][k]
  BY DEF Asked
<1> HIDE DEF r
<1>4. /\ queries # << >> /\ r = Head(queries)
      /\ UNCHANGED <<asked, taken, rude>>
  BY <1>2 DEF r, Answers, AnswerNothing, AnswerQuery, AnswerReset, AnswerThrows, Called, sockets
<1>5. queries[1] = r /\ Len(queries) \in Nat \ {0}
  BY <1>4, QueueHead DEF OrderInv
<1>6. k \in Pending(c) /\ k \in Nat /\ k <= taken[c]
  BY <1>3, <1>5, PendingFacts, QueueAt
<1>7. c \notin rude => Waits(c) /\ sock[c] = "open"
  BY <1>3, <1>5 DEF Patient, Waits
<1>8. CASE AnswerThrows(r)
  <2>1. Crash /\ UNCHANGED <<asked, answered, rude>> /\ ~CanWrite(r)
    BY <1>8 DEF AnswerThrows
  <2>2. c \in rude \/ asked[c][k] \in Numeric
    BY <1>3, <1>7, <2>1 DEF CanWrite
  <2>3. QED
    BY <2>1, <2>2, WaitsCrash DEF Culprit
<1>9. CASE AnswerNothing(r) \/ AnswerQuery(r) \/ AnswerReset(r)
  <2>1. /\ queries' = Tail(queries) /\ crashed' = crashed
        /\ \A d \in Conn : d # c => sock'[d] = sock[d] /\ answered'[d] = answered[d]
        /\ answered[c] \subseteq answered'[c]
    BY <1>3, <1>9 DEF AnswerNothing, AnswerQuery, AnswerReset, Answer, sockets, process,
                      OrderInv, TypeOK
  <2>2. \A i \in 1 .. Len(queries') : i + 1 \in 2 .. Len(queries) /\ queries'[i] = queries[i + 1]
    BY <1>4, <1>5, <2>1, QueueHead DEF OrderInv
  <2>3. \A d \in Conn : \A i \in 1 .. Len(queries') : queries'[i][1] = d =>
          \E h \in 1 .. Len(queries) : queries[h][1] = d
    BY <1>5, <2>2
  <2>4. ASSUME NEW d \in Conn, d \notin rude', d # c
        PROVE  Waits(d)'
    <3>1. Waits(d)
      BY <1>4, <2>4 DEF Patient
    <3>2. QED
      BY <1>4, <2>1, <2>3, <2>4, <3>1, WaitsOther
  <2>5. ASSUME c \notin rude'
        PROVE  Waits(c)'
    <3>1. Waits(c) /\ sock[c] = "open"
      BY <1>4, <1>7, <2>5
    <3>2. CASE sock'[c] = "open"
      BY <1>4, <2>1, <3>1, <3>2 DEF Waits, Pending
    <3>3. CASE sock'[c] # "open"
      <4>1. \A i \in 1 .. Len(queries') : queries'[i][1] # c
        <5>1. SUFFICES ASSUME NEW i \in 1 .. Len(queries'), queries'[i][1] = c PROVE FALSE
          OBVIOUS
        <5>2. i + 1 \in 2 .. Len(queries) /\ queries[i + 1][1] = c
          BY <2>2, <5>1
        <5>3. queries[i + 1][2] \in Pending(c) /\ queries[1][1] = c /\ queries[1][2] = k
          BY <1>3, <1>5, <5>2, PendingFacts
        <5>4. k < queries[i + 1][2] /\ queries[i + 1][2] \in Nat
          BY <1>5, <5>2, <5>3, QueueAt
        <5>5. QED
          BY <1>6, <3>1, <5>3, <5>4 DEF Waits
      <4>2. taken[c] = Len(asked[c])
        <5>1. taken[c] \in Nat /\ Len(asked[c]) \in Nat /\ taken[c] <= Len(asked[c])
          BY OrderTypes DEF OrderInv, Taken
        <5>2. taken[c] # Len(asked[c]) => Len(asked[c]) \in Pending(c)
          BY <5>1, PendingFacts
        <5>3. QED
          BY <1>6, <3>1, <5>1, <5>2 DEF Waits
      <4>3. QED
        BY <1>4, <2>1, <3>1, <4>1, <4>2 DEF Waits, Pending
    <3>4. QED
      BY <3>2, <3>3
  <2>6. QED
    BY <2>1, <2>4, <2>5 DEF Patient
<1>10. QED
  BY <1>2, <1>8, <1>9 DEF r, Answers

\* A culprit stays one.
LEMMA CulpritStep ==
  ASSUME TypeOK, Culprit, [Next]_vars
  PROVE  Culprit'
<1>1. rude \subseteq rude' /\ (dbErrors > 0 => dbErrors' > 0)
  <2>1. CASE \E c \in Conn : Connect(c) \/ Ask(c) \/ HangUp(c) \/ Reset(c)
    BY <2>1 DEF Connect, Ask, HangUp, Reset, process
  <2>2. CASE DatabaseFails
    BY <2>2 DEF DatabaseFails, TypeOK
  <2>3. CASE Restart \/ CommandEnds \/ UNCHANGED vars
    BY <2>3 DEF Restart, CommandEnds, SwitchOn, SwitchOff, EndInVain, vars, sockets, process
  <2>4. CASE \E c \in Conn : Receive(c)
    BY <2>4 DEF Receive, TakeQuery, TakeExit, TakeVolume, TakeUnknown, process
  <2>5. CASE Callback
    BY <2>5 DEF Callback, AnswerNothing, AnswerQuery, AnswerReset, AnswerThrows, sockets, process
  <2>6. QED
    BY <2>1, <2>2, <2>3, <2>4, <2>5 DEF Next, Client, Server
<1>2. ASSUME NEW c \in Conn, NEW k \in DOMAIN asked[c]
      PROVE  k \in DOMAIN asked'[c] /\ asked'[c][k] = asked[c][k]
  <2>1. CASE \E d \in Conn : Ask(d)
    <3>1. PICK d \in Conn : Ask(d)
      BY <2>1
    <3>2. PICK cmd \in Command : asked' = [asked EXCEPT ![d] = Append(@, cmd)]
      BY <3>1 DEF Ask
    <3>3. asked[d] \in Seq(Command)
      BY DEF TypeOK
    <3>4. QED
      BY <3>2, <3>3 DEF TypeOK
  <2>2. CASE ~\E d \in Conn : Ask(d)
    <3>1. asked' = asked
      BY <2>2
         DEF Next, Client, Server, Connect, HangUp, Reset, DatabaseFails, Restart, Receive,
             TakeQuery, TakeExit, TakeVolume, TakeUnknown, Callback, AnswerNothing, AnswerQuery,
             AnswerReset, AnswerThrows, CommandEnds, SwitchOn, SwitchOff, EndInVain, vars, sockets
    <3>2. QED
      BY <3>1
  <2>3. QED
    BY <2>1, <2>2
<1>3. QED
  BY <1>1, <1>2 DEF Culprit

LEMMA PatienceStep ==
  ASSUME PatienceInv, [Next]_vars
  PROVE  PatienceInv'
<1>0. OrderInv /\ Patient /\ TypeOK
  BY DEF PatienceInv, OrderInv
<1>1. Culprit => Culprit'
  BY <1>0, CulpritStep
<1> SUFFICES Patient' /\ (crashed' => crashed \/ Culprit \/ Culprit')
  BY <1>0, <1>1, OrderStep DEF PatienceInv
<1>2. CASE \E c \in Conn : Connect(c) \/ Ask(c) \/ HangUp(c)
  BY <1>0, <1>2, WaitsClient DEF Connect, Ask, HangUp, process
<1>3. CASE \E c \in Conn : Reset(c)
  BY <1>0, <1>3, WaitsCrash DEF Reset, Culprit
<1>4. CASE DatabaseFails
  <2>1. dbErrors' > 0
    BY <1>0, <1>4 DEF DatabaseFails, TypeOK
  <2>2. QED
    BY <1>0, <1>4, <2>1, WaitsCrash DEF DatabaseFails, Culprit
<1>5. CASE Restart \/ CommandEnds \/ UNCHANGED vars
  <2>1. UNCHANGED <<sock, asked, taken, answered, rude, queries, crashed>>
    BY <1>5
       DEF Restart, CommandEnds, SwitchOn, SwitchOff, EndInVain, vars, sockets, process
  <2>2. \A c \in Conn : Pending(c)' = Pending(c)
    BY <2>1 DEF Pending
  <2>3. \A c \in Conn : Waits(c) => Waits(c)'
    BY <2>1, <2>2 DEF Waits
  <2>4. QED
    BY <1>0, <2>1, <2>3 DEF Patient
<1>6. CASE \E c \in Conn : Receive(c)
  BY <1>0, <1>6, WaitsReceive
<1>7. CASE Callback
  BY <1>0, <1>7, WaitsCallback
<1>8. QED
  BY <1>2, <1>3, <1>4, <1>5, <1>6, <1>7 DEF Next, Server, Client

\* PatientClientsKeepItUp: the server only ends when a client did not wait, a
\* connection broke, the database failed or an integer column was asked for.
THEOREM PatientClientsDoNoHarm == Spec => []PatientClientsKeepItUp
<1>1. Init => PatienceInv
  <2> SUFFICES ASSUME Init PROVE PatienceInv
    OBVIOUS
  <2>1. Len(queries) = 0
    BY DEF Init
  <2>2. ASSUME NEW c \in Conn
        PROVE  sock[c] = "idle" /\ DOMAIN asked[c] = {}
    <3>1. sock[c] = "idle" /\ asked[c] = << >>
      BY DEF Init
    <3>2. DOMAIN << >> = {}
      OBVIOUS
    <3>3. QED
      BY <3>1, <3>2
  <2>3. Patient
    BY <2>1, <2>2 DEF Patient, Waits, Pending
  <2>4. QED
    BY <2>3, OrderInit DEF PatienceInv, Init
<1>2. PatienceInv => PatientClientsKeepItUp
  BY DEF PatienceInv, Culprit, PatientClientsKeepItUp
<1>3. QED
  BY <1>1, <1>2, PatienceStep, PTL DEF Spec
=============================================================================
