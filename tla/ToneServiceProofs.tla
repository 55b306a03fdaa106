-------------------------- MODULE ToneServiceProofs --------------------------
(***************************************************************************)
(* Theorems about the reader of the RF tones, by itself (RfAlert) and as a *)
(* child of the main program (ToneService).                                *)
(*                                                                         *)
(* The first part is about RfAlert: any number of messages, whichever of   *)
(* them are tones, both kinds of consumers, any number of broken           *)
(* connections and a reader that ends anywhere.  The second part shows     *)
(* that the composition implements both of its parts, so that what is      *)
(* proved of the processes and of the reader holds of the whole.           *)
(***************************************************************************)
EXTENDS ToneService, SupervisorProofs

\* No message is in s twice.
Single(s) == \A i, j \in 1 .. Len(s) : s[i] = s[j] => i = j

\* What the reader holds, and a connection, belong to its step.
HandInv ==
  /\ step \in {"save", "ack", "alert"} => cur \in Mapped
  /\ step \in {"down", "idle", "wait"} => cur = NoTone
  /\ step \in {"down", "idle", "alert"} => pushed = << >>
  /\ open => step \in {"wait", "save", "ack"}

\* A message is in one place at a time, except that the broker takes back what
\* it has no acknowledgement of when it closes the connection.
PlaceInv ==
  /\ Single(queue) /\ Single(pushed)
  /\ cur \notin Range(pushed)
  /\ Range(queue) \cup InHand \subseteq sent
  /\ open \/ mode = "auto" => Range(queue) \cap InHand = {}
  /\ mode = "manual" /\ ~open /\ step # "alert" => InHand \subseteq Range(queue)
  /\ step = "alert" /\ cur \notin unacked => cur \notin Range(queue)

\* Messages on one connection have met.
CompanyInv == \A t, u \in InHand : t # u => t \in company

\* An alerted tone does not come back unless its acknowledgement failed.
AlertInv == \A t \in Mapped :
  alerts[t] > 0 => t \in sent /\ (t \in unacked \/ t \notin Range(queue) \cup InHand)

RfInv ==
  RfTypeOK /\ HandInv /\ PlaceInv /\ CompanyInv /\ AlertInv /\ LostInCompany /\ AlertedOnce
-----------------------------------------------------------------------------
(***************************************************************************)
(* What the operations on sequences do to the places of messages.          *)
(***************************************************************************)
LEMMA RangeIndex ==
  ASSUME NEW S, NEW s \in Seq(S)
  PROVE  /\ \A x : x \in Range(s) <=> \E i \in 1 .. Len(s) : x = s[i]
         /\ \A x \in Range(s) : x \in S
BY DEF Range

LEMMA EmptyPlace == Range(<< >>) = {} /\ Single(<< >>)
<1>1. Len(<< >>) = 0 /\ DOMAIN << >> = {}
  OBVIOUS
<1> QED BY <1>1 DEF Range, Single

LEMMA AppendPlaces ==
  ASSUME NEW S, NEW s \in Seq(S), NEW x \in S
  PROVE  /\ Append(s, x) \in Seq(S)
         /\ Range(Append(s, x)) = Range(s) \cup {x}
         /\ Single(s) /\ x \notin Range(s) => Single(Append(s, x))
<1>1. /\ Append(s, x) \in Seq(S) /\ Len(Append(s, x)) = Len(s) + 1
      /\ \A i \in 1 .. Len(s) : Append(s, x)[i] = s[i]
      /\ Append(s, x)[Len(s) + 1] = x
  OBVIOUS
<1> DEFINE a == Append(s, x)
<1>r. \A y : y \in Range(s) <=> \E i \in 1 .. Len(s) : y = s[i]
  BY RangeIndex
<1>q. \A y : y \in Range(a) <=> \E i \in 1 .. Len(a) : y = a[i]
  BY <1>1, RangeIndex
<1>n. Len(s) \in Nat
  OBVIOUS
<1>2. Range(a) = Range(s) \cup {x}
  <2> HIDE DEF a
  <2>1. ASSUME NEW y \in Range(a) PROVE y \in Range(s) \cup {x}
    <3>1. PICK i \in 1 .. Len(a) : y = a[i]
      BY <1>q
    <3>2. i \in 1 .. Len(s) \/ i = Len(s) + 1
      BY <1>1, <1>n DEF a
    <3> QED BY <1>1, <1>r, <3>1, <3>2 DEF a
  <2>2. ASSUME NEW y \in Range(s) PROVE y \in Range(a)
    <3>1. PICK i \in 1 .. Len(s) : y = s[i]
      BY <1>r
    <3>2. i \in 1 .. Len(a) /\ a[i] = y
      BY <1>1, <1>n, <3>1 DEF a
    <3> QED BY <1>q, <3>2
  <2>3. x \in Range(a)
    <3>1. Len(s) + 1 \in 1 .. Len(a) /\ a[Len(s) + 1] = x
      BY <1>1, <1>n DEF a
    <3> QED BY <1>q, <3>1
  <2> QED BY <2>1, <2>2, <2>3
<1>3. ASSUME Single(s), x \notin Range(s) PROVE Single(a)
  BY <1>1, <1>3, <1>r, <1>n DEF Single
<1> QED BY <1>1, <1>2, <1>3

LEMMA TailPlaces ==
  ASSUME NEW S, NEW s \in Seq(S), s # << >>
  PROVE  /\ Head(s) \in S /\ Tail(s) \in Seq(S)
         /\ Range(s) = Range(Tail(s)) \cup {Head(s)}
         /\ Single(s) => Single(Tail(s)) /\ Head(s) \notin Range(Tail(s))
<1>1. /\ Head(s) = s[1] /\ Head(s) \in S /\ Len(s) \in Nat \ {0}
      /\ Tail(s) \in Seq(S) /\ Len(Tail(s)) = Len(s) - 1
      /\ \A i \in 1 .. Len(s) - 1 : Tail(s)[i] = s[i + 1]
  OBVIOUS
<1>r. \A y : y \in Range(s) <=> \E i \in 1 .. Len(s) : y = s[i]
  BY RangeIndex
<1>q. \A y : y \in Range(Tail(s)) <=> \E i \in 1 .. Len(Tail(s)) : y = Tail(s)[i]
  BY <1>1, RangeIndex
<1>2. Range(s) \subseteq Range(Tail(s)) \cup {Head(s)}
  <2> SUFFICES ASSUME NEW i \in 1 .. Len(s)
               PROVE  s[i] \in Range(Tail(s)) \cup {Head(s)}
    BY <1>r
  <2>1. CASE i = 1
    BY <1>1, <2>1
  <2>2. CASE i > 1
    <3>1. i - 1 \in 1 .. Len(Tail(s)) /\ Tail(s)[i - 1] = s[i]
      BY <1>1, <2>2
    <3> QED BY <1>q, <3>1
  <2> QED BY <1>1, <2>1, <2>2
<1>3. Range(Tail(s)) \cup {Head(s)} \subseteq Range(s)
  <2>1. Head(s) \in Range(s)
    <3>1. 1 \in 1 .. Len(s)
      BY <1>1
    <3> QED BY <1>1, <1>r, <3>1
  <2>2. ASSUME NEW y \in Range(Tail(s)) PROVE y \in Range(s)
    <3>1. PICK i \in 1 .. Len(Tail(s)) : y = Tail(s)[i]
      BY <1>q
    <3>2. i + 1 \in 1 .. Len(s) /\ s[i + 1] = y
      BY <1>1, <3>1
    <3> QED BY <1>r, <3>2
  <2> QED BY <2>1, <2>2
<1>4. ASSUME Single(s) PROVE Single(Tail(s)) /\ Head(s) \notin Range(Tail(s))
  <2>1. ASSUME NEW i \in 1 .. Len(Tail(s)), NEW j \in 1 .. Len(Tail(s)),
               Tail(s)[i] = Tail(s)[j]
        PROVE  i = j
    <3>1. i + 1 \in 1 .. Len(s) /\ j + 1 \in 1 .. Len(s) /\ s[i + 1] = s[j + 1]
      BY <1>1, <2>1
    <3>2. i + 1 = j + 1
      BY <1>4, <3>1 DEF Single
    <3> QED BY <1>1, <3>2
  <2>2. ASSUME NEW i \in 1 .. Len(Tail(s)) PROVE Tail(s)[i] # Head(s)
    <3>1. i + 1 \in 1 .. Len(s) /\ 1 \in 1 .. Len(s) /\ i + 1 # 1
      BY <1>1
    <3>2. s[i + 1] # s[1]
      BY <1>4, <3>1 DEF Single
    <3> QED BY <1>1, <3>2
  <2> QED BY <1>q, <2>1, <2>2 DEF Single
<1> QED BY <1>1, <1>2, <1>3, <1>4

LEMMA ConcatPlaces ==
  ASSUME NEW S, NEW s \in Seq(S), NEW t \in Seq(S)
  PROVE  /\ s \o t \in Seq(S)
         /\ Range(s \o t) = Range(s) \cup Range(t)
         /\ Single(s) /\ Single(t) /\ Range(s) \cap Range(t) = {} => Single(s \o t)
<1>1. /\ s \o t \in Seq(S) /\ Len(s \o t) = Len(s) + Len(t)
      /\ Len(s) \in Nat /\ Len(t) \in Nat
      /\ \A i \in 1 .. Len(s) : (s \o t)[i] = s[i]
      /\ \A i \in Len(s) + 1 .. Len(s) + Len(t) : (s \o t)[i] = t[i - Len(s)]
  OBVIOUS
<1>2. \A i \in 1 .. Len(t) : (s \o t)[Len(s) + i] = t[i]
  BY <1>1
<1>r. \A y : y \in Range(s) <=> \E i \in 1 .. Len(s) : y = s[i]
  BY RangeIndex
<1>p. \A y : y \in Range(t) <=> \E i \in 1 .. Len(t) : y = t[i]
  BY RangeIndex
<1>q. \A y : y \in Range(s \o t) <=> \E i \in 1 .. Len(s \o t) : y = (s \o t)[i]
  BY <1>1, RangeIndex
<1>3. Range(s \o t) \subseteq Range(s) \cup Range(t)
  <2> SUFFICES ASSUME NEW i \in 1 .. Len(s) + Len(t)
               PROVE  (s \o t)[i] \in Range(s) \cup Range(t)
    BY <1>1, <1>q
  <2>1. CASE i <= Len(s)
    <3>1. i \in 1 .. Len(s) /\ (s \o t)[i] = s[i]
      BY <1>1, <2>1
    <3> QED BY <1>r, <3>1
  <2>2. CASE i > Len(s)
    <3>1. i - Len(s) \in 1 .. Len(t) /\ (s \o t)[i] = t[i - Len(s)]
      BY <1>1, <2>2
    <3> QED BY <1>p, <3>1
  <2> QED BY <1>1, <2>1, <2>2
<1>4. Range(s) \cup Range(t) \subseteq Range(s \o t)
  <2>1. \A i \in 1 .. Len(s) : s[i] \in Range(s \o t)
    <3> SUFFICES ASSUME NEW i \in 1 .. Len(s) PROVE s[i] \in Range(s \o t)
      OBVIOUS
    <3>1. i \in 1 .. Len(s \o t) /\ (s \o t)[i] = s[i]
      BY <1>1
    <3> QED BY <1>q, <3>1
  <2>2. \A i \in 1 .. Len(t) : t[i] \in Range(s \o t)
    <3> SUFFICES ASSUME NEW i \in 1 .. Len(t) PROVE t[i] \in Range(s \o t)
      OBVIOUS
    <3>1. Len(s) + i \in 1 .. Len(s \o t) /\ (s \o t)[Len(s) + i] = t[i]
      BY <1>1, <1>2
    <3> QED BY <1>q, <3>1
  <2> QED BY <1>r, <1>p, <2>1, <2>2
<1>5. ASSUME Single(s), Single(t), Range(s) \cap Range(t) = {} PROVE Single(s \o t)
  <2> SUFFICES ASSUME NEW i \in 1 .. Len(s) + Len(t), NEW j \in 1 .. Len(s) + Len(t),
                      (s \o t)[i] = (s \o t)[j]
               PROVE  i = j
    BY <1>1 DEF Single
  <2>1. CASE i <= Len(s) /\ j <= Len(s)
    BY <1>1, <1>5, <2>1 DEF Single
  <2>2. CASE i > Len(s) /\ j > Len(s)
    <3>1. i - Len(s) \in 1 .. Len(t) /\ j - Len(s) \in 1 .. Len(t)
      BY <1>1, <2>2
    <3>2. t[i - Len(s)] = t[j - Len(s)]
      BY <1>1, <2>2
    <3>3. i - Len(s) = j - Len(s)
      BY <1>5, <3>1, <3>2 DEF Single
    <3> QED BY <1>1, <3>3
  <2>3. CASE i <= Len(s) /\ j > Len(s)
    <3>1. j - Len(s) \in 1 .. Len(t) /\ s[i] = t[j - Len(s)] /\ i \in 1 .. Len(s)
      BY <1>1, <2>3
    <3> QED BY <1>5, <1>r, <1>p, <3>1
  <2>4. CASE i > Len(s) /\ j <= Len(s)
    <3>1. i - Len(s) \in 1 .. Len(t) /\ s[j] = t[i - Len(s)] /\ j \in 1 .. Len(s)
      BY <1>1, <2>4
    <3> QED BY <1>5, <1>r, <1>p, <3>1
  <2> QED BY <1>1, <2>1, <2>2, <2>3, <2>4
<1> QED BY <1>1, <1>3, <1>4, <1>5

LEMMA PrefixPlaces ==
  ASSUME NEW S, NEW s \in Seq(S), NEW n \in 0 .. Len(s)
  PROVE  /\ SubSeq(s, 1, n) \in Seq(S)
         /\ Range(SubSeq(s, 1, n)) \subseteq Range(s)
         /\ Single(s) => Single(SubSeq(s, 1, n))
<1>1. /\ SubSeq(s, 1, n) \in Seq(S) /\ Len(SubSeq(s, 1, n)) = n
      /\ \A i \in 1 .. n : SubSeq(s, 1, n)[i] = s[i]
  OBVIOUS
<1>2. 1 .. n \subseteq 1 .. Len(s)
  OBVIOUS
<1>3. Range(SubSeq(s, 1, n)) \subseteq Range(s)
  <2>1. \A y : y \in Range(s) <=> \E i \in 1 .. Len(s) : y = s[i]
    BY RangeIndex
  <2>2. \A y : y \in Range(SubSeq(s, 1, n)) <=>
               \E i \in 1 .. Len(SubSeq(s, 1, n)) : y = SubSeq(s, 1, n)[i]
    BY <1>1, RangeIndex
  <2> QED BY <1>1, <1>2, <2>1, <2>2
<1>4. ASSUME Single(s) PROVE Single(SubSeq(s, 1, n))
  BY <1>1, <1>2, <1>4 DEF Single
<1> QED BY <1>1, <1>3, <1>4

\* What the reader holds, as a sequence and as a set.
LEMMA HeldPlaces ==
  ASSUME RfTypeOK, PlaceInv
  PROVE  /\ Held \in Seq(Tone) /\ Range(Held) = InHand /\ Single(Held)
         /\ InHand \subseteq Tone /\ Range(pushed) \subseteq Tone
<1>1. pushed \in Seq(Tone) /\ Single(pushed) /\ cur \notin Range(pushed)
  BY DEF RfTypeOK, PlaceInv
<1>2. Range(pushed) \subseteq Tone
  BY <1>1, RangeIndex
<1>3. CASE cur = NoTone
  <2>1. Held = pushed
    BY <1>1, <1>3 DEF Held
  <2> QED BY <1>1, <1>2, <1>3, <2>1 DEF InHand
<1>4. CASE cur # NoTone
  <2>1. cur \in Tone /\ <<cur>> \in Seq(Tone) /\ Held = <<cur>> \o pushed
    BY <1>4 DEF RfTypeOK, Held
  <2>2. Range(<<cur>>) = {cur} /\ Single(<<cur>>)
    <3>1. Len(<<cur>>) = 1 /\ <<cur>>[1] = cur
      OBVIOUS
    <3>2. \A x : x \in Range(<<cur>>) <=> \E i \in 1 .. Len(<<cur>>) : x = <<cur>>[i]
      BY <2>1, RangeIndex
    <3>3. \A i \in 1 .. Len(<<cur>>) : i = 1
      BY <3>1
    <3>4. 1 \in 1 .. Len(<<cur>>)
      BY <3>1
    <3>5. Single(<<cur>>)
      BY <3>3 DEF Single
    <3> QED BY <3>1, <3>2, <3>3, <3>4, <3>5
  <2>3. InHand = {cur} \cup Range(pushed)
    BY <1>4 DEF InHand
  <2>4. Range(<<cur>>) \cap Range(pushed) = {}
    BY <1>1, <2>2
  <2>5. /\ Held \in Seq(Tone) /\ Single(Held)
        /\ Range(Held) = Range(<<cur>>) \cup Range(pushed)
    <3> DEFINE c == <<cur>>
    <3>1. c \in Seq(Tone) /\ Single(c) /\ Range(c) \cap Range(pushed) = {} /\ Held = c \o pushed
      BY <2>1, <2>2, <2>4
    <3> HIDE DEF c
    <3>2. /\ c \o pushed \in Seq(Tone) /\ Single(c \o pushed)
          /\ Range(c \o pushed) = Range(c) \cup Range(pushed)
      BY <1>1, <3>1, ConcatPlaces
    <3> QED BY <3>1, <3>2 DEF c
  <2> QED BY <1>2, <2>1, <2>2, <2>3, <2>5
<1> QED BY <1>3, <1>4

LEMMA RequeuePlaces ==
  ASSUME RfTypeOK, PlaceInv, NEW m \in Seq(Tone), Single(m), Range(m) \subseteq InHand,
         Requeue(m)
  PROVE  /\ queue' \in Seq(Tone) /\ Single(queue') /\ open' = FALSE
         /\ Range(queue') = Range(queue) \cup
              (IF open /\ mode = "manual" THEN Range(m) ELSE {})
<1>1. queue \in Seq(Tone) /\ Single(queue)
  BY DEF RfTypeOK, PlaceInv
<1>2. CASE open /\ mode = "manual"
  <2>1. queue' = m \o queue /\ Range(m) \cap Range(queue) = {}
    BY <1>2 DEF Requeue, PlaceInv
  <2> QED BY <1>1, <1>2, <2>1, ConcatPlaces DEF Requeue
<1>3. CASE ~(open /\ mode = "manual")
  BY <1>1, <1>3 DEF Requeue
<1> QED BY <1>2, <1>3
-----------------------------------------------------------------------------
(***************************************************************************)
(* A step that alerts and records nothing keeps the three invariants about *)
(* tones if it only moves messages, and accounts for those it drops.       *)
(***************************************************************************)
Moves ==
  /\ UNCHANGED <<mode, recorded, alerts>>
  /\ sent \subseteq sent' /\ unacked \subseteq unacked'
  /\ company \subseteq company' /\ fallen \subseteq fallen'
  /\ sent' \ sent \subseteq Range(queue')
  /\ (Range(queue') \cup InHand') \ (Range(queue) \cup InHand) \subseteq sent' \ sent
  /\ \A t \in Mapped : t \in Range(queue) \cup InHand =>
       \/ t \in Range(queue') \cup InHand' \/ t \in fallen'
       \/ (mode = "auto" /\ t \in company)'
  /\ \A t \in recorded : t = cur => t = cur' \/ t \in fallen'

LEMMA MovesKeep ==
  ASSUME RfTypeOK, AlertInv, LostInCompany, AlertedOnce, Moves
  PROVE  AlertInv' /\ LostInCompany' /\ AlertedOnce'
<1>1. AlertInv'
  BY DEF Moves, AlertInv
<1>2. LostInCompany'
  <2>1. ASSUME NEW t \in Mapped, Lost(t)' PROVE (t \in fallen \/ (mode = "auto" /\ t \in company))'
    <3>1. /\ t \in sent' /\ t \notin Range(queue') /\ t \notin InHand'
          /\ alerts[t] = 0
      BY <2>1 DEF Lost, Moves
    <3>2. t \in sent
      BY <3>1 DEF Moves
    <3>3. CASE t \in Range(queue) \cup InHand
      BY <3>1, <3>3 DEF Moves
    <3>4. CASE t \notin Range(queue) \cup InHand
      BY <3>1, <3>2, <3>4 DEF Lost, LostInCompany, Moves
    <3> QED BY <3>3, <3>4
  <2>2. ASSUME NEW t \in recorded' PROVE (alerts[t] > 0 \/ t \in fallen \/ t = cur)'
    BY DEF Moves, LostInCompany
  <2> QED BY <2>1, <2>2 DEF LostInCompany
<1>3. AlertedOnce'
  BY DEF Moves, AlertedOnce
<1> QED BY <1>1, <1>2, <1>3

\* The rest of the invariant.
Base == RfTypeOK /\ HandInv /\ PlaceInv /\ CompanyInv

LEMMA FromBase ==
  ASSUME RfInv, Base', Moves
  PROVE  RfInv'
BY MovesKeep DEF RfInv, Base
-----------------------------------------------------------------------------
LEMMA PublishStep ==
  ASSUME RfInv, NEW t \in Tone, Publish(t)
  PROVE  RfInv'
<1>1. queue \in Seq(Tone) /\ Single(queue) /\ t \notin Range(queue) /\ t \notin InHand
  BY DEF RfInv, RfTypeOK, PlaceInv, Publish
<1>2. queue' \in Seq(Tone) /\ Single(queue') /\ Range(queue') = Range(queue) \cup {t}
  BY <1>1, AppendPlaces DEF Publish
<1>3. InHand' = InHand
  BY DEF Publish, InHand
<1>4. RfTypeOK' /\ HandInv'
  BY <1>2 DEF RfInv, RfTypeOK, HandInv, Publish
<1>5. PlaceInv'
  <2>1. step = "alert" /\ cur \notin unacked => cur # t
    BY <1>1, ToneAssumption DEF InHand, RfInv, HandInv
  <2> QED BY <1>1, <1>2, <1>3, <2>1 DEF RfInv, PlaceInv, Publish
<1>6. CompanyInv'
  BY <1>3 DEF RfInv, CompanyInv, Publish
<1>7. Moves
  BY <1>2, <1>3 DEF Moves, Publish
<1> QED BY <1>4, <1>5, <1>6, <1>7, FromBase DEF Base

LEMMA PushStep ==
  ASSUME RfInv, Push
  PROVE  RfInv'
<1> DEFINE h == Head(queue)
<1>1. queue \in Seq(Tone) /\ pushed \in Seq(Tone) /\ Single(queue) /\ Single(pushed) /\ queue # << >>
  BY DEF RfInv, RfTypeOK, PlaceInv, Push
<1>2. /\ h \in Tone /\ queue' \in Seq(Tone) /\ Single(queue')
      /\ Range(queue) = Range(queue') \cup {h} /\ h \notin Range(queue')
  BY <1>1, TailPlaces DEF Push
<1>3. open /\ Range(queue) \cap InHand = {} /\ Range(pushed) \subseteq InHand
  BY DEF RfInv, PlaceInv, Push, InHand
<1>4. h \notin InHand /\ h \notin Range(pushed)
  BY <1>2, <1>3
<1>5. pushed' \in Seq(Tone) /\ Single(pushed') /\ Range(pushed') = Range(pushed) \cup {h}
  BY <1>1, <1>2, <1>4, AppendPlaces DEF Push
<1>6. InHand' = InHand \cup {h} /\ cur' = cur
  BY <1>5 DEF Push, InHand
<1>7. cur # h /\ step \in {"wait", "save", "ack"}
  BY <1>2, <1>3, <1>4, ToneAssumption DEF InHand, RfInv, HandInv
<1>8. RfTypeOK'
  <2>1. company' \subseteq Tone
    BY <1>2, HeldPlaces DEF RfInv, Push, RfTypeOK
  <2> QED BY <1>2, <1>5, <2>1 DEF RfInv, Push, RfTypeOK
<1>9. HandInv'
  BY <1>7 DEF RfInv, HandInv, Push
<1>10. PlaceInv'
  <2>1. Range(queue') \cup InHand' \subseteq sent
    BY <1>2, <1>6 DEF RfInv, PlaceInv
  <2>2. Range(queue') \cap InHand' = {}
    BY <1>2, <1>3, <1>6
  <2>3. cur' \notin Range(pushed')
    BY <1>5, <1>6, <1>7 DEF RfInv, PlaceInv
  <2> QED BY <1>2, <1>3, <1>5, <1>7, <2>1, <2>2, <2>3 DEF PlaceInv, Push
<1>11. CompanyInv'
  BY <1>6 DEF RfInv, CompanyInv, Push
<1>12. Moves
  BY <1>2, <1>6 DEF Moves, Push
<1> QED BY <1>8, <1>9, <1>10, <1>11, <1>12, FromBase DEF Base

LEMMA BrokerClosesStep ==
  ASSUME RfInv, BrokerCloses
  PROVE  RfInv'
<1> USE DEF RfInv
<1>1. PICK n \in 0 .. Len(pushed) : pushed' = SubSeq(pushed, 1, n)
  BY DEF BrokerCloses
<1>2. pushed \in Seq(Tone) /\ Single(pushed) /\ open /\ Range(queue) \cap InHand = {}
  BY DEF RfTypeOK, PlaceInv, BrokerCloses
<1>3. pushed' \in Seq(Tone) /\ Single(pushed') /\ Range(pushed') \subseteq Range(pushed)
  BY <1>1, <1>2, PrefixPlaces
<1>4. /\ queue' \in Seq(Tone) /\ Single(queue') /\ open' = FALSE
      /\ Range(queue') = Range(queue) \cup (IF mode = "manual" THEN InHand ELSE {})
  BY <1>2, HeldPlaces, RequeuePlaces DEF BrokerCloses
<1>5. /\ cur' = cur /\ InHand' \subseteq InHand
      /\ InHand \ InHand' \subseteq Range(pushed) \ Range(pushed')
  BY <1>3 DEF InHand, BrokerCloses
<1>6. step \in {"wait", "save", "ack"}
  BY <1>2 DEF HandInv
<1>7. RfTypeOK'
  <2>1. fallen' \subseteq Tone /\ breaks' \in Nat
    BY HeldPlaces DEF RfTypeOK, BrokerCloses
  <2>2. UNCHANGED <<mode, cur, step, sent, recorded, alerts, company, unacked>>
    BY DEF BrokerCloses
  <2>3. open' \in BOOLEAN
    BY <1>4
  <2> QED BY <1>3, <1>4, <2>1, <2>2, <2>3 DEF RfTypeOK
<1>8. HandInv'
  BY <1>4, <1>6 DEF HandInv, BrokerCloses
<1>9. PlaceInv'
  <2>1. Range(queue') \cup InHand' \subseteq sent
    BY <1>4, <1>5 DEF PlaceInv
  <2>2. mode = "auto" => Range(queue') \cap InHand' = {}
    BY <1>2, <1>4, <1>5
  <2>3. mode = "manual" => InHand' \subseteq Range(queue')
    BY <1>4, <1>5
  <2>4. cur' \notin Range(pushed')
    BY <1>3, <1>5 DEF PlaceInv
  <2> QED BY <1>3, <1>4, <1>6, <2>1, <2>2, <2>3, <2>4 DEF PlaceInv, BrokerCloses
<1>10. CompanyInv'
  BY <1>5 DEF CompanyInv, BrokerCloses
<1>11. Moves
  <2>1. Range(queue) \cup InHand \subseteq Range(queue') \cup InHand' \cup fallen'
    BY <1>4, <1>5 DEF BrokerCloses
  <2>2. Range(queue') \cup InHand' \subseteq Range(queue) \cup InHand
    BY <1>4, <1>5
  <2> QED BY <2>1, <2>2, <1>5 DEF Moves, BrokerCloses
<1> QED BY <1>7, <1>8, <1>9, <1>10, <1>11, FromBase DEF Base
-----------------------------------------------------------------------------
LEMMA BeginStep ==
  ASSUME RfInv, Begin \/ Connect
  PROVE  RfInv'
<1> USE DEF RfInv
<1>1. InHand' = InHand /\ UNCHANGED <<queue, pushed, cur>>
  BY DEF Begin, Connect, InHand
<1>2. step \in {"down", "idle"} /\ InHand = {}
  BY EmptyPlace DEF Begin, Connect, HandInv, InHand
<1>3. RfTypeOK' /\ HandInv'
  <2>1. RfTypeOK'
    BY DEF Begin, Connect, RfTypeOK
  <2>2. HandInv'
    BY DEF Begin, Connect, HandInv
  <2> QED BY <2>1, <2>2
<1>4. PlaceInv'
  BY <1>1, <1>2 DEF Begin, Connect, PlaceInv
<1>5. CompanyInv'
  BY <1>1 DEF Begin, Connect, CompanyInv
<1>6. Moves
  BY <1>1 DEF Begin, Connect, Moves
<1> QED BY <1>3, <1>4, <1>5, <1>6, FromBase DEF Base

LEMMA ReceiveStep ==
  ASSUME RfInv, Receive
  PROVE  RfInv'
<1> USE DEF RfInv
<1>1. pushed \in Seq(Tone) /\ Single(pushed) /\ pushed # << >> /\ cur = NoTone
  BY DEF RfTypeOK, PlaceInv, HandInv, Receive
<1>2. /\ cur' \in Tone /\ pushed' \in Seq(Tone) /\ Single(pushed')
      /\ Range(pushed) = Range(pushed') \cup {cur'} /\ cur' \notin Range(pushed')
  BY <1>1, TailPlaces DEF Receive
<1>3. cur' # NoTone /\ cur' \in Mapped
  BY <1>2, ToneAssumption DEF Receive
<1>4. InHand' = InHand
  BY <1>1, <1>2, <1>3 DEF InHand
<1>5. RfTypeOK' /\ HandInv'
  BY <1>2, <1>3 DEF Receive, RfTypeOK, HandInv
<1>6. PlaceInv'
  BY <1>2, <1>4 DEF Receive, PlaceInv
<1>7. CompanyInv'
  BY <1>4 DEF Receive, CompanyInv
<1>8. Moves
  <2>1. \A t \in recorded : t # cur
    BY <1>1, ToneAssumption DEF RfTypeOK
  <2> QED BY <1>4, <2>1 DEF Receive, Moves
<1> QED BY <1>5, <1>6, <1>7, <1>8, FromBase DEF Base

LEMMA ReceiveUnmappedStep ==
  ASSUME RfInv, ReceiveUnmapped
  PROVE  RfInv'
<1> USE DEF RfInv
<1>1. /\ pushed \in Seq(Tone) /\ pushed # << >> /\ cur = NoTone /\ Head(pushed) \notin Mapped
      /\ step = "wait"
  BY DEF RfTypeOK, HandInv, ReceiveUnmapped
<1>2. InHand = Range(pushed) /\ Head(pushed) \in InHand
  BY <1>1, TailPlaces DEF InHand
<1>3. /\ queue' \in Seq(Tone) /\ Single(queue') /\ open' = FALSE
      /\ Range(queue') = Range(queue) \cup (IF open /\ mode = "manual" THEN InHand ELSE {})
  BY HeldPlaces, RequeuePlaces DEF ReceiveUnmapped
<1>4. pushed' = << >> /\ cur' = NoTone /\ InHand' = {} /\ Single(pushed') /\ Range(pushed') = {}
  BY <1>1, EmptyPlace DEF ReceiveUnmapped, InHand
<1>5. RfTypeOK' /\ HandInv'
  <2>1. pushed' \in Seq(Tone)
    BY <1>4
  <2>2. RfTypeOK'
    BY <1>3, <1>4, <2>1 DEF ReceiveUnmapped, RfTypeOK
  <2> QED BY <1>3, <1>4, <2>2 DEF ReceiveUnmapped, HandInv
<1>6. PlaceInv'
  <2>1. Range(queue') \subseteq sent
    BY <1>3 DEF PlaceInv
  <2> QED BY <1>3, <1>4, <2>1 DEF ReceiveUnmapped, PlaceInv
<1>7. CompanyInv'
  BY <1>4 DEF CompanyInv
<1>8. Moves
  <2>1. \A t \in Mapped : t \in InHand => t \in Range(queue') \/ (mode = "auto" /\ t \in company)
    <3> SUFFICES ASSUME NEW t \in Mapped, t \in InHand
                 PROVE  t \in Range(queue') \/ (mode = "auto" /\ t \in company)
      OBVIOUS
    <3>1. t \in company
      BY <1>1, <1>2 DEF CompanyInv
    <3>2. mode = "manual" => t \in Range(queue')
      BY <1>1, <1>3 DEF PlaceInv
    <3>3. mode \in {"auto", "manual"}
      BY ModeAssumption DEF RfTypeOK
    <3> QED BY <3>1, <3>2, <3>3
  <2>2. \A t \in recorded : t # cur
    BY <1>1, ToneAssumption DEF RfTypeOK
  <2> QED BY <1>3, <1>4, <2>1, <2>2 DEF ReceiveUnmapped, Moves
<1> QED BY <1>5, <1>6, <1>7, <1>8, FromBase DEF Base

LEMMA SaveStep ==
  ASSUME RfInv, Save
  PROVE  RfInv'
<1> USE DEF RfInv
<1>1. InHand' = InHand /\ UNCHANGED <<queue, pushed, cur>> /\ cur \in Mapped
  BY DEF Save, InHand, HandInv
<1>2. RfTypeOK' /\ HandInv'
  BY <1>1 DEF Save, RfTypeOK, HandInv
<1>3. PlaceInv' /\ CompanyInv' /\ AlertInv' /\ AlertedOnce'
  BY <1>1 DEF Save, PlaceInv, CompanyInv, AlertInv, AlertedOnce
<1>4. LostInCompany'
  BY <1>1 DEF Save, LostInCompany, Lost
<1> QED BY <1>2, <1>3, <1>4

LEMMA AcknowledgeStep ==
  ASSUME RfInv, Acknowledge
  PROVE  RfInv'
<1> USE DEF RfInv
<1>1. /\ pushed \in Seq(Tone) /\ Single(pushed) /\ cur \in Mapped /\ cur \notin Range(pushed)
      /\ step = "ack"
  BY DEF RfTypeOK, PlaceInv, HandInv, Acknowledge
<1>2. cur # NoTone /\ InHand = Range(pushed) \cup {cur}
  BY <1>1, ToneAssumption DEF InHand
<1>3. /\ queue' \in Seq(Tone) /\ Single(queue') /\ open' = FALSE
      /\ Range(queue') = Range(queue) \cup (IF open /\ mode = "manual" THEN Range(pushed) ELSE {})
  BY <1>1, <1>2, RequeuePlaces DEF Acknowledge
<1>4. pushed' = << >> /\ cur' = cur /\ InHand' = {cur} /\ Single(pushed') /\ Range(pushed') = {}
  BY <1>2, EmptyPlace DEF Acknowledge, InHand
<1>5. RfTypeOK' /\ HandInv'
  <2>1. unacked' \subseteq Tone
    BY <1>1, ToneAssumption DEF Acknowledge, RfTypeOK
  <2>2. pushed' \in Seq(Tone)
    BY <1>4
  <2>3. RfTypeOK'
    BY <1>1, <1>3, <1>4, <2>1, <2>2 DEF Acknowledge, RfTypeOK
  <2> QED BY <1>1, <1>3, <1>4, <2>3 DEF Acknowledge, HandInv
<1>6. PlaceInv'
  <2>1. Range(queue') \cup InHand' \subseteq sent
    BY <1>2, <1>3, <1>4 DEF PlaceInv
  <2>2. open => cur \notin Range(queue')
    BY <1>1, <1>2, <1>3 DEF PlaceInv
  <2>3. mode = "auto" => cur \notin Range(queue')
    BY <1>2, <1>3 DEF PlaceInv
  <2>4. ~open => cur' \in unacked'
    BY <1>4 DEF Acknowledge
  <2> QED BY <1>3, <1>4, <2>1, <2>2, <2>3, <2>4 DEF Acknowledge, PlaceInv
<1>7. CompanyInv'
  BY <1>4 DEF CompanyInv
<1>8. Moves
  <2>1. \A t \in InHand \ {cur} : t \in company /\ (mode = "manual" => t \in Range(queue'))
    BY <1>1, <1>2, <1>3 DEF CompanyInv, PlaceInv
  <2>2. mode \in {"auto", "manual"}
    BY ModeAssumption DEF RfTypeOK
  <2>3. unacked \subseteq unacked'
    BY DEF Acknowledge
  <2> QED BY <1>2, <1>3, <1>4, <2>1, <2>2, <2>3 DEF Acknowledge, Moves
<1> QED BY <1>5, <1>6, <1>7, <1>8, FromBase DEF Base

LEMMA AlertStep ==
  ASSUME RfInv, Alert
  PROVE  RfInv'
<1> USE DEF RfInv
<1>1. cur \in Mapped /\ cur # NoTone /\ pushed = << >> /\ step = "alert" /\ ~open
  BY ToneAssumption DEF HandInv, Alert
<1>2. InHand = {cur} /\ InHand' = {} /\ cur' = NoTone /\ UNCHANGED <<queue, pushed>>
  BY <1>1, EmptyPlace DEF Alert, InHand
<1>3. /\ alerts' \in [Mapped -> Nat] /\ alerts'[cur] = alerts[cur] + 1
      /\ \A t \in Mapped : alerts[t] \in Nat /\ (t # cur => alerts'[t] = alerts[t])
  BY <1>1 DEF Alert, RfTypeOK
<1>4. RfTypeOK' /\ HandInv'
  BY <1>1, <1>3 DEF Alert, RfTypeOK, HandInv
<1>5. PlaceInv'
  BY <1>1, <1>2, EmptyPlace, ToneAssumption DEF Alert, PlaceInv
<1>6. CompanyInv'
  BY <1>2 DEF CompanyInv
<1>7. AlertInv'
  BY <1>1, <1>2, <1>3 DEF Alert, AlertInv, PlaceInv
<1>8. LostInCompany'
  <2>1. ASSUME NEW t \in Mapped, Lost(t)' PROVE Lost(t)
    <3>1. t \in sent /\ t \notin Range(queue) /\ alerts'[t] = 0
      BY <1>2, <2>1 DEF Lost, Alert
    <3>2. t # cur
      BY <1>3, <3>1
    <3> QED BY <1>2, <1>3, <3>1, <3>2 DEF Lost
  <2>2. ASSUME NEW t \in recorded PROVE alerts'[t] > 0 \/ t \in fallen
    <3>1. t \in Mapped
      BY DEF RfTypeOK
    <3> QED BY <1>3, <3>1 DEF LostInCompany
  <2>3. UNCHANGED <<mode, company, fallen, recorded>>
    BY DEF Alert
  <2> QED BY <2>1, <2>2, <2>3 DEF LostInCompany
<1>9. AlertedOnce'
  <2>1. alerts'[cur] > 1 => cur \in unacked
    BY <1>1, <1>2, <1>3 DEF AlertInv
  <2> QED BY <1>3, <2>1 DEF AlertedOnce, Alert
<1> QED BY <1>4, <1>5, <1>6, <1>7, <1>8, <1>9

LEMMA FallStep ==
  ASSUME RfInv, Fall
  PROVE  RfInv'
<1> USE DEF RfInv
<1>1. /\ queue' \in Seq(Tone) /\ Single(queue') /\ open' = FALSE
      /\ Range(queue') = Range(queue) \cup (IF open /\ mode = "manual" THEN InHand ELSE {})
  BY HeldPlaces, RequeuePlaces DEF Fall
<1>2. pushed' = << >> /\ cur' = NoTone /\ InHand' = {} /\ Single(pushed') /\ Range(pushed') = {}
  BY EmptyPlace DEF Fall, InHand
<1>3. RfTypeOK' /\ HandInv'
  <2>1. fallen' \subseteq Tone
    BY HeldPlaces DEF Fall, RfTypeOK
  <2>2. pushed' \in Seq(Tone)
    BY <1>2
  <2>3. RfTypeOK'
    BY <1>1, <1>2, <2>1, <2>2 DEF Fall, RfTypeOK
  <2> QED BY <1>1, <1>2, <2>3 DEF Fall, HandInv
<1>4. PlaceInv'
  <2>1. Range(queue') \subseteq sent
    BY <1>1 DEF PlaceInv
  <2> QED BY <1>1, <1>2, <2>1 DEF Fall, PlaceInv
<1>5. CompanyInv'
  BY <1>2 DEF CompanyInv
<1>6. Moves
  <2>1. \A t \in recorded : t = cur => t \in InHand
    BY ToneAssumption DEF InHand, RfTypeOK
  <2> QED BY <1>1, <1>2, <2>1 DEF Fall, Moves
<1> QED BY <1>3, <1>4, <1>5, <1>6, FromBase DEF Base
-----------------------------------------------------------------------------
LEMMA RfInitInv == RfInit => RfInv
<1> SUFFICES ASSUME RfInit PROVE RfInv
  OBVIOUS
<1>1. << >> \in Seq(Tone)
  OBVIOUS
<1>2. InHand = {} /\ Range(queue) = {} /\ Single(queue) /\ Single(pushed) /\ Range(pushed) = {}
  BY EmptyPlace DEF RfInit, InHand
<1>3. RfTypeOK /\ HandInv
  BY <1>1 DEF RfInit, RfTypeOK, HandInv
<1>4. PlaceInv /\ CompanyInv
  BY <1>2 DEF RfInit, PlaceInv, CompanyInv
<1>5. AlertInv /\ LostInCompany /\ AlertedOnce
  BY DEF RfInit, AlertInv, LostInCompany, Lost, AlertedOnce
<1> QED BY <1>3, <1>4, <1>5 DEF RfInv

LEMMA RfStepInv == RfInv /\ [RfNext]_rfVars => RfInv'
<1> SUFFICES ASSUME RfInv, [RfNext]_rfVars PROVE RfInv'
  OBVIOUS
<1>1. CASE UNCHANGED rfVars
  BY <1>1 DEF rfVars, RfInv, RfTypeOK, HandInv, PlaceInv, CompanyInv, AlertInv,
              LostInCompany, AlertedOnce, Lost, InHand
<1>2. CASE RfNext
  BY <1>2, PublishStep, PushStep, BrokerClosesStep, BeginStep, ReceiveStep,
     ReceiveUnmappedStep, SaveStep, AcknowledgeStep, AlertStep, FallStep
     DEF RfNext, Environment, Reader
<1> QED BY <1>1, <1>2

LEMMA RfInductive == RfSpec => []RfInv
BY RfInitInv, RfStepInv, PTL DEF RfSpec
-----------------------------------------------------------------------------
\* Every variable keeps its type; only mapped tones are recorded or alerted.
THEOREM RfTypeCorrect == RfSpec => []RfTypeOK
BY RfInductive, PTL DEF RfInv

\* A tone that is not alerted is on its way, or was lost in the hands of a reader
\* that ended or, with acknowledgements by the broker, next to another message.
THEOREM TonesAreLostInCompany == RfSpec => []LostInCompany
BY RfInductive, PTL DEF RfInv

\* Only a failed acknowledgement makes the broker repeat an alerted tone.
THEOREM TonesAreAlertedOnce == RfSpec => []AlertedOnce
BY RfInductive, PTL DEF RfInv
-----------------------------------------------------------------------------
LEMMA ToneProcessStep == [ToneNext]_all => [Next]_vars
<1> SUFFICES ASSUME [ToneNext]_all PROVE [Next]_vars
  OBVIOUS
<1>1. CASE (Main \/ ForkFails \/ Interrupt) /\ UNCHANGED rfVars
  BY <1>1 DEF Next, Signal
<1>2. CASE Terminated
  BY <1>2 DEF Terminated, Next, Signal
<1>3. ASSUME NEW s \in Slot,
             \/ Begins(s) \/ Connects(s) \/ Leaves(s) \/ Dies(s) \/ Throws(s)
             \/ (InterruptChild(s) \/ BindFails(s)) /\ UNCHANGED rfVars
      PROVE  Next \/ UNCHANGED vars
  BY <1>3 DEF Begins, Connects, Leaves, Dies, Throws, Next, Signal, Child
<1>4. CASE (Environment \/ Reader) /\ UNCHANGED vars
  BY <1>4
<1>5. CASE UNCHANGED all
  BY <1>5 DEF all
<1> QED BY <1>1, <1>2, <1>3, <1>4, <1>5 DEF ToneNext

LEMMA ToneReaderStep == [ToneNext]_all => [RfNext]_rfVars
<1> SUFFICES ASSUME [ToneNext]_all PROVE [RfNext]_rfVars
  OBVIOUS
<1>1. CASE (Main \/ ForkFails \/ Interrupt) /\ UNCHANGED rfVars
  BY <1>1
<1>2. CASE Terminated
  BY <1>2 DEF Terminated, RfNext
<1>3. ASSUME NEW s \in Slot,
             \/ Begins(s) \/ Connects(s) \/ Leaves(s) \/ Dies(s) \/ Throws(s)
             \/ (InterruptChild(s) \/ BindFails(s)) /\ UNCHANGED rfVars
      PROVE  RfNext \/ UNCHANGED rfVars
  BY <1>3 DEF Begins, Connects, Leaves, Dies, Throws, RfNext
<1>4. CASE (Environment \/ Reader) /\ UNCHANGED vars
  BY <1>4 DEF RfNext
<1>5. CASE UNCHANGED all
  BY <1>5 DEF all
<1> QED BY <1>1, <1>2, <1>3, <1>4, <1>5 DEF ToneNext
-----------------------------------------------------------------------------
\* The processes behave as Supervisor says, whatever becomes of the tones.
THEOREM ImplementsSupervisor == ToneSpec => Spec
<1>1. ToneInit => Init
  BY DEF ToneInit
<1> QED BY <1>1, ToneProcessStep, PTL DEF ToneSpec, Spec

\* The reader behaves as RfAlert says, whichever process it is.
THEOREM ImplementsRfAlert == ToneSpec => RfSpec
<1>1. ToneInit => RfInit
  BY DEF ToneInit
<1> QED BY <1>1, ToneReaderStep, PTL DEF ToneSpec, RfSpec
-----------------------------------------------------------------------------
\* Types, and the properties of both parts, of the whole.
THEOREM ToneTypeCorrect == ToneSpec => []ToneTypeOK
BY TypeCorrect, RfTypeCorrect, ImplementsSupervisor, ImplementsRfAlert, PTL DEF ToneTypeOK

\* What Supervisor promises of its processes.
THEOREM ServicesAreKept == ToneSpec => [](ProcessesAreCounted /\ SignalIsFinal)
BY ProcessesAreKept, SignalsAreFinal, ImplementsSupervisor, PTL

\* What RfAlert promises of its tones.
THEOREM TonesAreAccountedFor == ToneSpec => [](LostInCompany /\ AlertedOnce)
BY TonesAreLostInCompany, TonesAreAlertedOnce, ImplementsRfAlert, PTL
-----------------------------------------------------------------------------
(***************************************************************************)
(* The reader is there with its process: Up are the processes that read.   *)
(***************************************************************************)
Up == {s \in Slot : Reads(s)}

LEMMA MainKeepsUp ==
  ASSUME TypeOK, Main \/ ForkFails \/ Interrupt
  PROVE  Up' = Up
<1> NoProcess.state = "none"
  BY DEF NoProcess
<1>1. ASSUME NEW k \in Service, RaiseFlag(k) PROVE Up' = Up
  BY <1>1 DEF RaiseFlag, Up, Reads, Has
<1>2. ASSUME NEW k \in Service, Fork(k) PROVE Up' = Up
  <2>1. PICK s \in Free : proc' = [proc EXCEPT ![s] = [kind |-> k, state |-> "new", goes |-> flag[k]]]
    BY <1>2 DEF Fork
  <2>2. s \in Slot /\ proc[s].state = "none"
    BY DEF Free
  <2> QED BY <2>1, <2>2 DEF Up, Reads, Has, TypeOK
<1>3. ASSUME NEW s \in Slot, Reap(s) PROVE Up' = Up
  BY <1>3 DEF Reap, Zombie, Up, Reads, Has, TypeOK
<1>4. ASSUME NEW s \in Slot, HandlerReaps(s) PROVE Up' = Up
  BY <1>4 DEF HandlerReaps, Zombie, Up, Reads, Has, TypeOK
<1>5. CASE End \/ HandlerReturns \/ ForkFails \/ Interrupt
  BY <1>5 DEF End, HandlerReturns, ForkFails, Interrupt, Up, Reads, Has
<1> QED BY <1>1, <1>2, <1>3, <1>4, <1>5 DEF Main

LEMMA ExitUp ==
  ASSUME TypeOK, OneReader, NEW s \in Slot, Exit(s)
  PROVE  Up' = IF Reads(s) THEN {} ELSE Up
<1>1. /\ proc'[s].state = "zombie"
      /\ \A t \in Slot : t # s => proc'[t] = proc[t]
  BY DEF Exit, TypeOK, Process
<1>2. Reads(s) => \A t \in Slot : Reads(t) => t = s
  BY DEF Reads, Has, OneReader
<1> QED BY <1>1, <1>2 DEF Up, Reads, Has

ChildInv == step # "down" <=> Up # {}

LEMMA ChildInvStep ==
  ASSUME IInv, ChildInv, [ToneNext]_all
  PROVE  ChildInv'
<1> TypeOK /\ OneReader
  BY InvProperties DEF IInv, ProcessesAreCounted
<1>1. CASE (Main \/ ForkFails \/ Interrupt) /\ UNCHANGED rfVars
  BY <1>1, MainKeepsUp DEF ChildInv, rfVars
<1>2. CASE Terminated
  <2>1. Up' = {}
    BY <1>2 DEF Terminated, Terminate, Up, Reads, Has, NoProcess
  <2>2. step' = "down"
    BY <1>2 DEF Terminated, Fall, rfVars
  <2> QED BY <2>1, <2>2 DEF ChildInv
<1>3. ASSUME NEW s \in Slot, Begins(s) PROVE ChildInv'
  <2>1. /\ proc[s].state = "new" /\ proc'[s].state = "up" /\ proc'[s].kind = proc[s].kind
        /\ \A t \in Slot : t # s => proc'[t] = proc[t]
    BY <1>3 DEF Begins, Serve, Has, TypeOK, Process
  <2>2. CASE proc[s].kind = "RF"
    <3>1. s \in Up'
      BY <2>1, <2>2 DEF Up, Reads, Has
    <3>2. step' = "idle"
      BY <1>3, <2>2 DEF Begins, Begin
    <3> QED BY <3>1, <3>2 DEF ChildInv
  <2>3. CASE proc[s].kind # "RF"
    <3>1. Up' = Up
      BY <2>1, <2>3 DEF Up, Reads, Has
    <3>2. step' = step
      BY <1>3, <2>3 DEF Begins, rfVars
    <3> QED BY <3>1, <3>2 DEF ChildInv
  <2> QED BY <2>2, <2>3
<1>4. ASSUME NEW s \in Slot, Connects(s) PROVE ChildInv'
  <2>1. Up' = Up /\ s \in Up
    BY <1>4 DEF Connects, vars, Up, Reads, Has
  <2>2. step' = "wait"
    BY <1>4 DEF Connects, Connect
  <2> QED BY <2>1, <2>2 DEF ChildInv
<1>5. ASSUME NEW s \in Slot, Leaves(s) \/ Dies(s) \/ Throws(s) PROVE ChildInv'
  <2>1. Exit(s)
    BY <1>5 DEF Leaves, Dies, Throws, LoopEnds, Die, Throw
  <2>2. Reads(s) => step' = "down"
    BY <1>5 DEF Leaves, Dies, Throws, Fall
  <2>3. ~Reads(s) => step' = step
    BY <1>5 DEF Leaves, Dies, Throws, Throw, Reads, rfVars
  <2> QED BY <2>1, <2>2, <2>3, ExitUp DEF ChildInv
<1>6. ASSUME NEW s \in Slot, InterruptChild(s) /\ UNCHANGED rfVars PROVE ChildInv'
  <2>1. proc'[s].state = proc[s].state
    BY <1>6 DEF InterruptChild, TypeOK, Process
  <2>2. Up' = Up
    BY <1>6, <2>1, ChildKeeps DEF Up, Reads, Has, ChildStep
  <2> QED BY <1>6, <2>2 DEF ChildInv, rfVars
<1>7. ASSUME NEW s \in Slot, BindFails(s) /\ UNCHANGED rfVars PROVE ChildInv'
  <2>1. ~Reads(s) /\ Exit(s)
    BY <1>7 DEF BindFails, Reads, Has
  <2> QED BY <1>7, <2>1, ExitUp DEF ChildInv, rfVars
<1>8. CASE (Environment \/ Reader) /\ UNCHANGED vars
  <2>1. Up' = Up
    BY <1>8 DEF vars, Up, Reads, Has
  <2>2. step' = step \/ (step # "down" /\ step' # "down")
    BY <1>8 DEF Environment, Publish, Push, BrokerCloses, Reader, Receive,
                ReceiveUnmapped, Save, Acknowledge, Alert
  <2> QED BY <2>1, <2>2 DEF ChildInv
<1>9. CASE UNCHANGED all
  BY <1>9 DEF all, vars, rfVars, ChildInv, Up, Reads, Has
<1> QED BY <1>1, <1>2, <1>3, <1>4, <1>5, <1>6, <1>7, <1>8, <1>9 DEF ToneNext

\* Tones are read exactly when there is a process to read them: no step of a
\* poll is taken for a reader that has ended, and none is left with its connection.
THEOREM TonesAreReadByAChild == ToneSpec => []ReaderIsChild
<1>1. ToneInit => IInv /\ ChildInv
  <2>1. ToneInit => IInv
    BY InitInv DEF ToneInit
  <2>2. ToneInit => ChildInv
    BY DEF ToneInit, Init, RfInit, NoProcess, ChildInv, Up, Reads, Has
  <2> QED BY <2>1, <2>2
<1>2. IInv /\ ChildInv /\ [ToneNext]_all => (IInv /\ ChildInv)'
  BY ToneProcessStep, StepInv, ChildInvStep
<1>3. ChildInv => ReaderIsChild
  BY DEF ChildInv, Up, ReaderIsChild
<1> QED BY <1>1, <1>2, <1>3, PTL DEF ToneSpec
==============================================================================
