------------------------- MODULE PacketStreamProofs -------------------------
(***************************************************************************)
(* Theorems about PacketStream, for any number of connections, any lengths *)
(* of their jobs and any sequence numbers, however streams are cut and     *)
(* packets are repeated, lost and overtaken: what is forwarded is the job  *)
(* of one connection, once; and a call that was not disturbed is not       *)
(* dropped.                                                                *)
(***************************************************************************)
EXTENDS PacketStream, FiniteSetTheorems, WellFoundedInduction, TLAPS

\* A packet is on its way only if its places were sent, the SYN only before the
\* data, and in another cut only if the connection is known for it.  As they were
\* sent first, packets follow one another and do not overlap.
NetInv ==
  /\ \A p \in wire :
       /\ p[3] < sent[p[1]]
       /\ p[2] = 0 => sent[p[1]] = 1
       /\ p[1] \notin recut => p \in segments
  /\ \A p \in segments :
       /\ p[3] < sent[p[1]]
       /\ p[3] + 1 < sent[p[1]] =>
            \E q \in segments : q[1] = p[1] /\ q[2] = p[3] + 1
  /\ \A p, q \in segments : p[1] = q[1] => p = q \/ p[3] < q[2] \/ q[3] < p[2]
  /\ recut \subseteq disturbed

\* What the slot of connection c can hold.  The first number is expected; a
\* number that was seen is that of a place, whose data are held, if it has any;
\* what is held are packets of the connection, behind which the next number is
\* expected; and no other data are held.
SlotOf(c, pkts, sums) ==
  /\ Num(c, 0) + 1 \in DOMAIN sums
  /\ \A s \in DOMAIN sums : sums[s] = 1 =>
       \E k \in 1 .. FinPos(c) : s = Num(c, k) /\ (k <= Length[c] => s \in DOMAIN pkts)
  /\ \A s \in DOMAIN pkts :
       /\ s \in DOMAIN sums
       /\ pkts[s] \in Packets /\ pkts[s][1] = c /\ HasData(pkts[s])
       /\ s = SeqNum(pkts[s])
       /\ ~IsFin(pkts[s]) => NextNum(pkts[s]) \in DOMAIN sums
       /\ c \notin recut => pkts[s] \in segments

SlotInv == port \in Conns => SlotOf(port, packet, checksum)

\* What is processed is the job of one connection, that of a call on its way to
\* the daemon.
PayloadInv ==
  /\ payload # << >> => \E c \in Conns : IsJob(c, payload)
  /\ listener \in {"connect", "confirm"} => \E c \in Calls : IsJob(c, payload)

\* A connection whose job left the slot never has the slot again, ...
SpentInv == \A c \in Conns :
  JobOf(c, payload) \/ (\E i \in DOMAIN forwarded : JobOf(c, forwarded[i]))
  => sent[c] > 1 /\ port # c

\* ... and the job that is about to be sent was not sent before.
FreshInv == listener \in {"decode", "connect"} => \A c \in Conns :
  JobOf(c, payload) => \A i \in DOMAIN forwarded : ~JobOf(c, forwarded[i])

\* The inductive invariant of the capture.
StreamInv ==
  /\ TypeOK /\ NetInv /\ SlotInv /\ PayloadInv /\ SpentInv /\ FreshInv
  /\ ForwardedIsOneJob /\ ForwardedOnce

\* The call of c has been sent to the daemon, or is about to be.
Handed(c) ==
  \/ \E i \in DOMAIN forwarded : JobOf(c, forwarded[i])
  \/ listener \in {"decode", "connect"} /\ JobOf(c, payload)

Undisturbed(c) == c \notin disturbed /\ isn[c] + FinPos(c) < SeqSpace

\* The packets of c on their way are those from place n on, where one begins.
InWire(c, n) ==
  /\ n <= sent[c]
  /\ n < sent[c] => \E q \in segments : q[1] = c /\ q[2] = n
  /\ \A p \in Packets : p[1] = c => (p \in wire <=> p \in segments /\ n <= p[2])

\* The places of c before those on their way have come in order, so that the
\* slot has seen them and expects the next one.
Collected(c) ==
  /\ port = c
  /\ \E n \in 1 .. FinPos(c) :
       /\ InWire(c, n)
       /\ isn[c] + n \in DOMAIN checksum
       /\ \A s \in DOMAIN checksum : s = isn[c] + n \/ (s < isn[c] + n /\ checksum[s] = 1)

\* An undisturbed call has not been captured, or is in the slot, or handed over.
CallInv == \A c \in Calls : Undisturbed(c) =>
  InWire(c, 0) \/ Collected(c) \/ Handed(c)

\* No call is dropped without a reason: when all its packets were captured it
\* was sent to the daemon, or is about to be, unless one of them was repeated,
\* lost or overtaken, another connection took the slot, the daemon refused it,
\* or its sequence numbers wrap.
NoCallIsDropped == \A c \in Calls :
  sent[c] = FinPos(c) + 1 /\ (\A p \in wire : p[1] # c) =>
    Handed(c) \/ c \in disturbed \/ isn[c] + FinPos(c) >= SeqSpace
-----------------------------------------------------------------------------
(* Arithmetic and sets of numbers.                                         *)

\* A number below twice the size of the sequence space wraps once at most.
LEMMA Wrap ==
  ASSUME NEW m \in Nat \ {0}, NEW x \in Nat, x < m + m
  PROVE  (x < m => x % m = x) /\ (~(x < m) => x % m = x - m)
<1>1. x % m \in 0 .. m - 1 /\ x \div m \in Nat /\ x = m * (x \div m) + (x % m)
  OBVIOUS
<1>2. x \div m \in {0, 1}
  <2>1. CASE x \div m >= 2
    <3>1. m * (x \div m) >= m * 2
      BY <2>1, <1>1
    <3> QED BY <3>1, <1>1
  <2> QED BY <2>1, <1>1
<1>3. CASE x \div m = 0
  <2>1. m * (x \div m) = 0
    BY <1>3
  <2> QED BY <2>1, <1>1
<1>4. CASE x \div m = 1
  <2>1. m * (x \div m) = m
    BY <1>4
  <2> QED BY <2>1, <1>1
<1> QED BY <1>2, <1>3, <1>4

\* A set of numbers has a least one.
LEMMA Least ==
  ASSUME NEW T, T \subseteq Nat, T # {} PROVE \E x \in T : \A y \in T : x <= y
<1>1. PICK x \in T : \A y \in T : <<y, x>> \notin OpToRel(<, Nat)
  BY NatLessThanWellFounded, WFMin
<1>2. ASSUME NEW y \in T PROVE x <= y
  <2>1. <<y, x>> \in Nat \X Nat /\ x \in Nat /\ y \in Nat
    OBVIOUS
  <2>2. ~(y < x)
    BY <1>1, <2>1 DEF OpToRel
  <2> QED BY <2>1, <2>2
<1> QED BY <1>2

\* The parts of a packet.
LEMMA Packet ==
  /\ \A p \in Packets :
       /\ p[1] \in Conns /\ p = <<p[1], p[2], p[3]>>
       /\ p[2] \in 0 .. FinPos(p[1]) /\ p[3] \in 0 .. FinPos(p[1])
       /\ p[2] <= p[3] /\ (p[2] = 0 <=> p[3] = 0)
  /\ \A c \in Conns : \A cut \in Cuts(c) : <<c, cut[1], cut[2]>> \in Packets
<1>1. \A c \in Conns : FinPos(c) \in Nat /\ FinPos(c) > 0
  BY ConnsAssumption DEF FinPos
<1>2. ASSUME NEW p \in Packets
      PROVE  /\ p[1] \in Conns /\ p = <<p[1], p[2], p[3]>>
             /\ p[2] \in 0 .. FinPos(p[1]) /\ p[3] \in 0 .. FinPos(p[1])
             /\ p[2] <= p[3] /\ (p[2] = 0 <=> p[3] = 0)
  <2>1. PICK c \in Conns : \E cut \in Cuts(c) : p = <<c, cut[1], cut[2]>>
    BY DEF Packets
  <2>a. PICK cut \in Cuts(c) : p = <<c, cut[1], cut[2]>>
    BY <2>1
  <2>2. CASE cut = <<0, 0>>
    BY <1>1, <2>a, <2>2
  <2>3. CASE cut \in (1 .. FinPos(c)) \X (1 .. FinPos(c)) /\ cut[1] <= cut[2]
    BY <1>1, <2>a, <2>3
  <2> QED BY <2>2, <2>3 DEF Cuts
<1>3. \A c \in Conns : \A cut \in Cuts(c) : <<c, cut[1], cut[2]>> \in Packets
  BY DEF Packets
<1> QED BY <1>2, <1>3

\* Lengths, places and first numbers of connections.
LEMMA Bounds ==
  ASSUME isn \in Isns, NEW c \in Conns
  PROVE  /\ SeqSpace \in Nat \ {0}
         /\ isn[c] \in Nat /\ isn[c] < SeqSpace
         /\ Length[c] \in Nat
         /\ FinPos(c) \in Nat /\ FinPos(c) = Length[c] + 1 /\ FinPos(c) < SeqSpace
BY ConnsAssumption DEF FinPos

\* The sequence numbers of a connection are those behind its first one, wrapped
\* around the sequence space at most once.
LEMMA SeqNums ==
  ASSUME isn \in Isns, NEW c \in Conns, NEW k \in 0 .. FinPos(c)
  PROVE  /\ Num(c, k) = IF isn[c] + k < SeqSpace THEN isn[c] + k
                        ELSE (isn[c] + k) - SeqSpace
         /\ Num(c, k) \in 0 .. SeqSpace - 1
<1>1. PICK x \in Nat : x = isn[c] + k
  BY Bounds
<1>2. x < SeqSpace + SeqSpace /\ SeqSpace \in Nat \ {0}
  BY <1>1, Bounds
<1>3. Num(c, k) = x % SeqSpace
  BY <1>1 DEF Num
<1>4. (x < SeqSpace => x % SeqSpace = x) /\ (~(x < SeqSpace) => x % SeqSpace = x - SeqSpace)
  BY <1>2, Wrap
<1>5. CASE x < SeqSpace
  <2>1. Num(c, k) = x
    BY <1>3, <1>4, <1>5, Zenon
  <2> QED BY <1>1, <1>2, <1>5, <2>1
<1>6. CASE ~(x < SeqSpace)
  <2>1. Num(c, k) = x - SeqSpace
    BY <1>3, <1>4, <1>6, Zenon
  <2>2. x - SeqSpace \in 0 .. SeqSpace - 1
    BY <1>2, <1>6
  <2> QED BY <1>1, <1>6, <2>1, <2>2, Zenon
<1> QED BY <1>5, <1>6

\* No two places of a connection have the same sequence number.
LEMMA SeqNumsDiffer ==
  ASSUME isn \in Isns, NEW c \in Conns, NEW j \in 0 .. FinPos(c),
         NEW k \in 0 .. FinPos(c), Num(c, j) = Num(c, k)
  PROVE  j = k
BY SeqNums, Bounds

\* The numbers of a packet, and what the last place with data is.
LEMMA Numbers ==
  ASSUME isn \in Isns, NEW p \in Packets
  PROVE  /\ SeqNum(p) = Num(p[1], p[2]) /\ SeqNum(p) \in 0 .. SeqSpace - 1
         /\ HasData(p) <=> 0 < p[2] /\ p[2] <= Length[p[1]]
         /\ HasData(p) => LastOf(p) \in p[2] .. Length[p[1]] /\ LastOf(p) <= p[3]
         /\ IsFin(p) => LastOf(p) = Length[p[1]] /\ p[3] = Length[p[1]] + 1
         /\ ~IsFin(p) => LastOf(p) = p[3] /\ p[3] <= Length[p[1]]
         /\ HasData(p) => NextNum(p) \in Nat /\ NextNum(p) > SeqNum(p)
                          /\ NextNum(p) = SeqNum(p) + (LastOf(p) - p[2] + 1)
<1>1. /\ p[1] \in Conns /\ p[2] \in 0 .. FinPos(p[1]) /\ p[3] \in 0 .. FinPos(p[1])
      /\ p[2] <= p[3]
  BY Packet
<1>2. /\ Length[p[1]] \in Nat /\ FinPos(p[1]) = Length[p[1]] + 1 /\ SeqSpace \in Nat
  BY <1>1, Bounds
<1>3. SeqNum(p) = Num(p[1], p[2]) /\ SeqNum(p) \in 0 .. SeqSpace - 1
  BY <1>1, SeqNums DEF SeqNum
<1>4. HasData(p) <=> 0 < p[2] /\ p[2] <= Length[p[1]]
  BY <1>1, <1>2 DEF HasData
<1>5. /\ IsFin(p) => LastOf(p) = Length[p[1]] /\ p[3] = Length[p[1]] + 1
      /\ ~IsFin(p) => LastOf(p) = p[3] /\ p[3] <= Length[p[1]]
  BY <1>1, <1>2 DEF IsFin, LastOf
<1>6. HasData(p) => LastOf(p) \in p[2] .. Length[p[1]] /\ LastOf(p) <= p[3]
  BY <1>1, <1>2, <1>4, <1>5
<1>7. NextNum(p) = SeqNum(p) + (LastOf(p) - p[2] + 1)
  BY DEF NextNum
<1>8. HasData(p) => NextNum(p) \in Nat /\ NextNum(p) > SeqNum(p)
  BY <1>1, <1>2, <1>3, <1>6, <1>7
<1> QED BY <1>3, <1>4, <1>5, <1>6, <1>7, <1>8

\* The numbers from 1 to k are k.
LEMMA Counted == \A k \in Nat : IsFiniteSet(1 .. k) /\ Cardinality(1 .. k) = k
<1> SUFFICES ASSUME NEW k \in Nat PROVE IsFiniteSet(1 .. k) /\ Cardinality(1 .. k) = k
  OBVIOUS
<1>1. IsFiniteSet(1 .. k) /\ Cardinality(1 .. k) = IF 1 > k THEN 0 ELSE k - 1 + 1
  BY FS_Interval
<1> QED BY <1>1

\* The numbers under which data are held.
Held(pkts, sums) == DOMAIN sums \cap DOMAIN pkts

\* Data under some numbers are assembled in the order of these.
LEMMA Sorted ==
  ASSUME NEW pkts, NEW sums, Held(pkts, sums) \subseteq Nat, IsFiniteSet(Held(pkts, sums))
  PROVE  LET H == Held(pkts, sums)
             n == Cardinality(H) IN
         /\ n \in Nat
         /\ \E key \in [1 .. n -> H] :
              /\ Assembled(pkts, sums) = [i \in 1 .. n |-> pkts[key[i]]]
              /\ \A i, j \in 1 .. n : i < j => key[i] < key[j]
              /\ \A s \in H : \E i \in 1 .. n : key[i] = s
<1> DEFINE H == Held(pkts, sums)
           n == Cardinality(H)
<1>0. H \subseteq Nat /\ IsFiniteSet(H) /\ n = Cardinality(H) /\ H = Held(pkts, sums)
  OBVIOUS
<1> HIDE DEF H, n
<1> USE <1>0
<1> DEFINE upto(s) == {t \in H : t <= s}
           rank(s) == Cardinality(upto(s))
<1>1. n \in Nat
  BY <1>0, FS_CardinalityType
<1>2. \A s \in H : upto(s) \in SUBSET H
  OBVIOUS
<1>3. ASSUME NEW s \in H PROVE IsFiniteSet(upto(s)) /\ rank(s) \in 1 .. n
  <2>1. IsFiniteSet(upto(s)) /\ rank(s) <= n
    <3>1. upto(s) \in SUBSET H
      BY <1>2
    <3> HIDE DEF upto
    <3> QED BY <1>0, <3>1, FS_Subset
  <2>2. rank(s) \in Nat /\ (rank(s) = 0 <=> upto(s) = {})
    <3> HIDE DEF upto
    <3> QED BY <2>1, FS_CardinalityType, FS_EmptySet
  <2>3. s \in upto(s)
    <3>1. s \in Nat
      BY <1>0
    <3> QED BY <3>1
  <2> HIDE DEF rank, upto
  <2> QED BY <1>1, <2>1, <2>2, <2>3
<1>4. ASSUME NEW s \in H, NEW t \in H, s < t PROVE rank(s) < rank(t)
  <2>1. upto(s) \in SUBSET upto(t) /\ t \in upto(t) /\ t \notin upto(s)
    <3>1. s \in Nat /\ t \in Nat
      BY <1>0
    <3>2. \A x \in H : x \in Nat /\ (x <= s => x <= t)
      BY <1>0, <1>4, <3>1
    <3>3. ~(t <= s) /\ t <= t
      BY <1>4, <3>1
    <3> QED BY <3>2, <3>3
  <2>2. IsFiniteSet(upto(t)) /\ rank(s) \in 1 .. n /\ rank(t) \in 1 .. n
    BY <1>3
  <2>3. rank(s) <= rank(t) /\ (rank(s) = rank(t) => upto(s) = upto(t))
    <3> HIDE DEF upto
    <3> QED BY <2>1, <2>2, FS_Subset
  <2> HIDE DEF rank, upto
  <2> QED BY <1>1, <2>1, <2>2, <2>3
<1>5. ASSUME NEW s \in H, NEW t \in H, rank(s) = rank(t) PROVE s = t
  <2>1. s \in Nat /\ t \in Nat /\ rank(s) \in 1 .. n
    BY <1>0, <1>3
  <2>2. ~(s < t) /\ ~(t < s)
    <3>1. s < t => rank(s) < rank(t)
      BY <1>4
    <3>2. t < s => rank(t) < rank(s)
      BY <1>4
    <3> HIDE DEF rank
    <3> QED BY <1>1, <1>5, <2>1, <3>1, <3>2
  <2> QED BY <2>1, <2>2
<1>6. ASSUME NEW i \in 1 .. n PROVE \E s \in H : rank(s) = i
  <2> SUFFICES ASSUME \A s \in H : rank(s) # i PROVE FALSE
    OBVIOUS
  <2> DEFINE T == (1 .. n) \ {i}
             f == [s \in H |-> rank(s)]
  <2>1. IsFiniteSet(1 .. n) /\ Cardinality(1 .. n) = n
    <3>1. \A k \in Nat : IsFiniteSet(1 .. k) /\ Cardinality(1 .. k) = k
      BY Counted
    <3> QED BY <1>1, <3>1
  <2>2. IsFiniteSet(T) /\ Cardinality(T) = n - 1
    BY <1>1, <2>1, FS_RemoveElement
  <2>3. f \in [H -> T]
    <3> HIDE DEF rank
    <3> QED BY <1>3
  <2>4. Cardinality(T) < Cardinality(H)
    BY <1>1, <2>2
  <2>5. \E x, y \in H : x # y /\ f[x] = f[y]
    <3> HIDE DEF f, T
    <3> QED BY <1>0, <2>2, <2>3, <2>4, FS_PigeonHole
  <2>6. \E x, y \in H : x # y /\ rank(x) = rank(y)
    <3>1. \A x \in H : f[x] = rank(x)
      OBVIOUS
    <3> HIDE DEF f, rank
    <3> QED BY <2>5, <3>1
  <2> HIDE DEF rank, f, T
  <2> QED BY <1>5, <2>6
<1> DEFINE at(i) == CHOOSE s \in H : rank(s) = i
           key   == [i \in 1 .. n |-> at(i)]
<1>7. ASSUME NEW i \in 1 .. n PROVE key[i] \in H /\ rank(key[i]) = i
  <2> HIDE DEF rank
  <2>1. at(i) \in H /\ rank(at(i)) = i
    BY <1>6
  <2> HIDE DEF at
  <2> QED BY <2>1
<1>8. key \in [1 .. n -> H]
  <2>1. \A i \in 1 .. n : at(i) \in H
    <3> HIDE DEF rank
    <3> QED BY <1>6
  <2> HIDE DEF at
  <2> QED BY <2>1
<1>9. Assembled(pkts, sums) = [i \in 1 .. n |-> pkts[key[i]]]
  <2>1. Assembled(pkts, sums)
          = [i \in 1 .. n |-> pkts[at(i)]]
    BY DEF Assembled, Held
  <2>2. \A i \in 1 .. n : key[i] = at(i)
    OBVIOUS
  <2> HIDE DEF key, at, rank
  <2> QED BY <2>1, <2>2
<1>10. ASSUME NEW i \in 1 .. n, NEW j \in 1 .. n, i < j PROVE key[i] < key[j]
  <2>1. /\ key[i] \in H /\ key[j] \in H /\ rank(key[i]) = i /\ rank(key[j]) = j
    BY <1>7
  <2>4. i \in Nat /\ j \in Nat /\ key[i] \in Nat /\ key[j] \in Nat
    <3> HIDE DEF key, at, rank
    <3>1. i \in Nat /\ j \in Nat
      BY <1>1
    <3> QED BY <1>0, <2>1, <3>1
  <2>2. key[j] < key[i] => rank(key[j]) < rank(key[i])
    BY <1>4, <2>1
  <2> HIDE DEF key, at, rank
  <2>3. key[i] # key[j]
    BY <1>10, <2>1, <2>4
  <2> QED BY <1>10, <2>1, <2>2, <2>3, <2>4
<1>11. ASSUME NEW s \in H PROVE \E i \in 1 .. n : key[i] = s
  <2>1. rank(s) \in 1 .. n
    BY <1>3
  <2>2. key[rank(s)] \in H /\ rank(key[rank(s)]) = rank(s)
    BY <1>7, <2>1
  <2>3. key[rank(s)] = s
    <3> HIDE DEF key, at, rank
    <3> QED BY <1>5, <2>2
  <2> HIDE DEF key, at, rank
  <2> QED BY <2>1, <2>3
<1> HIDE DEF key, at, rank
<1> QED BY <1>1, <1>8, <1>9, <1>10, <1>11
-----------------------------------------------------------------------------
(* The slot.                                                               *)

\* After a SYN the slot expects the first number.
LEMMA SlotSyn ==
  ASSUME NEW c \in Conns
  PROVE  SlotOf(c, EmptyMap, Put(EmptyMap, Num(c, 0) + 1, 0))
<1>1. DOMAIN EmptyMap = {}
  BY DEF EmptyMap
<1>2. DOMAIN Put(EmptyMap, Num(c, 0) + 1, 0) = {Num(c, 0) + 1}
  BY DEF Put, EmptyMap
<1>3. Put(EmptyMap, Num(c, 0) + 1, 0)[Num(c, 0) + 1] = 0
  BY DEF Put, EmptyMap
<1> QED BY <1>1, <1>2, <1>3 DEF SlotOf

\* Which numbers a segment adds, and what becomes of the others.
LEMMA Marks ==
  ASSUME isn \in Isns, NEW p \in Packets
  PROVE  LET n    == SeqNum(p)
             e    == NextNum(p)
             more == HasData(p) /\ ~IsFin(p) IN
         /\ DOMAIN Marked(p) = DOMAIN checksum \cup {n} \cup (IF more THEN {e} ELSE {})
         /\ Marked(p)[n] = 1
         /\ more => Marked(p)[e] = 0
         /\ \A s \in DOMAIN checksum :
              s # n /\ (more => s # e) => Marked(p)[s] = checksum[s]
         /\ DOMAIN Stored(p) = DOMAIN packet \cup (IF HasData(p) THEN {n} ELSE {})
         /\ HasData(p) => Stored(p)[n] = p
         /\ \A s \in DOMAIN packet :
              (HasData(p) => s # n) => Stored(p)[s] = packet[s]
<1> DEFINE n    == SeqNum(p)
           e    == NextNum(p)
           more == HasData(p) /\ ~IsFin(p)
           E    == IF more THEN Put(checksum, e, 0) ELSE checksum
<1>0. HasData(p) => e # n
  BY Numbers
<1>1. Marked(p) = Put(E, n, 1)
  BY DEF Marked
<1>2. Stored(p) = IF HasData(p) THEN Put(packet, n, p) ELSE packet
  BY DEF Stored
<1> HIDE DEF n, e, more
<1>3. DOMAIN Marked(p) = DOMAIN checksum \cup {n} \cup (IF more THEN {e} ELSE {})
  BY <1>1 DEF Put
<1>4. Marked(p)[n] = 1
  BY <1>1 DEF Put
<1>5. ASSUME more PROVE Marked(p)[e] = 0
  <2>1. e # n
    BY <1>0, <1>5 DEF more
  <2>2. e \in DOMAIN E /\ E[e] = 0
    BY <1>5 DEF Put
  <2> HIDE DEF E
  <2> QED BY <1>1, <2>1, <2>2 DEF Put
<1>6. \A s \in DOMAIN checksum :
        s # n /\ (more => s # e) => Marked(p)[s] = checksum[s]
  BY <1>1 DEF Put
<1>7. /\ DOMAIN Stored(p) = DOMAIN packet \cup (IF HasData(p) THEN {n} ELSE {})
      /\ HasData(p) => Stored(p)[n] = p
      /\ \A s \in DOMAIN packet : (HasData(p) => s # n) => Stored(p)[s] = packet[s]
  BY <1>2 DEF Put
<1> QED BY <1>3, <1>4, <1>5, <1>6, <1>7 DEF n, e, more

\* A segment of the connection in the slot keeps the slot one of the connection.
LEMMA SlotSegment ==
  ASSUME isn \in Isns, NEW p \in Packets, p[2] > 0, SlotOf(p[1], packet, checksum),
         \A s \in DOMAIN checksum : checksum[s] \in {0, 1} /\ s \in Nat,
         p[1] \notin recut => p \in segments
  PROVE  /\ SlotOf(p[1], Stored(p), Marked(p))
         /\ \A s \in DOMAIN Marked(p) : Marked(p)[s] \in {0, 1} /\ s \in Nat
<1> DEFINE n    == SeqNum(p)
           e    == NextNum(p)
           c    == p[1]
           M    == Marked(p)
           K    == Stored(p)
           more == HasData(p) /\ ~IsFin(p)
<1>0. /\ DOMAIN M = DOMAIN checksum \cup {n} \cup (IF more THEN {e} ELSE {})
      /\ M[n] = 1
      /\ more => M[e] = 0
      /\ \A s \in DOMAIN checksum : s # n /\ (more => s # e) => M[s] = checksum[s]
      /\ DOMAIN K = DOMAIN packet \cup (IF HasData(p) THEN {n} ELSE {})
      /\ HasData(p) => K[n] = p
      /\ \A s \in DOMAIN packet : (HasData(p) => s # n) => K[s] = packet[s]
  BY Marks
<1>a. /\ n = SeqNum(p) /\ n = Num(c, p[2]) /\ c \in Conns /\ p[1] = c
      /\ p[2] \in 1 .. FinPos(c) /\ (HasData(p) <=> p[2] <= Length[c])
      /\ n \in Nat /\ (more => e \in Nat) /\ more = (HasData(p) /\ ~IsFin(p))
      /\ e = NextNum(p)
  BY Numbers, Packet, Bounds
<1>b. /\ Num(c, 0) + 1 \in DOMAIN checksum
      /\ \A s \in DOMAIN checksum : checksum[s] = 1 =>
           \E k \in 1 .. FinPos(c) :
             s = Num(c, k) /\ (k <= Length[c] => s \in DOMAIN packet)
      /\ \A s \in DOMAIN packet :
           /\ s \in DOMAIN checksum
           /\ packet[s] \in Packets /\ packet[s][1] = c /\ HasData(packet[s])
           /\ s = SeqNum(packet[s])
           /\ ~IsFin(packet[s]) => NextNum(packet[s]) \in DOMAIN checksum
           /\ c \notin recut => packet[s] \in segments
  BY DEF SlotOf
<1> HIDE DEF M, K, n, e, c, more
<1>1. Num(c, 0) + 1 \in DOMAIN M
  BY <1>0, <1>b
<1>2. ASSUME NEW s \in DOMAIN M, M[s] = 1
      PROVE  \E k \in 1 .. FinPos(c) : s = Num(c, k) /\ (k <= Length[c] => s \in DOMAIN K)
  <2>1. CASE s = n
    BY <1>0, <1>a, <2>1
  <2>2. CASE s # n
    <3>1. s \in DOMAIN checksum /\ checksum[s] = 1
      BY <1>0, <1>2, <2>2
    <3>2. PICK k \in 1 .. FinPos(c) :
            s = Num(c, k) /\ (k <= Length[c] => s \in DOMAIN packet)
      BY <1>b, <3>1
    <3> QED BY <1>0, <3>2
  <2> QED BY <2>1, <2>2
<1>3. ASSUME NEW s \in DOMAIN K
      PROVE  /\ s \in DOMAIN M
             /\ K[s] \in Packets /\ K[s][1] = c /\ HasData(K[s])
             /\ s = SeqNum(K[s])
             /\ ~IsFin(K[s]) => NextNum(K[s]) \in DOMAIN M
             /\ c \notin recut => K[s] \in segments
  <2>1. CASE s = n /\ HasData(p)
    <3>1. K[s] = p
      BY <1>0, <2>1
    <3>2. ~IsFin(p) => NextNum(p) \in DOMAIN M
      BY <1>0, <1>a, <2>1
    <3> QED BY <1>0, <1>a, <2>1, <3>1, <3>2 DEF c
  <2>2. CASE ~(s = n /\ HasData(p))
    <3>1. s \in DOMAIN packet /\ K[s] = packet[s]
      BY <1>0, <2>2
    <3> QED BY <1>0, <1>b, <3>1
  <2> QED BY <2>1, <2>2
<1>4. \A s \in DOMAIN M : M[s] \in {0, 1} /\ s \in Nat
  BY <1>0, <1>a
<1> QED BY <1>1, <1>2, <1>3, <1>4 DEF SlotOf, M, K, c

\* A slot that expects nothing any more: it holds the first place, and behind a
\* packet it holds the one with the next place, unless that is the end.
LEMMA Chain ==
  ASSUME isn \in Isns, NEW c \in Conns, NEW pkts, NEW sums, SlotOf(c, pkts, sums),
         \A s \in DOMAIN sums : sums[s] = 1
  PROVE  /\ isn[c] + 1 < SeqSpace
         /\ Length[c] > 0 => isn[c] + 1 \in DOMAIN pkts
         /\ \A s \in DOMAIN pkts :
              /\ pkts[s][2] \in 1 .. Length[c] /\ LastOf(pkts[s]) \in pkts[s][2] .. Length[c]
              /\ s = Num(c, pkts[s][2]) /\ s \in 0 .. SeqSpace - 1
              /\ isn[c] + pkts[s][2] < SeqSpace /\ LastOf(pkts[s]) # Length[c]
                   => isn[c] + LastOf(pkts[s]) + 1 \in DOMAIN pkts
<1>0. /\ isn[c] \in Nat /\ isn[c] < SeqSpace /\ SeqSpace \in Nat /\ Length[c] \in Nat
      /\ FinPos(c) = Length[c] + 1 /\ FinPos(c) < SeqSpace
  BY Bounds
<1>1. \A k \in 0 .. FinPos(c) :
        /\ Num(c, k) = IF isn[c] + k < SeqSpace THEN isn[c] + k ELSE (isn[c] + k) - SeqSpace
        /\ Num(c, k) \in 0 .. SeqSpace - 1
  BY SeqNums
\* A number below SeqSpace that is expected is that of its place.
<1>2. ASSUME NEW j \in 1 .. FinPos(c), isn[c] + j \in DOMAIN sums
      PROVE  isn[c] + j < SeqSpace /\ (j <= Length[c] => isn[c] + j \in DOMAIN pkts)
  <2>1. PICK k \in 1 .. FinPos(c) :
          isn[c] + j = Num(c, k) /\ (k <= Length[c] => isn[c] + j \in DOMAIN pkts)
    BY <1>2 DEF SlotOf
  <2>2. k \in 0 .. FinPos(c)
    OBVIOUS
  <2>3. isn[c] + j < SeqSpace
    BY <1>0, <1>1, <2>1, <2>2
  <2>4. j = k
    BY <1>0, <1>1, <2>1, <2>2, <2>3
  <2> QED BY <2>1, <2>3, <2>4
<1>3. isn[c] + 1 \in DOMAIN sums
  <2>1. Num(c, 0) + 1 \in DOMAIN sums
    BY DEF SlotOf
  <2>2. Num(c, 0) = isn[c]
    BY <1>0, <1>1
  <2> QED BY <2>1, <2>2
<1>4. isn[c] + 1 < SeqSpace /\ (Length[c] > 0 => isn[c] + 1 \in DOMAIN pkts)
  <2>1. 1 \in 1 .. FinPos(c) /\ (Length[c] > 0 => 1 <= Length[c])
    BY <1>0
  <2> QED BY <1>2, <1>3, <2>1
<1>5. ASSUME NEW s \in DOMAIN pkts
      PROVE  /\ pkts[s][2] \in 1 .. Length[c]
             /\ LastOf(pkts[s]) \in pkts[s][2] .. Length[c]
             /\ s = Num(c, pkts[s][2]) /\ s \in 0 .. SeqSpace - 1
             /\ isn[c] + pkts[s][2] < SeqSpace /\ LastOf(pkts[s]) # Length[c]
                  => isn[c] + LastOf(pkts[s]) + 1 \in DOMAIN pkts
  <2> DEFINE p == pkts[s]
  <2>1. /\ p \in Packets /\ p[1] = c /\ HasData(p) /\ s = SeqNum(p)
        /\ ~IsFin(p) => NextNum(p) \in DOMAIN sums
    BY DEF SlotOf
  <2> HIDE DEF p
  <2>2. /\ s = Num(c, p[2]) /\ s \in 0 .. SeqSpace - 1
        /\ 0 < p[2] /\ p[2] <= Length[c]
        /\ LastOf(p) \in p[2] .. Length[c]
        /\ IsFin(p) => LastOf(p) = Length[c]
        /\ NextNum(p) = s + (LastOf(p) - p[2] + 1)
    BY <2>1, Numbers
  <2>3. p[2] \in 0 .. FinPos(c)
    BY <2>1, Packet
  <2>4. p[2] \in 1 .. Length[c]
    BY <1>0, <2>2, <2>3
  <2>5. ASSUME isn[c] + p[2] < SeqSpace, LastOf(p) # Length[c]
        PROVE  isn[c] + LastOf(p) + 1 \in DOMAIN pkts
    <3>1. s = isn[c] + p[2]
      BY <1>1, <2>2, <2>3, <2>5
    <3>2. NextNum(p) \in DOMAIN sums
      BY <2>1, <2>2, <2>5
    <3>3. NextNum(p) = isn[c] + (LastOf(p) + 1)
      BY <1>0, <2>2, <2>4, <3>1
    <3>4. LastOf(p) + 1 \in 1 .. FinPos(c) /\ LastOf(p) + 1 <= Length[c]
          /\ isn[c] + (LastOf(p) + 1) = isn[c] + LastOf(p) + 1
      BY <1>0, <2>2, <2>4, <2>5
    <3> QED BY <1>2, <3>2, <3>3, <3>4
  <2> QED BY <2>2, <2>4, <2>5 DEF p
<1> QED BY <1>4, <1>5

\* If no packet of the connection was cut anew, or the numbers of its data do not
\* wrap, what is held then is held under numbers that do not wrap: the packet with
\* the last of these ends the data, and no other overlaps it.
LEMMA Unwrapped ==
  ASSUME NetInv, isn \in Isns, NEW c \in Conns, NEW pkts, NEW sums,
         SlotOf(c, pkts, sums), \A s \in DOMAIN sums : sums[s] = 1,
         c \notin recut \/ isn[c] + Length[c] < SeqSpace
  PROVE  \A s \in DOMAIN pkts : s = isn[c] + pkts[s][2]
<1>0. /\ isn[c] \in Nat /\ isn[c] < SeqSpace /\ SeqSpace \in Nat /\ Length[c] \in Nat
      /\ FinPos(c) = Length[c] + 1
  BY Bounds
<1>1. /\ isn[c] + 1 < SeqSpace
      /\ Length[c] > 0 => isn[c] + 1 \in DOMAIN pkts
      /\ \A s \in DOMAIN pkts :
           /\ pkts[s][2] \in 1 .. Length[c] /\ LastOf(pkts[s]) \in pkts[s][2] .. Length[c]
           /\ s = Num(c, pkts[s][2]) /\ s \in 0 .. SeqSpace - 1
           /\ isn[c] + pkts[s][2] < SeqSpace /\ LastOf(pkts[s]) # Length[c]
                => isn[c] + LastOf(pkts[s]) + 1 \in DOMAIN pkts
  BY Chain
<1>2. \A k \in 0 .. FinPos(c) :
        Num(c, k) = IF isn[c] + k < SeqSpace THEN isn[c] + k ELSE (isn[c] + k) - SeqSpace
  BY SeqNums
<1>3. SUFFICES ASSUME NEW w \in DOMAIN pkts, ~(isn[c] + pkts[w][2] < SeqSpace)
               PROVE  FALSE
  <2>1. ASSUME NEW s \in DOMAIN pkts, isn[c] + pkts[s][2] < SeqSpace
        PROVE  s = isn[c] + pkts[s][2]
    <3>1. pkts[s][2] \in 0 .. FinPos(c) /\ s = Num(c, pkts[s][2])
      BY <1>0, <1>1
    <3> QED BY <1>2, <2>1, <3>1
  <2> QED BY <2>1
<1>4. pkts[w][2] \in 1 .. Length[c]
  BY <1>1
<1>5. c \notin recut
  BY <1>0, <1>3, <1>4
\* The last place that begins a packet under a number that does not wrap.
<1> DEFINE up   == {s \in DOMAIN pkts : isn[c] + pkts[s][2] < SeqSpace}
           left == {Length[c] - pkts[s][2] : s \in up}
<1>6. PICK t \in up : \A s \in up : pkts[s][2] <= pkts[t][2]
  <2>1. isn[c] + 1 \in up
    <3>1. isn[c] + 1 \in DOMAIN pkts
      BY <1>0, <1>1, <1>4
    <3>2. PICK k \in 1 .. Length[c] : k = pkts[isn[c] + 1][2] /\ isn[c] + 1 = Num(c, k)
      BY <1>1, <3>1
    <3>3. isn[c] + k < SeqSpace
      BY <1>0, <1>2, <3>2, Bounds
    <3> QED BY <3>1, <3>2, <3>3
  <2>2. \A s \in up : pkts[s][2] \in 1 .. Length[c]
    BY <1>1
  <2>3. left \subseteq Nat /\ left # {}
    <3> HIDE DEF up
    <3>1. \A s \in up : Length[c] - pkts[s][2] \in Nat
      BY <1>0, <2>2
    <3> QED BY <2>1, <3>1
  <2>4. PICK x \in left : \A y \in left : x <= y
    <3> HIDE DEF left
    <3> QED BY <2>3, Least
  <2>5. PICK t \in up : x = Length[c] - pkts[t][2]
    BY <2>4
  <2>6. ASSUME NEW s \in up PROVE pkts[s][2] <= pkts[t][2]
    <3>1. Length[c] - pkts[t][2] <= Length[c] - pkts[s][2]
      BY <2>4, <2>5
    <3>2. pkts[s][2] \in 1 .. Length[c] /\ pkts[t][2] \in 1 .. Length[c]
      BY <2>2
    <3> HIDE DEF up, left
    <3> QED BY <1>0, <3>1, <3>2
  <2> QED BY <2>6
<1>7. /\ t \in DOMAIN pkts /\ isn[c] + pkts[t][2] < SeqSpace
      /\ pkts[t][2] \in 1 .. Length[c] /\ LastOf(pkts[t]) \in pkts[t][2] .. Length[c]
  BY <1>1
<1>8. CASE LastOf(pkts[t]) # Length[c]
  <2> DEFINE n == isn[c] + LastOf(pkts[t]) + 1
  <2>1. n \in DOMAIN pkts
    BY <1>1, <1>7, <1>8
  <2>2. n < SeqSpace /\ pkts[n][2] \in 1 .. Length[c] /\ n = Num(c, pkts[n][2])
    BY <1>0, <1>1, <2>1
  <2>3. LastOf(pkts[t]) + 1 \in 0 .. FinPos(c) /\ pkts[n][2] \in 0 .. FinPos(c)
    BY <1>0, <1>7, <2>2
  <2>4. Num(c, LastOf(pkts[t]) + 1) = n
    <3>1. isn[c] + (LastOf(pkts[t]) + 1) = n
      BY <1>0, <1>7
    <3> HIDE DEF n
    <3> QED BY <1>2, <2>2, <2>3, <3>1
  <2>5. pkts[n][2] = LastOf(pkts[t]) + 1
    <3> HIDE DEF n
    <3> QED BY <2>2, <2>3, <2>4, SeqNumsDiffer
  <2>6. n \in up
    <3>1. isn[c] + pkts[n][2] = n
      BY <1>0, <1>7, <2>5
    <3> HIDE DEF n
    <3> QED BY <2>1, <2>2, <3>1
  <2>7. pkts[n][2] <= pkts[t][2]
    BY <1>6, <2>6
  <2> HIDE DEF n
  <2> QED BY <1>0, <1>7, <2>5, <2>7
<1>9. CASE LastOf(pkts[t]) = Length[c]
  <2>1. pkts[t][2] < pkts[w][2]
    BY <1>0, <1>3, <1>4, <1>7
  <2>2. /\ pkts[t] \in segments /\ pkts[w] \in segments
        /\ pkts[t] \in Packets /\ pkts[w] \in Packets
        /\ pkts[t][1] = c /\ pkts[w][1] = c
        /\ HasData(pkts[t])
    BY <1>5, <1>7 DEF SlotOf
  <2>3. pkts[t][3] < pkts[w][2] \/ pkts[w][3] < pkts[t][2]
    BY <1>4, <1>7, <2>1, <2>2 DEF NetInv
  <2>4. Length[c] <= pkts[t][3] /\ pkts[t][3] \in 0 .. FinPos(c)
    BY <1>9, <2>2, Numbers, Packet
  <2>5. pkts[w][2] <= pkts[w][3] /\ pkts[w][3] \in 0 .. FinPos(c)
    BY <2>2, Packet
  <2> QED BY <1>0, <1>4, <1>7, <2>1, <2>3, <2>4, <2>5
<1> QED BY <1>8, <1>9

\* What is assembled of it are packets of the connection, one at least if it has
\* data, and the job of the connection.
LEMMA AssembledJob ==
  ASSUME NetInv, isn \in Isns, NEW c \in Conns, NEW pkts, NEW sums,
         SlotOf(c, pkts, sums), \A s \in DOMAIN sums : sums[s] = 1
  PROVE  /\ Assembled(pkts, sums) \in Seq(Packets)
         /\ Length[c] > 0 => Assembled(pkts, sums) # << >>
         /\ Assembled(pkts, sums) # << >> => IsJob(c, Assembled(pkts, sums))
<1> DEFINE A == Assembled(pkts, sums)
           H == Held(pkts, sums)
           n == Cardinality(H)
<1>0. /\ isn[c] \in Nat /\ isn[c] < SeqSpace /\ SeqSpace \in Nat /\ Length[c] \in Nat
      /\ FinPos(c) = Length[c] + 1
  BY Bounds
<1>1. /\ isn[c] + 1 < SeqSpace
      /\ Length[c] > 0 => isn[c] + 1 \in DOMAIN pkts
      /\ \A s \in DOMAIN pkts :
           /\ pkts[s][2] \in 1 .. Length[c] /\ LastOf(pkts[s]) \in pkts[s][2] .. Length[c]
           /\ s = Num(c, pkts[s][2]) /\ s \in 0 .. SeqSpace - 1
           /\ isn[c] + pkts[s][2] < SeqSpace /\ LastOf(pkts[s]) # Length[c]
                => isn[c] + LastOf(pkts[s]) + 1 \in DOMAIN pkts
  BY Chain
<1>2. H = DOMAIN pkts
  BY DEF SlotOf, Held
<1>3. H \subseteq Nat /\ IsFiniteSet(H)
  <2>1. H \subseteq 0 .. SeqSpace - 1
    BY <1>1, <1>2
  <2>2. IsFiniteSet(0 .. SeqSpace - 1)
    BY <1>0, FS_Interval
  <2> HIDE DEF H
  <2> QED BY <1>0, <2>1, <2>2, FS_Subset
<1>a. A = Assembled(pkts, sums) /\ H = Held(pkts, sums) /\ n = Cardinality(H)
  OBVIOUS
<1> HIDE DEF A, H, n
<1>4. /\ n \in Nat
      /\ \E key \in [1 .. n -> H] :
           /\ Assembled(pkts, sums) = [i \in 1 .. n |-> pkts[key[i]]]
           /\ \A i, j \in 1 .. n : i < j => key[i] < key[j]
           /\ \A s \in H : \E i \in 1 .. n : key[i] = s
  BY <1>3, <1>a, Sorted
<1>5. PICK key \in [1 .. n -> H] :
        /\ A = [i \in 1 .. n |-> pkts[key[i]]]
        /\ \A i, j \in 1 .. n : i < j => key[i] < key[j]
        /\ \A s \in H : \E i \in 1 .. n : key[i] = s
  BY <1>4, <1>a
<1>n. n \in Nat /\ \A i \in 1 .. n : i \in Nat
  BY <1>4
<1>6. \A i \in 1 .. n : /\ key[i] \in DOMAIN pkts /\ key[i] \in Nat /\ A[i] = pkts[key[i]]
                        /\ A[i] \in Packets /\ A[i][1] = c /\ HasData(A[i])
                        /\ c \notin recut => A[i] \in segments
  <2>1. ASSUME NEW i \in 1 .. n PROVE key[i] \in DOMAIN pkts /\ key[i] \in Nat
    BY <1>2, <1>3, <1>5
  <2> QED BY <1>5, <2>1 DEF SlotOf
<1>7. A \in Seq(Packets) /\ Len(A) = n /\ DOMAIN A = 1 .. n
  <2>1. A = [i \in 1 .. n |-> A[i]]
    BY <1>5
  <2>2. \A i \in 1 .. n : A[i] \in Packets
    BY <1>6
  <2> QED BY <1>n, <2>1, <2>2
<1>8. ASSUME Length[c] > 0 PROVE n > 0 /\ A # << >>
  <2>1. isn[c] + 1 \in H
    BY <1>1, <1>2, <1>8
  <2>2. PICK i \in 1 .. n : key[i] = isn[c] + 1
    BY <1>5, <2>1
  <2>3. n > 0
    BY <1>n, <2>2
  <2> QED BY <1>7, <2>3
<1>9. SUFFICES ASSUME A # << >> PROVE IsJob(c, A)
  BY <1>7, <1>8 DEF A
<1>10. 1 \in 1 .. n /\ n \in 1 .. n
  BY <1>n, <1>7, <1>9
<1>11. Length[c] > 0
  BY <1>0, <1>1, <1>6, <1>10
<1>12. JobOf(c, A)
  BY <1>6, <1>7, <1>9 DEF JobOf
<1>13. ASSUME \A s \in DOMAIN pkts : s = isn[c] + pkts[s][2] PROVE Covers(c, A)
  <2>0. \A i \in 1 .. n : /\ A[i][2] \in 1 .. Length[c] /\ LastOf(A[i]) \in A[i][2] .. Length[c]
                          /\ key[i] = isn[c] + A[i][2] /\ key[i] < SeqSpace
    <3>1. ASSUME NEW i \in 1 .. n
          PROVE  /\ A[i][2] \in 1 .. Length[c] /\ LastOf(A[i]) \in A[i][2] .. Length[c]
                 /\ key[i] = isn[c] + A[i][2] /\ key[i] < SeqSpace
      <4>1. key[i] \in DOMAIN pkts /\ A[i] = pkts[key[i]]
        BY <1>6
      <4> QED BY <1>0, <1>1, <1>13, <4>1
    <3> QED BY <3>1
  \* Behind a packet comes one that begins no later than with the next place.
  <2>1. ASSUME NEW i \in 1 .. n, LastOf(A[i]) # Length[c]
        PROVE  i < n /\ A[i + 1][2] <= LastOf(A[i]) + 1
    <3>1. isn[c] + LastOf(A[i]) + 1 \in DOMAIN pkts
      <4>1. key[i] \in DOMAIN pkts /\ A[i] = pkts[key[i]]
        BY <1>6
      <4>2. isn[c] + pkts[key[i]][2] < SeqSpace
        BY <2>0, <4>1
      <4> QED BY <1>1, <2>1, <4>1, <4>2
    <3>2. PICK j \in 1 .. n : key[j] = isn[c] + LastOf(A[i]) + 1
      BY <1>2, <1>5, <3>1
    <3>3. key[i] < key[j]
      BY <1>0, <2>0, <3>2
    <3>4. i < j
      <4>1. j < i => key[j] < key[i]
        BY <1>5
      <4>2. key[i] \in Nat /\ key[j] \in Nat
        BY <1>6
      <4> QED BY <1>n, <3>3, <4>1, <4>2
    <3>5. i + 1 \in 1 .. n /\ (i + 1 = j \/ i + 1 < j)
      BY <1>n, <3>4
    <3>6. key[i + 1] <= key[j]
      <4>1. key[i + 1] \in Nat /\ key[j] \in Nat
        BY <1>6, <3>5
      <4> QED BY <1>5, <3>5, <4>1
    <3>7. A[i + 1][2] \in 1 .. Length[c] /\ key[i + 1] = isn[c] + A[i + 1][2]
      BY <2>0, <3>5
    <3>8. LastOf(A[i]) \in 1 .. Length[c] /\ i < n
      <4>1. i \in Nat /\ j \in Nat /\ j <= n
        BY <1>n
      <4>2. i < n
        BY <1>n, <3>4, <4>1
      <4> QED BY <1>0, <2>0, <4>2
    <3> QED BY <1>0, <3>2, <3>6, <3>7, <3>8
  <2>2. A[1][2] = 1
    <3>1. PICK j \in 1 .. n : key[j] = isn[c] + 1
      BY <1>1, <1>2, <1>5, <1>11
    <3>2. j = 1 \/ key[1] < key[j]
      <4>1. j = 1 \/ 1 < j
        BY <1>n
      <4> QED BY <1>5, <1>10, <4>1
    <3>3. A[1][2] \in 1 .. Length[c] /\ key[1] = isn[c] + A[1][2] /\ A[j][2] \in 1 .. Length[c]
          /\ key[j] = isn[c] + A[j][2]
      BY <1>10, <2>0
    <3> QED BY <1>0, <3>1, <3>2, <3>3
  <2>3. LastOf(A[n]) = Length[c]
    BY <1>n, <1>10, <2>1
  <2>4. ASSUME NEW i \in 1 .. n - 1
        PROVE  A[i + 1][2] \in A[i][2] + 1 .. LastOf(A[i]) + 1
    <3>1. i \in 1 .. n /\ i + 1 \in 1 .. n /\ i < i + 1
      BY <1>n
    <3>2. key[i] < key[i + 1]
      BY <1>5, <3>1
    <3>5. /\ A[i][2] \in 1 .. Length[c] /\ LastOf(A[i]) \in A[i][2] .. Length[c]
          /\ A[i + 1][2] \in 1 .. Length[c]
          /\ key[i] = isn[c] + A[i][2] /\ key[i + 1] = isn[c] + A[i + 1][2]
      BY <2>0, <3>1
    <3>3. A[i][2] + 1 <= A[i + 1][2]
      BY <1>0, <3>2, <3>5, SMTT(60)
    <3>4. A[i + 1][2] <= LastOf(A[i]) + 1
      <4>1. CASE LastOf(A[i]) # Length[c]
        BY <2>1, <3>1, <4>1
      <4>2. CASE LastOf(A[i]) = Length[c]
        BY <1>0, <3>5, <4>2
      <4> QED BY <4>1, <4>2
    <3>6. A[i][2] + 1 \in Int /\ LastOf(A[i]) + 1 \in Int /\ A[i + 1][2] \in Int
      BY <1>0, <3>5
    <3>7. \A x, y, z \in Int : x <= z /\ z <= y => z \in x .. y
      OBVIOUS
    <3> QED BY <3>3, <3>4, <3>6, <3>7, Zenon
  <2> QED BY <1>7, <2>2, <2>3, <2>4 DEF Covers
<1>14. ASSUME c \notin recut PROVE Whole(c, A)
  <2>1. Covers(c, A)
    BY <1>13, <1>14, Unwrapped
  <2>2. ASSUME NEW i \in 1 .. Len(A) - 1 PROVE A[i + 1][2] = LastOf(A[i]) + 1
    <3>1. i \in 1 .. n /\ i + 1 \in 1 .. n
      BY <1>n, <1>7
    <3>2. /\ A[i] \in segments /\ A[i + 1] \in segments /\ A[i] \in Packets
          /\ A[i + 1] \in Packets /\ A[i][1] = c /\ A[i + 1][1] = c
          /\ HasData(A[i]) /\ HasData(A[i + 1])
      BY <1>6, <1>14, <3>1
    <3>3. A[i + 1][2] \in A[i][2] + 1 .. LastOf(A[i]) + 1
      BY <2>1, <2>2 DEF Covers
    <3>4. /\ A[i][2] \in 0 .. FinPos(c) /\ A[i][3] \in 0 .. FinPos(c)
          /\ A[i + 1][2] \in 0 .. FinPos(c) /\ A[i + 1][3] \in 0 .. FinPos(c)
          /\ A[i + 1][2] <= A[i + 1][3]
      BY <3>2, Packet
    <3>5. LastOf(A[i]) <= A[i][3] /\ LastOf(A[i]) \in A[i][2] .. Length[c]
      BY <3>2, Numbers
    <3>6. A[i][3] < A[i + 1][2] \/ A[i + 1][3] < A[i][2]
      <4>1. A[i] # A[i + 1]
        BY <1>0, <3>3, <3>4, <3>5
      <4> QED BY <3>2, <4>1 DEF NetInv
    <3>7. IsFin(A[i]) \/ LastOf(A[i]) = A[i][3]
      BY <3>2, Numbers
    <3>8. IsFin(A[i]) => A[i][3] = Length[c] + 1
      BY <3>2, Numbers
    <3>9. A[i + 1][2] <= Length[c]
      BY <3>2, Numbers
    <3>10. /\ A[i][2] \in Nat /\ A[i][3] \in Nat /\ A[i + 1][2] \in Nat
           /\ A[i + 1][3] \in Nat /\ LastOf(A[i]) \in Nat /\ Length[c] \in Nat
      BY <1>0, <3>4, <3>5
    <3>11. A[i][2] < A[i + 1][2] /\ A[i + 1][2] <= LastOf(A[i]) + 1
      BY <3>3, <3>10
    <3>12. A[i][3] < A[i + 1][2]
      BY <3>4, <3>6, <3>10, <3>11
    <3>13. LastOf(A[i]) = A[i][3]
      BY <3>7, <3>8, <3>9, <3>10, <3>12
    <3> QED BY <3>10, <3>11, <3>12, <3>13
  <2> QED BY <2>1, <2>2 DEF Whole
<1>15. ASSUME isn[c] + Length[c] < SeqSpace PROVE Covers(c, A)
  BY <1>13, <1>15, Unwrapped
<1> QED BY <1>12, <1>14, <1>15 DEF IsJob
-----------------------------------------------------------------------------
(* The steps of the sender, the network and the capture.                   *)

\* A slot that is not touched stays one of its connection.
LEMMA SlotKept ==
  ASSUME SlotInv, UNCHANGED <<isn, slot>>, segments \subseteq segments', recut \subseteq recut'
  PROVE  SlotInv'
<1>1. \A p : SeqNum(p)' = SeqNum(p) /\ NextNum(p)' = NextNum(p)
  BY DEF NextNum, SeqNum, Num
<1>2. \A c, k : Num(c, k)' = Num(c, k)
  BY DEF Num
<1> QED BY <1>1, <1>2 DEF SlotInv, SlotOf, SeqNum, NextNum, Num, slot

\* A new content is one of its connection if it was before it was written.
LEMMA SlotTaken ==
  ASSUME NEW c \in Conns, NEW pkts, NEW sums, SlotOf(c, pkts, sums),
         UNCHANGED <<isn, segments, recut>>, port' = c, packet' = pkts, checksum' = sums
  PROVE  SlotInv'
BY DEF SlotInv, SlotOf, SeqNum, NextNum, Num

\* What the callback does and has done is not touched by a packet that only
\* fills the slot, and by nothing that happens outside the capture.
LEMMA JobsKept ==
  ASSUME PayloadInv, FreshInv, ForwardedIsOneJob, ForwardedOnce,
         UNCHANGED <<isn, listener, payload, forwarded>>, recut \subseteq recut'
  PROVE  PayloadInv' /\ FreshInv' /\ ForwardedIsOneJob' /\ ForwardedOnce'
<1>1. PayloadInv'
  BY DEF PayloadInv, IsJob
<1>2. ForwardedIsOneJob'
  BY DEF ForwardedIsOneJob, IsJob
<1> QED BY <1>1, <1>2 DEF FreshInv, ForwardedOnce

\* A spent connection stays spent if the slot is not given to it.
LEMMA SpentKept ==
  ASSUME SpentInv, UNCHANGED <<payload, forwarded>>,
         \A c \in Conns : sent'[c] >= sent[c] /\ sent[c] \in Nat /\ sent'[c] \in Nat,
         \A c \in Conns : port' = c => port = c \/ sent[c] = 1
  PROVE  SpentInv'
BY DEF SpentInv

\* A job is that of one connection.
LEMMA OneConnection ==
  ASSUME NEW job \in Seq(Packets), NEW c, NEW d, JobOf(c, job), JobOf(d, job)
  PROVE  c = d
<1>1. 1 \in DOMAIN job
  BY DEF JobOf
<1> QED BY <1>1 DEF JobOf

\* A sender's step.
LEMMA StepSend ==
  ASSUME StreamInv, NEW c \in Conns, Send(c) PROVE StreamInv'
<1>0. /\ TypeOK /\ NetInv /\ SlotInv /\ PayloadInv /\ SpentInv /\ FreshInv
      /\ ForwardedIsOneJob /\ ForwardedOnce
  BY DEF StreamInv
<1>a. PICK cut \in Cuts(c) :
        /\ cut[1] = sent[c]
        /\ <<c, 0, 0>> \notin wire
        /\ sent' = [sent EXCEPT ![c] = cut[2] + 1]
        /\ wire' = wire \cup {<<c, cut[1], cut[2]>>}
        /\ segments' = segments \cup {<<c, cut[1], cut[2]>>}
        /\ UNCHANGED <<isn, repeats, recut, slot, listener, payload, forwarded, disturbed>>
  BY DEF Send
<1> DEFINE q == <<c, cut[1], cut[2]>>
<1>b. /\ q \in Packets /\ q[1] = c /\ q[2] = sent[c] /\ q[3] \in 0 .. FinPos(c)
      /\ sent[c] <= q[3] /\ (sent[c] = 0 <=> q[3] = 0)
  BY <1>a, Packet
<1>1. /\ sent' = [sent EXCEPT ![c] = q[3] + 1] /\ sent \in [Conns -> Nat]
      /\ <<c, 0, 0>> \notin wire /\ wire' = wire \cup {q} /\ segments' = segments \cup {q}
      /\ UNCHANGED <<isn, repeats, recut, slot, listener, payload, forwarded, disturbed>>
      /\ q[3] \in Nat /\ isn \in Isns /\ wire \subseteq Packets /\ segments \subseteq Packets
  <2>1. isn \in Isns /\ wire \subseteq Packets /\ segments \subseteq Packets
        /\ sent \in [Conns -> Nat]
    BY <1>0 DEF TypeOK
  <2>2. q[3] \in Nat
    <3>1. FinPos(c) \in Nat
      BY <2>1, Bounds
    <3> HIDE DEF q
    <3> QED BY <1>b, <3>1
  <2>3. q[3] = cut[2] /\ q = <<c, cut[1], cut[2]>>
    OBVIOUS
  <2> HIDE DEF q
  <2> QED BY <1>a, <2>1, <2>2, <2>3
<1> HIDE DEF q
<1>2. sent' \in [Conns -> Nat] /\ \A d \in Conns : sent'[d] >= sent[d]
  <2>1. sent'[c] = q[3] + 1 /\ \A d \in Conns : d # c => sent'[d] = sent[d]
    BY <1>1
  <2>2. sent[c] \in Nat
    BY <1>1
  <2> QED BY <1>1, <1>b, <2>1, <2>2
<1>3. TypeOK'
  <2>1. \A d \in Conns : sent'[d] <= FinPos(d) + 1
    BY <1>0, <1>1, <1>b, Bounds DEF TypeOK
  <2>2. wire' \subseteq Packets /\ segments' \subseteq Packets
    BY <1>1, <1>b
  <2> QED BY <1>0, <1>1, <1>2, <2>1, <2>2 DEF TypeOK, slot
<1>s. sent'[c] = q[3] + 1 /\ sent[c] \in Nat /\ q[3] < sent'[c] /\ sent[c] <= q[3]
  BY <1>1, <1>b
\* Packets sent before end before the place that was the next one.
<1>p. ASSUME NEW p \in Packets, p[3] < sent[p[1]]
      PROVE  /\ p[1] \in Conns /\ p[2] \in Nat /\ p[3] \in Nat /\ p[2] <= p[3]
             /\ p[3] < sent'[p[1]] /\ (p[1] = c => p[3] < q[2])
             /\ (p[1] # c => sent'[p[1]] = sent[p[1]])
             /\ p = <<p[1], p[2], p[3]>> /\ (p[2] = 0 => p[3] = 0)
  <2>1. p[1] \in Conns /\ p[2] \in Nat /\ p[3] \in Nat /\ p[2] <= p[3]
        /\ p = <<p[1], p[2], p[3]>> /\ (p[2] = 0 => p[3] = 0)
    BY <1>1, Packet, Bounds
  <2>2. sent[p[1]] \in Nat /\ sent'[p[1]] \in Nat /\ sent'[p[1]] >= sent[p[1]]
    BY <1>1, <1>2, <2>1
  <2>3. p[1] # c => sent'[p[1]] = sent[p[1]]
    BY <1>1, <2>1
  <2> QED BY <1>b, <1>p, <2>1, <2>2, <2>3
<1>4. NetInv'
  <2>1. ASSUME NEW p \in wire'
        PROVE  /\ p[3] < sent'[p[1]] /\ (p[2] = 0 => sent'[p[1]] = 1)
               /\ p[1] \notin recut' => p \in segments'
    <3>1. CASE p = q
      BY <1>1, <1>b, <1>s, <3>1
    <3>2. CASE p \in wire
      <4>1. p \in Packets /\ p[3] < sent[p[1]] /\ (p[2] = 0 => sent[p[1]] = 1)
            /\ (p[1] \notin recut => p \in segments)
        BY <1>0, <1>1, <3>2 DEF NetInv
      <4>2. p[2] = 0 => p[1] # c
        <5>1. p[2] = 0 /\ p[1] = c => p = <<c, 0, 0>>
          BY <1>p, <4>1
        <5> QED BY <1>1, <3>2, <5>1
      <4> QED BY <1>1, <1>p, <4>1, <4>2
    <3> QED BY <1>1, <3>1, <3>2
  <2>2. ASSUME NEW p \in segments'
        PROVE  /\ p[3] < sent'[p[1]]
               /\ p[3] + 1 < sent'[p[1]] =>
                    \E r \in segments' : r[1] = p[1] /\ r[2] = p[3] + 1
    <3>1. CASE p = q
      BY <1>1, <1>b, <1>s, <3>1
    <3>2. CASE p \in segments
      <4>1. /\ p \in Packets /\ p[3] < sent[p[1]]
            /\ p[3] + 1 < sent[p[1]] =>
                 \E r \in segments : r[1] = p[1] /\ r[2] = p[3] + 1
        BY <1>0, <1>1, <3>2 DEF NetInv
      <4>2. p[3] + 1 = sent[p[1]] \/ p[3] + 1 < sent[p[1]]
        <5>1. p[3] \in Nat /\ sent[p[1]] \in Nat
          BY <1>1, <1>p, <4>1
        <5> QED BY <4>1, <5>1
      <4>3. CASE p[3] + 1 < sent[p[1]]
        BY <1>1, <1>p, <4>1, <4>3
      <4>4. CASE p[3] + 1 = sent[p[1]]
        <5>1. CASE p[1] = c
          BY <1>1, <1>b, <1>p, <4>1, <4>4, <5>1
        <5>2. CASE p[1] # c
          <6>1. p[3] \in Nat /\ sent'[p[1]] = sent[p[1]] /\ p[3] < sent'[p[1]]
            BY <1>p, <4>1, <5>2
          <6> QED BY <4>4, <6>1
        <5> QED BY <5>1, <5>2
      <4> QED BY <4>2, <4>3, <4>4
    <3> QED BY <1>1, <3>1, <3>2
  <2>3. ASSUME NEW p \in segments', NEW r \in segments', p[1] = r[1]
        PROVE  p = r \/ p[3] < r[2] \/ r[3] < p[2]
    <3>1. ASSUME NEW s \in segments, s[1] = c PROVE s[3] < q[2]
      BY <1>0, <1>1, <1>p, <3>1 DEF NetInv
    <3>2. CASE p \in segments /\ r \in segments
      BY <1>0, <2>3, <3>2 DEF NetInv
    <3>3. CASE p = q \/ r = q
      BY <1>1, <1>b, <2>3, <3>1, <3>3
    <3> QED BY <1>1, <3>2, <3>3
  <2>4. recut' \subseteq disturbed'
    BY <1>0, <1>1 DEF NetInv
  <2> QED BY <2>1, <2>2, <2>3, <2>4 DEF NetInv
<1>5. SlotInv'
  BY <1>0, <1>1, SlotKept
<1>6. SpentInv'
  BY <1>0, <1>1, <1>2, SpentKept DEF slot
<1>7. PayloadInv' /\ FreshInv' /\ ForwardedIsOneJob' /\ ForwardedOnce'
  BY <1>0, <1>1, JobsKept
<1> QED BY <1>3, <1>4, <1>5, <1>6, <1>7 DEF StreamInv

\* Packets that are repeated or lost.
LEMMA StepNetwork ==
  ASSUME StreamInv, NEW p \in Packets, Retransmit(p) \/ Miss(p) PROVE StreamInv'
<1>0. /\ TypeOK /\ NetInv /\ SlotInv /\ PayloadInv /\ SpentInv /\ FreshInv
      /\ ForwardedIsOneJob /\ ForwardedOnce
  BY DEF StreamInv
<1>1. /\ UNCHANGED <<isn, sent, segments, slot, listener, payload, forwarded>>
      /\ wire' \subseteq wire \cup {p} /\ repeats' \in Nat
      /\ disturbed' = disturbed \cup {p[1]}
      /\ p \in wire' => p \in wire
           \/ (/\ p[3] < sent[p[1]] /\ (p[2] = 0 => sent[p[1]] = 1)
               /\ (p \in segments \/ p[1] \in recut'))
      /\ recut \subseteq recut' /\ recut' \subseteq recut \cup {p[1]}
  BY <1>0 DEF Retransmit, Miss, TypeOK
<1>2. TypeOK'
  <2>1. /\ wire' \subseteq Packets /\ disturbed' \subseteq Conns /\ recut' \subseteq Conns
        /\ segments' \subseteq Packets
    BY <1>0, <1>1, Packet DEF TypeOK
  <2> QED BY <1>0, <1>1, <2>1 DEF TypeOK, slot
<1>3. NetInv'
  <2>1. ASSUME NEW r \in wire'
        PROVE  /\ r[3] < sent'[r[1]] /\ (r[2] = 0 => sent'[r[1]] = 1)
               /\ r[1] \notin recut' => r \in segments'
    BY <1>0, <1>1 DEF NetInv
  <2>2. recut' \subseteq disturbed'
    BY <1>0, <1>1 DEF NetInv
  <2> QED BY <1>0, <1>1, <2>1, <2>2 DEF NetInv
<1>4. SlotInv'
  BY <1>0, <1>1, SlotKept
<1>5. SpentInv'
  <2>1. \A c \in Conns : sent[c] \in Nat
    BY <1>0 DEF TypeOK
  <2> QED BY <1>0, <1>1, <2>1, SpentKept DEF slot
<1>6. PayloadInv' /\ FreshInv' /\ ForwardedIsOneJob' /\ ForwardedOnce'
  BY <1>0, <1>1, JobsKept
<1> QED BY <1>2, <1>3, <1>4, <1>5, <1>6 DEF StreamInv

\* A packet that is processed.
LEMMA StepPacket ==
  ASSUME StreamInv, NEW p \in wire, ProcessPacket(p) PROVE StreamInv'
<1> DEFINE c == p[1]
           k == p[2]
<1>0. /\ TypeOK /\ NetInv /\ SlotInv /\ PayloadInv /\ SpentInv /\ FreshInv
      /\ ForwardedIsOneJob /\ ForwardedOnce
  BY DEF StreamInv
<1>1. /\ c \in Conns /\ k \in 0 .. FinPos(c) /\ p \in Packets
      /\ k \in Nat /\ p[3] < sent[c] /\ k <= p[3] /\ p[3] \in Nat /\ (k = 0 => sent[c] = 1)
      /\ c \notin recut => p \in segments
  <2>1. p \in Packets /\ isn \in Isns
    BY <1>0 DEF TypeOK
  <2>2. c \in Conns /\ k \in 0 .. FinPos(c) /\ p[3] \in 0 .. FinPos(c) /\ k <= p[3]
    BY <2>1, Packet
  <2>3. FinPos(c) \in Nat
    BY <2>1, <2>2, Bounds
  <2>4. k \in Nat /\ p[3] \in Nat
    BY <2>2, <2>3
  <2> QED BY <1>0, <2>1, <2>2, <2>4 DEF NetInv
<1>2. /\ UNCHANGED <<isn, sent, segments, repeats, recut, forwarded>> /\ wire' \subseteq wire
      /\ TakeSyn(p) \/ TakeData(p) \/ TakeFin(p) \/ IgnoreOther(p)
      /\ disturbed \subseteq disturbed'
      /\ disturbed' \subseteq disturbed \cup {c} \cup ({port} \ {NoConn})
      /\ listener = "capture" /\ isn \in Isns
  BY <1>0 DEF ProcessPacket, TypeOK
<1>3. NoConn \notin Conns /\ \A d \in Conns : sent[d] \in Nat
  BY <1>0, ConnsAssumption DEF TypeOK
<1>4. wire' \subseteq Packets /\ disturbed' \subseteq Conns /\ NetInv'
  <2>1. wire' \subseteq Packets /\ disturbed' \subseteq Conns
    BY <1>0, <1>1, <1>2 DEF TypeOK
  <2>2. recut' \subseteq disturbed'
    BY <1>0, <1>2 DEF NetInv
  <2> QED BY <1>0, <1>2, <2>1, <2>2 DEF NetInv
<1> HIDE DEF c, k
\* It is enough to look at the slot and at the job that leaves it.
<1>5. ASSUME UNCHANGED <<listener, payload>>, SlotInv',
             port' \in Conns \cup {NoConn},
             DOMAIN packet' \subseteq DOMAIN checksum',
             \A s \in DOMAIN packet' : packet'[s] \in Packets,
             \A s \in DOMAIN checksum' : checksum'[s] \in {0, 1} /\ s \in Nat,
             \A d \in Conns : port' = d => port = d \/ sent[d] = 1
      PROVE  StreamInv'
  <2>1. TypeOK'
    BY <1>0, <1>2, <1>4, <1>5 DEF TypeOK
  <2>2. SpentInv'
    <3>1. \A d \in Conns : sent'[d] >= sent[d] /\ sent[d] \in Nat /\ sent'[d] \in Nat
      BY <1>2, <1>3
    <3> QED BY <1>0, <1>2, <1>5, <3>1, SpentKept
  <2>3. PayloadInv' /\ FreshInv' /\ ForwardedIsOneJob' /\ ForwardedOnce'
    BY <1>0, <1>2, <1>5, JobsKept
  <2> QED BY <1>4, <1>5, <2>1, <2>2, <2>3 DEF StreamInv
<1>6. CASE TakeSyn(p)
  <2>1. /\ port' = c /\ packet' = EmptyMap /\ k = 0 /\ UNCHANGED <<listener, payload>>
        /\ checksum' = Put(EmptyMap, Num(c, 0) + 1, 0)
    BY <1>6 DEF TakeSyn, c, k, SeqNum
  <2>2. SlotInv'
    BY <1>1, <1>2, <2>1, SlotSyn, SlotTaken
  <2>3. Num(c, 0) + 1 \in Nat
    <3>1. 0 \in 0 .. FinPos(c) /\ SeqSpace \in Nat
      BY <1>1, <1>2, Bounds
    <3>2. Num(c, 0) \in 0 .. SeqSpace - 1
      BY <1>1, <1>2, <3>1, SeqNums
    <3> QED BY <3>1, <3>2
  <2>4. DOMAIN packet' = {} /\ DOMAIN checksum' = {Num(c, 0) + 1}
        /\ checksum'[Num(c, 0) + 1] = 0
    BY <2>1 DEF Put, EmptyMap
  <2>5. \A d \in Conns : port' = d => port = d \/ sent[d] = 1
    BY <1>1, <2>1
  <2> QED BY <1>1, <1>5, <2>1, <2>2, <2>3, <2>4, <2>5
<1>7. ASSUME k > 0, c = port
      PROVE  /\ SlotOf(c, Stored(p), Marked(p))
             /\ port' = port /\ packet' = Stored(p) /\ checksum' = Marked(p)
                /\ UNCHANGED <<listener, payload>> => StreamInv'
  <2>1. SlotOf(c, packet, checksum) /\ \A s \in DOMAIN checksum : checksum[s] \in {0, 1} /\ s \in Nat
    BY <1>0, <1>1, <1>7 DEF SlotInv, TypeOK
  <2>2. /\ SlotOf(c, Stored(p), Marked(p))
        /\ \A s \in DOMAIN Marked(p) : Marked(p)[s] \in {0, 1} /\ s \in Nat
    BY <1>1, <1>2, <1>7, <2>1, SlotSegment DEF c, k
  <2>3. \A s \in DOMAIN Stored(p) : s \in DOMAIN Marked(p) /\ Stored(p)[s] \in Packets
    BY <2>2 DEF SlotOf
  <2>4. ASSUME port' = port, packet' = Stored(p), checksum' = Marked(p),
               UNCHANGED <<listener, payload>>
        PROVE  StreamInv'
    <3>1. SlotInv'
      BY <1>1, <1>2, <1>7, <2>2, <2>4, SlotTaken
    <3> QED BY <1>1, <1>5, <1>7, <2>2, <2>3, <2>4, <3>1
  <2> QED BY <2>2, <2>4
<1>8. CASE TakeData(p)
  <2>1. /\ k > 0 /\ c = port /\ port' = port
        /\ packet' = Stored(p) /\ checksum' = Marked(p) /\ UNCHANGED <<listener, payload>>
    BY <1>8 DEF TakeData, c, k
  <2> QED BY <1>7, <2>1
<1>9. CASE TakeFin(p)
  <2>1. k > 0 /\ c = port
    BY <1>9 DEF TakeFin, c, k
  <2>2. CASE ~(\A s \in DOMAIN Marked(p) : Marked(p)[s] = 1)
    <3>1. /\ port' = port /\ packet' = Stored(p) /\ checksum' = Marked(p)
          /\ UNCHANGED <<listener, payload>>
      BY <1>9, <2>2 DEF TakeFin
    <3> QED BY <1>7, <2>1, <3>1
  <2>3. CASE \A s \in DOMAIN Marked(p) : Marked(p)[s] = 1
    <3>1. /\ payload' = Assembled(Stored(p), Marked(p)) /\ listener' = "decode"
          /\ packet' = EmptyMap /\ checksum' = EmptyMap /\ port' = NoConn
      BY <1>9, <2>3 DEF TakeFin
    <3>2. payload' \in Seq(Packets) /\ (payload' # << >> => IsJob(c, payload'))
      BY <1>0, <1>1, <1>2, <1>7, <2>1, <2>3, <3>1, AssembledJob
    <3>3. DOMAIN EmptyMap = {}
      BY DEF EmptyMap
    <3>4. \A d \in Conns : JobOf(d, payload') => d = c
      <4>1. ASSUME NEW d \in Conns, JobOf(d, payload') PROVE d = c
        <5>1. payload' # << >>
          BY <4>1 DEF JobOf
        <5>2. JobOf(c, payload')
          BY <3>2, <5>1 DEF IsJob
        <5> QED BY <3>2, <4>1, <5>2, OneConnection
      <4> QED BY <4>1
    <3>5. TypeOK'
      BY <1>0, <1>2, <1>4, <3>1, <3>2, <3>3 DEF TypeOK
    <3>6. SlotInv'
      BY <1>3, <3>1 DEF SlotInv
    <3>7. PayloadInv'
      <4>1. payload' # << >> => \E d \in Conns : IsJob(d, payload)'
        BY <1>1, <1>2, <3>2 DEF IsJob
      <4> QED BY <3>1, <4>1 DEF PayloadInv
    <3>8. SpentInv'
      <4>1. sent[c] > 1
        <5>1. sent[c] \in Nat
          BY <1>1, <1>3
        <5> QED BY <1>1, <2>1, <5>1
      <4>2. \A d \in Conns : port' # d
        BY <1>3, <3>1
      <4>3. ASSUME NEW d \in Conns,
                   JobOf(d, payload') \/ (\E i \in DOMAIN forwarded' : JobOf(d, forwarded'[i]))
            PROVE  sent'[d] > 1
        BY <1>0, <1>2, <3>4, <4>1, <4>3 DEF SpentInv
      <4> QED BY <4>2, <4>3 DEF SpentInv
    <3>9. FreshInv'
      <4>1. \A i \in DOMAIN forwarded : ~JobOf(c, forwarded[i])
        BY <1>0, <1>1, <2>1 DEF SpentInv
      <4> QED BY <1>2, <3>4, <4>1 DEF FreshInv
    <3>10. ForwardedIsOneJob' /\ ForwardedOnce'
      BY <1>0, <1>2 DEF ForwardedIsOneJob, ForwardedOnce, IsJob
    <3> QED BY <1>4, <3>5, <3>6, <3>7, <3>8, <3>9, <3>10 DEF StreamInv
  <2> QED BY <2>2, <2>3
<1>10. CASE IgnoreOther(p)
  <2>1. UNCHANGED <<slot, listener, payload>>
    BY <1>10 DEF IgnoreOther
  <2>2. SlotInv'
    BY <1>0, <1>2, <2>1, SlotKept
  <2>3. \A s \in DOMAIN checksum : checksum[s] \in {0, 1} /\ s \in Nat
    BY <1>0 DEF TypeOK
  <2> QED BY <1>0, <1>5, <2>1, <2>2, <2>3 DEF TypeOK, slot
<1> QED BY <1>2, <1>6, <1>8, <1>9, <1>10

\* The callback looks at a job, sends it, and is answered.
LEMMA StepPayload ==
  ASSUME StreamInv, Decode \/ Forward \/ Confirm PROVE StreamInv'
<1>0. /\ TypeOK /\ NetInv /\ SlotInv /\ PayloadInv /\ SpentInv /\ FreshInv
      /\ ForwardedIsOneJob /\ ForwardedOnce
  BY DEF StreamInv
<1>1. UNCHANGED <<isn, sent, segments, repeats, wire, recut, slot, payload>>
      /\ disturbed \subseteq disturbed'
  BY DEF Decode, Forward, Confirm, net
<1>2. NetInv' /\ SlotInv'
  <2>1. recut' \subseteq disturbed'
    BY <1>0, <1>1 DEF NetInv
  <2>2. NetInv'
    BY <1>0, <1>1, <2>1 DEF NetInv
  <2> QED BY <1>0, <1>1, <2>2, SlotKept
<1>3. isn \in Isns /\ \A c \in Calls : c \in Conns
  BY <1>0, ConnsAssumption DEF TypeOK
\* Whose job it is can be seen in its first packet.
<1>4. ASSUME NEW c \in Conns, IsJob(c, payload) PROVE payload[1][1] = c
  <2>1. payload \in Seq(Packets)
    BY <1>0 DEF TypeOK
  <2>2. 1 \in DOMAIN payload
    BY <1>4, <2>1 DEF IsJob, JobOf
  <2> QED BY <1>4, <2>2 DEF IsJob, JobOf
\* A step that sends no job.
<1>5. ASSUME forwarded' = forwarded, disturbed' \subseteq Conns,
             listener' \in {"capture", "connect"},
             listener' = "connect" =>
               listener = "decode" /\ payload # << >> /\ payload[1][1] \in Calls
      PROVE  StreamInv'
  <2>1. TypeOK'
    BY <1>0, <1>1, <1>5 DEF TypeOK, slot
  <2>2. PayloadInv'
    <3>1. ASSUME listener' \in {"connect", "confirm"} PROVE \E c \in Calls : IsJob(c, payload)'
      <4>1. listener = "decode" /\ payload # << >> /\ payload[1][1] \in Calls
        BY <1>5, <3>1
      <4>2. PICK c \in Conns : IsJob(c, payload)
        BY <1>0, <4>1 DEF PayloadInv
      <4>3. c \in Calls
        BY <1>4, <4>1, <4>2
      <4> QED BY <1>1, <4>2, <4>3 DEF IsJob
    <3>2. payload' # << >> => \E c \in Conns : IsJob(c, payload)'
      BY <1>0, <1>1 DEF PayloadInv, IsJob
    <3> QED BY <3>1, <3>2 DEF PayloadInv
  <2>3. SpentInv'
    BY <1>0, <1>1, <1>5 DEF SpentInv, slot
  <2>4. FreshInv' /\ ForwardedOnce'
    BY <1>0, <1>1, <1>5 DEF FreshInv, ForwardedOnce
  <2>5. ForwardedIsOneJob'
    BY <1>0, <1>1, <1>5 DEF ForwardedIsOneJob, IsJob
  <2> QED BY <1>2, <2>1, <2>2, <2>3, <2>4, <2>5 DEF StreamInv
<1>6. CASE Decode
  BY <1>0, <1>5, <1>6 DEF Decode, TypeOK
<1>7. CASE Confirm
  BY <1>0, <1>5, <1>7 DEF Confirm, TypeOK
<1>8. CASE Forward
  <2>1. PICK c \in Calls : IsJob(c, payload)
    BY <1>0, <1>8 DEF PayloadInv, Forward
  <2>2. c \in Conns /\ payload[1][1] = c /\ JobOf(c, payload)
    BY <1>3, <1>4, <2>1 DEF IsJob
  <2>3. CASE listener' = "capture" /\ forwarded' = forwarded
                /\ disturbed' = disturbed \cup {payload[1][1]}
    BY <1>0, <1>5, <2>2, <2>3 DEF TypeOK
  <2>4. CASE listener' = "confirm" /\ forwarded' = Append(forwarded, payload)
                /\ disturbed' = disturbed
    <3> DEFINE n == Len(forwarded)
    <3>1. /\ payload \in Seq(Packets) /\ forwarded \in Seq(Seq(Packets))
      BY <1>0 DEF TypeOK
    <3>2. /\ DOMAIN forwarded = 1 .. n /\ n \in Nat
          /\ DOMAIN forwarded' = 1 .. n + 1 /\ forwarded'[n + 1] = payload
          /\ \A i \in 1 .. n : forwarded'[i] = forwarded[i]
          /\ forwarded' \in Seq(Seq(Packets))
      BY <2>4, <3>1
    <3> HIDE DEF n
    <3>3. TypeOK'
      BY <1>0, <1>1, <2>4, <3>2 DEF TypeOK, slot
    <3>4. PayloadInv'
      <4>1. IsJob(c, payload)'
        BY <1>1, <2>1 DEF IsJob
      <4> QED BY <2>2, <4>1 DEF PayloadInv
    <3>5. SpentInv'
      <4>1. ASSUME NEW d \in Conns, NEW i \in DOMAIN forwarded', JobOf(d, forwarded'[i])
            PROVE  JobOf(d, payload) \/ \E j \in DOMAIN forwarded : JobOf(d, forwarded[j])
        <5>1. CASE i = n + 1
          BY <3>2, <4>1, <5>1
        <5>2. CASE i \in 1 .. n
          BY <3>2, <4>1, <5>2
        <5> QED BY <3>2, <5>1, <5>2
      <4> QED BY <1>0, <1>1, <4>1 DEF SpentInv, slot
    <3>6. FreshInv'
      BY <2>4 DEF FreshInv
    <3>7. ForwardedIsOneJob'
      <4>1. ASSUME NEW i \in 1 .. n + 1 PROVE \E d \in Calls : IsJob(d, forwarded'[i])
        <5>1. CASE i = n + 1
          BY <2>1, <3>2, <5>1
        <5>2. CASE i \in 1 .. n
          BY <1>0, <3>2, <5>2 DEF ForwardedIsOneJob
        <5> QED BY <3>2, <5>1, <5>2
      <4> QED BY <1>1, <3>2, <4>1 DEF ForwardedIsOneJob, IsJob
    <3>8. ForwardedOnce'
      <4>1. \A i \in 1 .. n : ~JobOf(c, forwarded[i])
        BY <1>0, <1>8, <2>2, <3>2 DEF FreshInv, Forward
      <4>2. \A i, j \in 1 .. n : \A d \in Conns :
              JobOf(d, forwarded[i]) /\ JobOf(d, forwarded[j]) => i = j
        BY <1>0, <3>2 DEF ForwardedOnce
      <4>3. \A d \in Conns : JobOf(d, payload) => d = c
        BY <2>2, <3>1, OneConnection
      <4>4. ASSUME NEW i \in 1 .. n + 1, NEW j \in 1 .. n + 1, NEW d \in Conns,
                   JobOf(d, forwarded'[i]), JobOf(d, forwarded'[j])
            PROVE  i = j
        <5>1. CASE i \in 1 .. n /\ j \in 1 .. n
          BY <3>2, <4>2, <4>4, <5>1
        <5>2. CASE i = n + 1 /\ j \in 1 .. n
          BY <3>2, <4>1, <4>3, <4>4, <5>2
        <5>3. CASE i \in 1 .. n /\ j = n + 1
          BY <3>2, <4>1, <4>3, <4>4, <5>3
        <5> QED BY <3>2, <5>1, <5>2, <5>3
      <4> QED BY <3>2, <4>4 DEF ForwardedOnce
    <3> QED BY <1>2, <3>3, <3>4, <3>5, <3>6, <3>7, <3>8 DEF StreamInv
  <2> QED BY <1>8, <2>3, <2>4 DEF Forward
<1> QED BY <1>6, <1>7, <1>8

\* The start of the capture.
LEMMA StreamStart == Init => StreamInv
<1> SUFFICES ASSUME Init PROVE StreamInv
  OBVIOUS
<1>1. TypeOK
  BY Bounds DEF Init, TypeOK, EmptyMap
<1>2. NetInv /\ SlotInv
  BY ConnsAssumption DEF Init, NetInv, SlotInv
<1>3. PayloadInv /\ FreshInv
  BY DEF Init, PayloadInv, FreshInv
<1>4. SpentInv
  BY DEF Init, SpentInv, JobOf
<1> QED BY <1>1, <1>2, <1>3, <1>4 DEF Init, StreamInv, ForwardedIsOneJob, ForwardedOnce

\* Steps that change nothing.
LEMMA StreamStutter == StreamInv /\ UNCHANGED vars => StreamInv'
<1> SUFFICES ASSUME StreamInv, UNCHANGED vars PROVE StreamInv'
  OBVIOUS
<1>0. /\ TypeOK /\ NetInv /\ SlotInv /\ PayloadInv /\ SpentInv /\ FreshInv
      /\ ForwardedIsOneJob /\ ForwardedOnce
      /\ UNCHANGED <<isn, sent, segments, repeats, wire, recut, slot, listener, payload,
                     forwarded, disturbed>>
  BY DEF StreamInv, vars, slot
<1>1. TypeOK' /\ NetInv' /\ SpentInv'
  BY <1>0 DEF TypeOK, NetInv, SpentInv, slot
<1>2. SlotInv'
  BY <1>0, SlotKept
<1>3. PayloadInv' /\ FreshInv' /\ ForwardedIsOneJob' /\ ForwardedOnce'
  BY <1>0, JobsKept
<1> QED BY <1>1, <1>2, <1>3 DEF StreamInv

\* StreamInv is an invariant of the capture.
LEMMA StreamInvariant == Spec => []StreamInv
<1>1. Init => StreamInv
  BY StreamStart
<1>2. StreamInv /\ [Next]_vars => StreamInv'
  <2> SUFFICES ASSUME StreamInv, [Next]_vars PROVE StreamInv'
    OBVIOUS
  <2>1. ASSUME NEW c \in Conns, Send(c) PROVE StreamInv'
    BY <2>1, StepSend
  <2>2. ASSUME NEW p \in Packets, Retransmit(p) PROVE StreamInv'
    BY <2>2, StepNetwork
  <2>3. ASSUME NEW p \in wire, Miss(p) PROVE StreamInv'
    <3>1. p \in Packets
      BY DEF StreamInv, TypeOK
    <3> QED BY <2>3, <3>1, StepNetwork
  <2>4. ASSUME NEW p \in wire, ProcessPacket(p) PROVE StreamInv'
    BY <2>4, StepPacket
  <2>5. CASE Decode \/ Forward \/ Confirm
    BY <2>5, StepPayload
  <2>6. CASE UNCHANGED vars
    BY <2>6, StreamStutter
  <2> QED BY <2>1, <2>2, <2>3, <2>4, <2>5, <2>6 DEF Next, Listen
<1> QED BY <1>1, <1>2, PTL DEF Spec

\* The variables have their types, whatever the network does.
THEOREM TypeCorrect == Spec => []TypeOK
<1>1. StreamInv => TypeOK
  BY DEF StreamInv
<1> QED BY <1>1, StreamInvariant, PTL

\* What process_payload sends to the daemon is the data of one connection that
\* prints a call, in its order, wherever the sequence numbers wrap and however
\* the network loses, repeats or overtakes packets: every place once, as long as
\* the sender repeats packets as they were, and none left out as long as it does
\* or the numbers do not wrap.  process_pkt's checksum admits no more than that.
THEOREM OneJobIsForwarded == Spec => []ForwardedIsOneJob
<1>1. StreamInv => ForwardedIsOneJob
  BY DEF StreamInv
<1> QED BY <1>1, StreamInvariant, PTL

\* No two jobs of one connection are sent to the daemon: a connection whose job
\* left the slot is past its SYN, which alone could give it the slot again.
THEOREM JobsAreForwardedOnce == Spec => []ForwardedOnce
<1>1. StreamInv => ForwardedOnce
  BY DEF StreamInv
<1> QED BY <1>1, StreamInvariant, PTL
-----------------------------------------------------------------------------
(* No call is dropped.                                                     *)

\* The packets of c on their way stay the ones they were.
LEMMA WireKept ==
  ASSUME NEW c \in Conns, NEW n, InWire(c, n), sent'[c] = sent[c],
         segments \subseteq segments',
         \A p \in Packets : p[1] = c =>
           (p \in wire' <=> p \in wire) /\ (p \in segments' => p \in segments)
  PROVE  InWire(c, n)'
BY DEF InWire

\* A step that leaves alone the packets of c, the slot, and what was handed over.
LEMMA CallKept ==
  ASSUME NEW c \in Conns, InWire(c, 0) \/ Collected(c) \/ Handed(c),
         UNCHANGED <<isn, slot>>, Handed(c) => Handed(c)',
         \A n \in 0 .. FinPos(c) : InWire(c, n) => InWire(c, n)'
  PROVE  (InWire(c, 0) \/ Collected(c) \/ Handed(c))'
<1>1. 0 \in 0 .. FinPos(c) /\ 1 .. FinPos(c) \subseteq 0 .. FinPos(c)
  BY ConnsAssumption DEF FinPos
<1>2. InWire(c, 0) => InWire(c, 0)'
  BY <1>1
<1>3. ASSUME Collected(c) PROVE Collected(c)'
  <2>1. PICK n \in 1 .. FinPos(c) :
          /\ InWire(c, n)
          /\ isn[c] + n \in DOMAIN checksum
          /\ \A s \in DOMAIN checksum : s = isn[c] + n \/ (s < isn[c] + n /\ checksum[s] = 1)
    BY <1>3 DEF Collected
  <2>2. InWire(c, n)'
    BY <1>1, <2>1
  <2> QED BY <1>3, <2>1, <2>2 DEF Collected, slot
<1> QED BY <1>2, <1>3

\* The packets of a connection that come in order are processed one by one.
LEMMA WireNext ==
  ASSUME StreamInv, NEW c \in Conns, NEW n \in Nat, InWire(c, n),
         NEW p \in wire, p[1] = c, ProcessPacket(p), c \notin disturbed'
  PROVE  p[2] = n /\ InWire(c, p[3] + 1)'
<1>1. /\ wire' = wire \ {p} /\ sent' = sent /\ segments' = segments
      /\ \A q \in wire : q[1] = c => q[2] >= p[2]
  BY DEF ProcessPacket, InOrder
<1>0. isn \in Isns /\ wire \subseteq Packets /\ segments \subseteq Packets
      /\ sent[c] \in Nat /\ NetInv
  BY DEF StreamInv, TypeOK
<1>a. \A q \in Packets : q[1] = c =>
        q[2] \in Nat /\ q[3] \in Nat /\ q[2] <= q[3]
  BY <1>0, Packet, Bounds
<1>2. p \in Packets /\ p \in segments /\ n <= p[2] /\ p[3] < sent[c]
  BY <1>0 DEF InWire, NetInv
<1>p. p[2] \in Nat /\ p[3] \in Nat /\ p[2] <= p[3]
  BY <1>a, <1>2
<1>3. PICK q \in segments : q[1] = c /\ q[2] = n
  <2>1. n < sent[c]
    BY <1>0, <1>2, <1>p
  <2> QED BY <2>1 DEF InWire
<1>4. q \in wire
  <2>1. q \in Packets /\ n <= q[2]
    BY <1>0, <1>3
  <2> QED BY <1>3, <2>1 DEF InWire
<1>5. p[2] = n
  <2>1. n >= p[2]
    BY <1>1, <1>3, <1>4
  <2> QED BY <1>2, <1>p, <2>1
<1>6. ASSUME NEW x \in Packets, x[1] = c
      PROVE  x \in wire' <=> x \in segments' /\ p[3] + 1 <= x[2]
  <2>1. x[2] \in Nat /\ x[3] \in Nat /\ x[2] <= x[3]
    BY <1>a, <1>6
  <2>2. x \in wire <=> x \in segments /\ n <= x[2]
    BY <1>6 DEF InWire
  <2>3. x \in segments => x = p \/ x[3] < p[2] \/ p[3] < x[2]
    BY <1>0, <1>2, <1>6 DEF NetInv
  <2>4. x = p => ~(p[3] + 1 <= x[2])
    BY <1>p
  <2>5. ASSUME x \in wire' PROVE x \in segments' /\ p[3] + 1 <= x[2]
    BY <1>1, <1>5, <1>p, <2>1, <2>2, <2>3, <2>5
  <2>6. ASSUME x \in segments', p[3] + 1 <= x[2] PROVE x \in wire'
    BY <1>1, <1>5, <1>p, <2>1, <2>2, <2>4, <2>6
  <2> QED BY <2>5, <2>6
<1>7. p[3] + 1 <= sent'[c]
  BY <1>0, <1>1, <1>2, <1>p
<1>8. p[3] + 1 < sent'[c] => \E y \in segments' : y[1] = c /\ y[2] = p[3] + 1
  BY <1>0, <1>1, <1>2 DEF NetInv
<1> QED BY <1>5, <1>6, <1>7, <1>8 DEF InWire

\* A segment that is expected completes a job or leaves one that is collected.
LEMMA CallSegment ==
  ASSUME StreamInv, NEW c \in Calls, NEW n \in 1 .. FinPos(c), NEW p \in wire,
         p[1] = c, p[2] = n, ProcessPacket(p), isn[c] + FinPos(c) < SeqSpace,
         port = c, InWire(c, p[3] + 1)',
         isn[c] + n \in DOMAIN checksum,
         \A s \in DOMAIN checksum : s = isn[c] + n \/ (s < isn[c] + n /\ checksum[s] = 1)
  PROVE  Collected(c)' \/ Handed(c)'
<1>0. /\ isn \in Isns /\ isn' = isn /\ SlotOf(c, packet, checksum) /\ NetInv
      /\ \A s \in DOMAIN checksum : checksum[s] \in {0, 1} /\ s \in Nat
      /\ c \in Conns /\ Length[c] > 0 /\ p \in Packets
  BY ConnsAssumption DEF StreamInv, TypeOK, SlotInv, ProcessPacket
<1>1. /\ n \in Nat /\ isn[c] \in Nat /\ FinPos(c) \in Nat /\ n <= FinPos(c) /\ 1 <= n
      /\ FinPos(c) = Length[c] + 1
  BY <1>0, Bounds
<1>a. p[3] \in Nat /\ n <= p[3] /\ p[3] <= FinPos(c)
  BY <1>0, <1>1, Packet
<1>2. SeqNum(p) = isn[c] + n
  <2>1. n \in 0 .. FinPos(c) /\ isn[c] + n < SeqSpace
    BY <1>0, <1>1, Bounds
  <2>2. SeqNum(p) = Num(c, n)
    BY DEF SeqNum
  <2> QED BY <1>0, <2>1, <2>2, SeqNums
<1> DEFINE more == HasData(p) /\ ~IsFin(p)
<1>3. ASSUME more PROVE NextNum(p) = isn[c] + (p[3] + 1) /\ p[3] + 1 <= FinPos(c)
  <2>1. LastOf(p) = p[3] /\ p[3] <= Length[c] /\ NextNum(p) = SeqNum(p) + (LastOf(p) - n + 1)
    BY <1>0, <1>3, Numbers
  <2>2. NextNum(p) = (isn[c] + n) + (p[3] - n + 1)
    BY <1>2, <2>1
  <2> DEFINE l == p[3]
  <2>3. l \in Nat /\ l <= Length[c] /\ NextNum(p) = (isn[c] + n) + (l - n + 1)
    BY <1>a, <2>1, <2>2
  <2> HIDE DEF more, l
  <2>4. NextNum(p) = isn[c] + (l + 1) /\ l + 1 <= FinPos(c)
    BY <1>0, <1>1, <2>3, Bounds
  <2> QED BY <2>4 DEF l
<1>4. ~more => IsFin(p)
  <2>1. HasData(p) <=> n <= Length[c]
    BY <1>0, <1>1, Numbers
  <2>2. IsFin(p) <=> p[3] = FinPos(c)
    BY DEF IsFin
  <2> DEFINE l == p[3]
  <2>3. l \in Nat /\ n <= l /\ l <= FinPos(c)
    BY <1>a
  <2> HIDE DEF l
  <2>4. ~(n <= Length[c]) => l = FinPos(c)
    BY <1>0, <1>1, <2>3, Bounds
  <2> QED BY <2>1, <2>2, <2>4 DEF l
<1>5. /\ DOMAIN Marked(p) = DOMAIN checksum \cup {isn[c] + n}
                             \cup (IF more THEN {NextNum(p)} ELSE {})
      /\ Marked(p)[isn[c] + n] = 1
      /\ \A s \in DOMAIN checksum :
           s # isn[c] + n /\ (more => s # NextNum(p)) => Marked(p)[s] = checksum[s]
  BY <1>0, <1>2, Marks
<1>6. ASSUME NEW s \in DOMAIN Marked(p), more => s # NextNum(p)
      PROVE  s \in Nat /\ s <= isn[c] + n /\ Marked(p)[s] = 1
  <2>1. CASE s = isn[c] + n
    BY <1>1, <1>5, <2>1
  <2>2. CASE s # isn[c] + n
    <3>1. s \in DOMAIN checksum
      BY <1>5, <1>6, <2>2
    <3>2. s < isn[c] + n /\ checksum[s] = 1 /\ s \in Nat
      BY <1>0, <2>2, <3>1
    <3>3. Marked(p)[s] = checksum[s]
      BY <1>5, <1>6, <2>2, <3>1
    <3> QED BY <1>1, <3>2, <3>3
  <2> QED BY <2>1, <2>2
<1>7. TakeData(p) \/ TakeFin(p)
  BY <1>1 DEF ProcessPacket, TakeSyn, IgnoreOther
<1>8. CASE more
  <2>1. port' = c /\ checksum' = Marked(p)
    BY <1>7, <1>8 DEF TakeData, TakeFin
  <2> DEFINE m == p[3] + 1
  <2>2. m \in 1 .. FinPos(c) /\ NextNum(p) = isn[c] + m /\ isn[c] + n < isn[c] + m
    BY <1>1, <1>3, <1>8, <1>a
  <2>3. InWire(c, m)'
    OBVIOUS
  <2> HIDE DEF m
  <2>4. isn'[c] + m \in DOMAIN checksum'
    BY <1>0, <1>5, <1>8, <2>1, <2>2
  <2>5. ASSUME NEW s \in DOMAIN checksum', s # isn'[c] + m
        PROVE  s < isn'[c] + m /\ checksum'[s] = 1
    <3>1. s \in Nat /\ s <= isn[c] + n /\ Marked(p)[s] = 1
      BY <1>0, <1>6, <2>1, <2>2, <2>5
    <3> QED BY <1>0, <1>1, <2>1, <2>2, <3>1
  <2> QED BY <2>1, <2>2, <2>3, <2>4, <2>5 DEF Collected
<1>9. CASE ~more
  <2>1. \A s \in DOMAIN Marked(p) : Marked(p)[s] = 1
    BY <1>6, <1>9
  <2>2. payload' = Assembled(Stored(p), Marked(p)) /\ listener' = "decode"
    BY <1>4, <1>7, <1>9, <2>1 DEF TakeData, TakeFin
  <2>3. SlotOf(c, Stored(p), Marked(p))
    <3>1. p[2] > 0 /\ (p[1] \notin recut => p \in segments)
      BY <1>0, <1>1 DEF NetInv
    <3> QED BY <1>0, <3>1, SlotSegment
  <2>4. JobOf(c, payload')
    BY <1>0, <2>1, <2>2, <2>3, AssembledJob DEF IsJob
  <2> QED BY <2>2, <2>4 DEF Handed
<1> QED BY <1>8, <1>9

\* A packet that is processed, of the call's own connection or of another.
LEMMA CallPacket ==
  ASSUME StreamInv, NEW c \in Calls, Undisturbed(c)', NEW p \in wire, ProcessPacket(p),
         InWire(c, 0) \/ Collected(c) \/ Handed(c)
  PROVE  (InWire(c, 0) \/ Collected(c) \/ Handed(c))'
<1>1. /\ isn \in Isns /\ isn' = isn /\ sent' = sent /\ segments' = segments
      /\ forwarded' = forwarded
      /\ wire' = wire \ {p} /\ listener = "capture" /\ c \in Conns /\ p \in Packets
  BY ConnsAssumption DEF StreamInv, TypeOK, ProcessPacket
<1>2. c \notin disturbed' /\ isn[c] + FinPos(c) < SeqSpace
  BY <1>1 DEF Undisturbed
<1>4. Handed(c) => Handed(c)'
  BY <1>1 DEF Handed
<1>5. CASE p[1] # c
  <2>1. \A n \in 0 .. FinPos(c) : InWire(c, n) => InWire(c, n)'
    BY <1>1, <1>5, WireKept
  <2>2. CASE port # c
    <3>1. port' # c
      BY <1>1, <1>5, <2>2, ConnsAssumption
         DEF ProcessPacket, TakeSyn, TakeData, TakeFin, IgnoreOther, slot
    <3>2. 0 \in 0 .. FinPos(c)
      BY <1>1, Bounds
    <3> QED BY <1>4, <2>1, <2>2, <3>2 DEF Collected
  <2>3. CASE port = c
    <3>1. ~TakeSyn(p)
      BY <1>1, <1>2, <1>5, <2>3, ConnsAssumption DEF ProcessPacket, TakeSyn
    <3>2. UNCHANGED slot
      BY <1>5, <2>3, <3>1 DEF ProcessPacket, TakeData, TakeFin, IgnoreOther
    <3> QED BY <1>1, <1>4, <2>1, <3>2, CallKept
  <2> QED BY <2>2, <2>3
<1>6. CASE p[1] = c
  <2>2. CASE InWire(c, 0)
    <3>1. p[2] = 0 /\ InWire(c, p[3] + 1)'
      BY <1>1, <1>2, <1>6, <2>2, WireNext
    <3>2. p[3] = 0
      BY <1>1, <3>1, Packet
    <3>3. SeqNum(p) = isn[c]
      <4>1. 0 \in 0 .. FinPos(c) /\ isn[c] + 0 < SeqSpace /\ isn[c] + 0 = isn[c]
        BY <1>1, Bounds
      <4>2. SeqNum(p) = Num(c, 0)
        BY <1>6, <3>1 DEF SeqNum
      <4> QED BY <1>1, <4>1, <4>2, SeqNums
    <3>4. port' = c /\ checksum' = Put(EmptyMap, isn[c] + 1, 0)
      BY <1>6, <3>1, <3>3 DEF ProcessPacket, TakeSyn, TakeData, TakeFin, IgnoreOther
    <3>5. DOMAIN checksum' = {isn[c] + 1}
      BY <3>4 DEF Put, EmptyMap
    <3>6. p[3] + 1 = 1 /\ InWire(c, 1)' /\ 1 \in 1 .. FinPos(c)
      <4>1. p[3] + 1 = 1
        BY <3>2
      <4>2. 1 \in 1 .. FinPos(c)
        BY <1>1, Bounds
      <4> QED BY <3>1, <4>1, <4>2
    <3>7. Collected(c)'
      BY <1>1, <3>4, <3>5, <3>6 DEF Collected
    <3> QED BY <3>7
  <2>3. CASE Collected(c)
    <3>1. PICK n \in 1 .. FinPos(c) :
            /\ InWire(c, n)
            /\ isn[c] + n \in DOMAIN checksum
            /\ \A s \in DOMAIN checksum :
                 s = isn[c] + n \/ (s < isn[c] + n /\ checksum[s] = 1)
      BY <2>3 DEF Collected
    <3>2. n \in Nat /\ port = c
      BY <1>1, <2>3, Bounds DEF Collected
    <3>3. p[2] = n /\ InWire(c, p[3] + 1)'
      BY <1>1, <1>2, <1>6, <3>1, <3>2, WireNext
    <3> QED BY <1>1, <1>2, <1>6, <3>1, <3>2, <3>3, CallSegment
  <2> QED BY <1>4, <2>2, <2>3
<1> QED BY <1>5, <1>6

\* CallInv is an invariant of the capture, given StreamInv.
LEMMA CallInvariant == Spec => []CallInv
<1>1. Init => CallInv
  <2> SUFFICES ASSUME Init, NEW c \in Calls PROVE InWire(c, 0)
    BY DEF CallInv
  <2> QED BY ConnsAssumption DEF Init, InWire
<1>2. StreamInv /\ CallInv /\ [Next]_vars => CallInv'
  <2> SUFFICES ASSUME StreamInv, CallInv, [Next]_vars, NEW c \in Calls, Undisturbed(c)'
               PROVE  (InWire(c, 0) \/ Collected(c) \/ Handed(c))'
    BY DEF CallInv
  <2>0. /\ c \in Conns /\ isn \in Isns /\ isn' = isn /\ disturbed \subseteq disturbed'
        /\ sent \in [Conns -> Nat] /\ wire \subseteq Packets /\ segments \subseteq Packets
    BY ConnsAssumption DEF StreamInv, TypeOK, Next, Listen, Send, Retransmit, Miss,
       ProcessPacket, Decode, Forward, Confirm, net, vars
  <2>1. InWire(c, 0) \/ Collected(c) \/ Handed(c)
    BY <2>0 DEF CallInv, Undisturbed
  <2>2. c \notin disturbed'
    BY DEF Undisturbed
  <2>3. ASSUME NEW d \in Conns, Send(d) PROVE (InWire(c, 0) \/ Collected(c) \/ Handed(c))'
    <3>a. PICK cut \in Cuts(d) :
            /\ cut[1] = sent[d]
            /\ sent' = [sent EXCEPT ![d] = cut[2] + 1]
            /\ wire' = wire \cup {<<d, cut[1], cut[2]>>}
            /\ segments' = segments \cup {<<d, cut[1], cut[2]>>}
      BY <2>3 DEF Send
    <3> DEFINE q == <<d, cut[1], cut[2]>>
    <3>b. q \in Packets /\ q[1] = d /\ q[2] = sent[d] /\ q[3] = cut[2]
      BY <3>a, Packet
    <3>1. /\ UNCHANGED <<isn, slot>> /\ sent' = [sent EXCEPT ![d] = q[3] + 1]
          /\ wire' = wire \cup {q} /\ segments' = segments \cup {q}
          /\ UNCHANGED <<listener, payload, forwarded>>
      BY <2>3, <3>a DEF Send
    <3> HIDE DEF q
    <3>2. Handed(c) => Handed(c)'
      BY <3>1 DEF Handed
    <3>3. ASSUME NEW n \in 0 .. FinPos(c), InWire(c, n) PROVE InWire(c, n)'
      <4>1. CASE d # c
        BY <2>0, <3>1, <3>3, <3>b, <4>1, WireKept
      <4>2. CASE d = c
        <5>1. sent[c] \in Nat /\ n \in Nat /\ n <= sent[c]
          BY <2>0, <3>3, Bounds DEF InWire
        <5>2. sent[c] <= q[3] /\ q[3] \in Nat /\ sent'[c] = q[3] + 1
          BY <2>0, <3>1, <3>b, <4>2, Packet, Bounds
        <5>3. n <= sent'[c]
          BY <5>1, <5>2
        <5>4. \E x \in segments' : x[1] = c /\ x[2] = n
          <6>1. CASE n < sent[c]
            BY <3>1, <3>3, <6>1 DEF InWire
          <6>2. CASE n = sent[c]
            BY <3>1, <3>b, <4>2, <6>2
          <6> QED BY <5>1, <6>1, <6>2
        <5>5. ASSUME NEW x \in Packets, x[1] = c
              PROVE  x \in wire' <=> x \in segments' /\ n <= x[2]
          <6>1. x \in wire <=> x \in segments /\ n <= x[2]
            BY <3>3, <5>5 DEF InWire
          <6>2. n <= q[2]
            BY <3>b, <4>2, <5>1
          <6> QED BY <3>1, <6>1, <6>2
        <5> QED BY <5>3, <5>4, <5>5 DEF InWire
      <4> QED BY <4>1, <4>2
    <3> QED BY <2>0, <2>1, <3>1, <3>2, <3>3, CallKept
  <2>4. ASSUME NEW p \in Packets, Retransmit(p) \/ Miss(p)
        PROVE  (InWire(c, 0) \/ Collected(c) \/ Handed(c))'
    <3>1. /\ UNCHANGED <<isn, sent, segments, slot, listener, payload, forwarded>>
          /\ wire \ {p} \subseteq wire' /\ wire' \subseteq wire \cup {p} /\ p[1] # c
      BY <2>2, <2>4 DEF Retransmit, Miss
    <3>2. Handed(c) => Handed(c)'
      BY <3>1 DEF Handed
    <3>3. \A n \in 0 .. FinPos(c) : InWire(c, n) => InWire(c, n)'
      <4>1. \A x \in Packets : x[1] = c => (x \in wire' <=> x \in wire)
        BY <3>1
      <4> QED BY <2>0, <3>1, <4>1, WireKept
    <3> QED BY <2>0, <2>1, <3>1, <3>2, <3>3, CallKept
  <2>5. ASSUME NEW p \in wire, ProcessPacket(p)
        PROVE  (InWire(c, 0) \/ Collected(c) \/ Handed(c))'
    BY <2>1, <2>5, CallPacket
  <2>6. CASE Decode \/ Forward \/ Confirm \/ UNCHANGED vars
    <3>1. UNCHANGED <<isn, sent, segments, wire, slot>> /\ payload' = payload
      BY <2>6 DEF Decode, Forward, Confirm, vars, net, slot
    <3>a. payload \in Seq(Packets) /\ forwarded \in Seq(Seq(Packets))
      BY DEF StreamInv, TypeOK
    <3>2. ASSUME Handed(c) PROVE Handed(c)'
      <4>1. CASE \E i \in DOMAIN forwarded : JobOf(c, forwarded[i])
        <5>1. forwarded' = forwarded \/ forwarded' = Append(forwarded, payload)
          BY <2>6 DEF Decode, Forward, Confirm, vars
        <5>2. PICK i \in DOMAIN forwarded : JobOf(c, forwarded[i])
          BY <4>1
        <5>3. i \in DOMAIN forwarded' /\ forwarded'[i] = forwarded[i]
          <6>1. CASE forwarded' = forwarded
            BY <5>2, <6>1
          <6>2. CASE forwarded' = Append(forwarded, payload)
            BY <3>a, <5>2, <6>2
          <6> QED BY <5>1, <6>1, <6>2
        <5> QED BY <5>2, <5>3 DEF Handed
      <4>2. CASE listener \in {"decode", "connect"} /\ JobOf(c, payload)
        <5>1. payload # << >> /\ payload[1][1] = c
          <6>1. 1 \in DOMAIN payload
            BY <3>a, <4>2 DEF JobOf
          <6> QED BY <4>2, <6>1 DEF JobOf
        <5>2. CASE Decode \/ UNCHANGED vars
          BY <3>1, <4>2, <5>1, <5>2 DEF Decode, Handed, vars
        <5>3. CASE Forward
          <6>1. forwarded' = Append(forwarded, payload)
            BY <2>2, <5>1, <5>3 DEF Forward
          <6>2. Len(forwarded) + 1 \in DOMAIN forwarded'
                /\ forwarded'[Len(forwarded) + 1] = payload
            BY <3>a, <6>1
          <6> QED BY <4>2, <6>2 DEF Handed
        <5>4. CASE Confirm
          BY <4>2, <5>4 DEF Confirm
        <5> QED BY <2>6, <5>2, <5>3, <5>4
      <4> QED BY <3>2, <4>1, <4>2 DEF Handed
    <3>3. \A n \in 0 .. FinPos(c) : InWire(c, n) => InWire(c, n)'
      BY <2>0, <3>1, WireKept
    <3> QED BY <2>0, <2>1, <3>1, <3>2, <3>3, CallKept
  <2>7. \A p \in wire : p \in Packets
    BY DEF StreamInv, TypeOK
  <2> QED BY <2>3, <2>4, <2>5, <2>6, <2>7 DEF Next, Listen
<1> QED BY <1>1, <1>2, StreamInvariant, PTL DEF Spec

\* No call is dropped without a reason: once all its packets have been captured
\* it was sent to the daemon or is about to be, unless one of them was repeated,
\* lost or overtaken, another connection took the slot, the daemon refused it, or
\* its sequence numbers wrap.
THEOREM CallsAreNotDropped == Spec => []NoCallIsDropped
<1>1. StreamInv /\ CallInv => NoCallIsDropped
  <2> SUFFICES ASSUME StreamInv, CallInv, NEW c \in Calls,
                      sent[c] = FinPos(c) + 1, \A p \in wire : p[1] # c,
                      c \notin disturbed, ~(isn[c] + FinPos(c) >= SeqSpace)
               PROVE  Handed(c)
    BY DEF NoCallIsDropped
  <2>1. c \in Conns /\ isn \in Isns /\ segments \subseteq Packets
    BY ConnsAssumption DEF StreamInv, TypeOK
  <2>2. ASSUME NEW n \in 0 .. FinPos(c), InWire(c, n) PROVE FALSE
    <3>1. n < sent[c] /\ n <= n
      BY <2>1, Bounds
    <3>2. PICK q \in segments : q[1] = c /\ q[2] = n
      BY <2>2, <3>1 DEF InWire
    <3>3. q \in wire
      BY <2>1, <2>2, <3>1, <3>2 DEF InWire
    <3> QED BY <3>2, <3>3
  <2>3. ~Collected(c)
    BY <2>1, <2>2, Bounds DEF Collected
  <2>4. Undisturbed(c)
    BY <2>1, Bounds DEF Undisturbed
  <2>5. 0 \in 0 .. FinPos(c)
    BY <2>1, Bounds
  <2> QED BY <2>2, <2>3, <2>4, <2>5 DEF CallInv
<1> QED BY <1>1, StreamInvariant, CallInvariant, PTL
=============================================================================
