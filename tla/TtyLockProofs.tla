--------------------------- MODULE TtyLockProofs ---------------------------
(***************************************************************************)
(* Theorems of TtyLock, for any number of alerts, any lock numbers and any *)
(* sleeps.  In the presence of every fault: type correctness, and that a   *)
(* reset spares the holder of the lock.  As long as nothing fails: that an *)
(* expired lock has an owner, that the lock file implements the ownership  *)
(* of the signs, and that they show the default message in the end.        *)
(***************************************************************************)
EXTENDS TtyLock, TLAPS

\* No two processes draw the same number or numbers of different length, and
\* nothing fails or dies.
Faultless ==
  Distinct /\ Short = {} /\ ~FileMayFail /\ ~SignMayFail /\ ~MayCrash

\* A process has a number from the moment it opens the lock file.
HasNumber == \A p \in Procs : pc[p] = "idle" <=> id[p] = NoLock

NumbersDiffer ==
  \A p, q \in Procs : id[p] = id[q] /\ id[p] # NoLock => p = q

\* An empty file is about to be written; a number in it is somebody's.
FileHasOwner ==
  /\ lockFile = NoLock =>
       \/ \A p \in Procs : pc[p] = "idle"
       \/ \E q \in Procs : pc[q] = "lock"
  /\ lockFile # NoLock => \E q \in Procs : id[q] = lockFile

\* The inductive invariant of the fault-free lock.
LockInv == TypeOK /\ HasNumber /\ NumbersDiffer /\ FileHasOwner

\* p's number is in the lock file.
Holder(p) == lockFile # NoLock /\ id[p] = lockFile

\* Only a message or a reset is waited for; a preamble keeps the message
\* waiting for PreambleTime at most.
Timers == \A p \in Procs :
  /\ pc[p] \in {"idle", "lock", "preamble", "reset"} => timer[p] = 0
  /\ pc[p] = "message" => timer[p] <= PreambleTime

\* A process has a number until it has shown its message, and keeps it if the
\* message was sent to the signs.
Numbered ==
  \A p \in Procs : pc[p] \in {"lock", "preamble", "message"} => id[p] # NoLock
HasSent(p) == pc[p] \in Ended \cup {"check", "reset"} /\ id[p] # NoLock
Senders ==
  /\ Numbered
  /\ \A w \in writes : w.text = "message" => HasSent(w.by)
  /\ sign.text = "message" => sign.by \in Procs /\ HasSent(sign.by)

\* A holder of the lock that waits has only begun to while a reset is due, and
\* has waited no longer than a reset has been under way to the signs.
ResetsInTime == \A h \in Procs : Holder(h) /\ pc[h] = "check" =>
  /\ (\E p \in Procs : pc[p] = "reset") => timer[h] >= Hold(h)
  /\ \A w \in writes :
       w.text = "default" => timer[h] + WriteTime >= Hold(h) + w.ttl

\* The inductive invariant of the lock with faults.
SpareInv == TypeOK /\ NumbersDiffer /\ Timers /\ Senders /\ ResetsInTime

\* The sleeps of the defaults, and no alert of the kind that does not sleep.
SleepsAreLong ==
  /\ \A p \in Procs : Kind[p] # "rf"
  /\ ResetTime > PreambleTime + WriteTime

Clean == \A w \in writes : w.text = "default"
Quiet(p) == pc[p] \notin {"preamble", "message"}

\* What is shown after the holder of the lock began to wait comes from processes
\* it displaced, which were at most PreambleTime behind it.
HolderOutlasts == \A h \in Procs : Holder(h) /\ pc[h] = "check" =>
  /\ \A p \in Procs :
       /\ pc[p] = "preamble" => timer[h] >= ResetTime
       /\ pc[p] = "message" => timer[h] + PreambleTime >= ResetTime + timer[p]
  /\ \A w \in writes : w.text # "default" =>
       timer[h] + PreambleTime + WriteTime >= ResetTime + w.ttl

\* So nothing is shown once the holder resets the signs, and its reset arrives.
HolderResets == \A h \in Procs : Holder(h) =>
  /\ pc[h] \in {"preamble", "message", "check", "reset", "done"}
  /\ pc[h] \in {"reset", "done"} => Clean /\ \A p \in Procs : Quiet(p)
  /\ pc[h] = "done" => sign = Default \/ writes # {}

Untouched == (\A p \in Procs : pc[p] = "idle") => sign = Default /\ writes = {}

\* The inductive invariant of the signs without faults.
QuietInv == LockInv /\ Timers /\ HolderOutlasts /\ HolderResets /\ Untouched
-----------------------------------------------------------------------------
\* A write that is sent has its full time to reach the sign.
LEMMA SendType ==
  ASSUME NEW p \in Procs, NEW text \in Texts, writes \subseteq Write, Send(p, text)
  PROVE  writes' \subseteq Write
<1>1. [by |-> p, text |-> text, ttl |-> WriteTime] \in Write
  BY TimeAssumption DEF Write
<1> QED BY <1>1 DEF Send

\* Every step preserves the types, with or without faults.
LEMMA TypeStep == TypeOK /\ [Next]_vars => TypeOK'
<1> SUFFICES ASSUME TypeOK, [Next]_vars PROVE TypeOK'
  OBVIOUS
<1> USE DEF TypeOK, Steps
<1>1. ASSUME NEW p \in Procs, OpenLock(p) PROVE TypeOK'
  BY <1>1 DEF OpenLock, Goto, Show
<1>2. ASSUME NEW p \in Procs, CloseLock(p) PROVE TypeOK'
  BY <1>2 DEF CloseLock, Goto, Show
<1>3. ASSUME NEW p \in Procs, ShowPreamble(p) PROVE TypeOK'
  <2>1. writes' \subseteq Write
    BY <1>3, SendType DEF ShowPreamble, Texts
  <2> QED BY <1>3, <2>1, TimeAssumption DEF ShowPreamble, Goto, Sleep
<1>4. ASSUME NEW p \in Procs, ShowMessage(p) PROVE TypeOK'
  <2>1. writes' \subseteq Write
    BY <1>4, SendType DEF ShowMessage, Texts
  <2>2. Hold(p) \in Nat
    BY TimeAssumption DEF Hold
  <2> QED BY <1>4, <2>1, <2>2 DEF ShowMessage, Goto, Sleep
<1>5. ASSUME NEW p \in Procs, CheckLock(p) PROVE TypeOK'
  BY <1>5 DEF CheckLock, Goto
<1>6. ASSUME NEW p \in Procs, ResetSign(p) PROVE TypeOK'
  <2>1. writes' \subseteq Write
    BY <1>6, SendType DEF ResetSign, Texts
  <2> QED BY <1>6, <2>1 DEF ResetSign, Goto
<1>7. ASSUME NEW p \in Procs, Crash(p) PROVE TypeOK'
  BY <1>7 DEF Crash, Goto
<1>8. ASSUME NEW w \in writes, Arrive(w) PROVE TypeOK'
  BY <1>8 DEF Arrive, Shown, Write, Default, Texts
<1>9. ASSUME NEW w \in writes, Lose(w) PROVE TypeOK'
  BY <1>9 DEF Lose
<1>10. ASSUME Tick PROVE TypeOK'
  <2>1. ASSUME NEW w \in writes PROVE [w EXCEPT !.ttl = @ - 1] \in Write
    <3>1. w \in Write /\ w.ttl > 0
      BY <1>10, <2>1 DEF Tick
    <3> QED BY <3>1, TimeAssumption DEF Write
  <2>2. writes' \subseteq Write
    BY <1>10, <2>1 DEF Tick
  <2>3. timer' \in [Procs -> Nat]
    BY <1>10 DEF Tick
  <2> QED BY <1>10, <2>2, <2>3 DEF Tick
<1>11. CASE UNCHANGED vars
  BY <1>11 DEF vars
<1> QED
  BY <1>1, <1>2, <1>3, <1>4, <1>5, <1>6, <1>7, <1>8, <1>9, <1>10,
     <1>11
  DEF Next, ProcStep

\* Initially the lock file is empty, every process idle and no write under way.
LEMMA TypeInit == Init => TypeOK
BY DEF Init, TypeOK, Steps, Shown, Default, Texts

\* The variables of the LED processes keep their types whatever fails.
THEOREM TypeCorrect == Spec => []TypeOK
BY TypeInit, TypeStep, PTL DEF Spec
-----------------------------------------------------------------------------
\* Steps that touch neither the lock file nor a number, and neither start a
\* process nor end its locking, preserve what LockInv says of them.
LEMMA LockFrame ==
  ASSUME LockInv, UNCHANGED <<lockFile, id>>, NEW p \in Procs,
         NEW step \in Steps \ {"idle"}, Goto(p, step), pc[p] \notin {"idle", "lock"}
  PROVE  HasNumber' /\ NumbersDiffer' /\ FileHasOwner'
<1>1. pc' = [pc EXCEPT ![p] = step] /\ pc \in [Procs -> Steps]
  BY DEF Goto, LockInv, TypeOK
<1>2. HasNumber'
  BY <1>1 DEF LockInv, HasNumber
<1>3. NumbersDiffer'
  BY DEF LockInv, NumbersDiffer
<1>4. FileHasOwner'
  BY <1>1 DEF LockInv, FileHasOwner
<1> QED BY <1>2, <1>3, <1>4

\* Every step of the fault-free system preserves the invariant of the lock.
LEMMA LockStep ==
  ASSUME Faultless PROVE LockInv /\ [Next]_vars => LockInv'
<1> SUFFICES ASSUME LockInv, [Next]_vars PROVE LockInv'
  OBVIOUS
<1>0. TypeOK /\ TypeOK'
  BY TypeStep DEF LockInv
<1>a. SUFFICES HasNumber' /\ NumbersDiffer' /\ FileHasOwner'
  BY <1>0 DEF LockInv
<1> USE DEF Steps
<1>1. ASSUME NEW p \in Procs, OpenLock(p)
      PROVE  HasNumber' /\ NumbersDiffer' /\ FileHasOwner'
  <2>1. PICK n \in LockIds : /\ \A q \in Procs : id[q] # n
                             /\ id' = [id EXCEPT ![p] = n]
    BY <1>1 DEF OpenLock, Faultless
  <2>2. lockFile' = NoLock /\ pc' = [pc EXCEPT ![p] = "lock"]
    BY <1>1 DEF OpenLock, Faultless, Goto
  <2>3. pc \in [Procs -> Steps] /\ id \in [Procs -> LockIds \cup {NoLock}]
    BY <1>0 DEF TypeOK
  <2>4. HasNumber'
    BY <2>1, <2>2, <2>3, LockAssumption DEF LockInv, HasNumber
  <2>5. NumbersDiffer'
    BY <2>1, <2>3 DEF LockInv, NumbersDiffer
  <2>6. FileHasOwner'
    BY <2>2, <2>3 DEF FileHasOwner
  <2> QED BY <2>4, <2>5, <2>6
<1>2. ASSUME NEW p \in Procs, CloseLock(p)
      PROVE  HasNumber' /\ NumbersDiffer' /\ FileHasOwner'
  <2>1. lockFile' = id[p] /\ UNCHANGED id /\ pc[p] = "lock"
    BY <1>2 DEF CloseLock, Faultless
  <2>2. pc' = [pc EXCEPT ![p] = IF Kind[p] = "dispatch" THEN "preamble" ELSE "message"]
    BY <1>2 DEF CloseLock, Show, Goto
  <2>3. pc \in [Procs -> Steps]
    BY <1>0 DEF TypeOK
  <2>4. HasNumber'
    BY <2>1, <2>2, <2>3 DEF LockInv, HasNumber
  <2>5. NumbersDiffer'
    BY <2>1 DEF LockInv, NumbersDiffer
  <2>6. FileHasOwner'
    BY <2>1 DEF FileHasOwner, LockInv, HasNumber
  <2> QED BY <2>4, <2>5, <2>6
<1>3. ASSUME NEW p \in Procs, ShowPreamble(p)
      PROVE  HasNumber' /\ NumbersDiffer' /\ FileHasOwner'
  BY <1>3, LockFrame DEF ShowPreamble, Awake
<1>4. ASSUME NEW p \in Procs, ShowMessage(p)
      PROVE  HasNumber' /\ NumbersDiffer' /\ FileHasOwner'
  BY <1>4, LockFrame DEF ShowMessage, Awake, Faultless
<1>5. ASSUME NEW p \in Procs, CheckLock(p)
      PROVE  HasNumber' /\ NumbersDiffer' /\ FileHasOwner'
  BY <1>5, LockFrame DEF CheckLock, Awake
<1>6. ASSUME NEW p \in Procs, ResetSign(p)
      PROVE  HasNumber' /\ NumbersDiffer' /\ FileHasOwner'
  BY <1>6, LockFrame DEF ResetSign, Awake
<1>7. ASSUME NEW p \in Procs, Crash(p) PROVE FALSE
  BY <1>7 DEF Crash, Faultless
<1>8. CASE UNCHANGED <<lockFile, id, pc>>
  BY <1>8 DEF LockInv, HasNumber, NumbersDiffer, FileHasOwner
<1>9. ASSUME NEW w \in writes, Arrive(w) \/ Lose(w)
      PROVE  UNCHANGED <<lockFile, id, pc>>
  BY <1>9 DEF Arrive, Lose
<1> QED
  BY <1>1, <1>2, <1>3, <1>4, <1>5, <1>6, <1>7, <1>8, <1>9
  DEF Next, ProcStep, Tick, vars

\* Initially nobody has a number and the lock file is empty.
LEMMA LockInit == Init => LockInv
BY TypeInit, LockAssumption
DEF Init, LockInv, HasNumber, NumbersDiffer, FileHasOwner

\* A process gives up its reset only in favour of another one that owns the
\* lock or is about to: nobody's message is left on the signs for ever because
\* its process found the lock expired.
THEOREM ExpiredLocksHaveOwners ==
  ASSUME Faultless PROVE Spec => ExpiredHasOwner
<1>1. ASSUME LockInv, [Next]_vars, NEW p \in Procs,
             pc[p] = "check", pc'[p] = "expired"
      PROVE  \E q \in Procs \ {p} :
               pc[q] = "lock" \/ (pc[q] # "idle" /\ id[q] = lockFile)
  <2>0. pc \in [Procs -> Steps]
    BY <1>1 DEF LockInv, TypeOK
  <2>1. CheckLock(p)
    BY <1>1, <2>0
    DEF Next, ProcStep, OpenLock, CloseLock, ShowPreamble, ShowMessage,
        CheckLock, ResetSign, Arrive, Lose, Crash, Tick, Show, Goto, vars, Steps
  <2>2. lockFile = NoLock \/ lockFile # id[p]
    BY <1>1, <2>0, <2>1 DEF CheckLock, Goto
  <2>3. CASE lockFile = NoLock
    BY <1>1, <2>3 DEF LockInv, FileHasOwner
  <2>4. CASE lockFile # NoLock
    BY <1>1, <2>2, <2>4 DEF LockInv, FileHasOwner, HasNumber
  <2> QED BY <2>3, <2>4
<1>2. LockInv /\ [Next]_vars =>
        [ \A p \in Procs : pc[p] = "check" /\ pc'[p] = "expired" =>
            \E q \in Procs \ {p} :
              pc[q] = "lock" \/ (pc[q] # "idle" /\ id[q] = lockFile) ]_vars
  BY <1>1
<1> QED BY <1>2, LockInit, LockStep, PTL DEF Spec, ExpiredHasOwner
-----------------------------------------------------------------------------
\* With distinct numbers, Owner is the process whose number the file holds.
LEMMA OwnerOf ==
  ASSUME LockInv, NEW p \in Procs, lockFile # NoLock
  PROVE  Owner = p <=> id[p] = lockFile
<1>1. \E q \in Procs : id[q] = lockFile
  BY DEF LockInv, FileHasOwner
<1>2. Owner \in Procs /\ id[Owner] = lockFile
  BY <1>1 DEF Owner
<1> QED BY <1>2 DEF LockInv, NumbersDiffer

\* Initially nobody owns the signs.
LEMMA OwnerInit == Init => DO!Init
BY DEF Init, DO!Init, Owner, Outcome

\* Every step is a claim, a taking or a finishing of the signs, or no step.
LEMMA OwnerStep ==
  ASSUME Faultless, LockInv, LockInv', [Next]_vars
  PROVE  [DO!Next]_<<Owner, Outcome>>
<1>0. pc \in [Procs -> Steps] /\ lockFile \in LockIds \cup {NoLock, Torn}
  BY DEF LockInv, TypeOK
<1>a. ASSUME UNCHANGED <<lockFile, id>>, UNCHANGED Outcome
      PROVE  UNCHANGED <<Owner, Outcome>>
  BY <1>a DEF Owner
<1>1. ASSUME NEW p \in Procs, OpenLock(p) PROVE DO!Claim(p)
  <2>1. lockFile' = NoLock /\ pc' = [pc EXCEPT ![p] = "lock"] /\ pc[p] = "idle"
    BY <1>1 DEF OpenLock, Faultless, Goto
  <2>2. Owner' = NoProc
    BY <2>1 DEF Owner
  <2>3. Outcome' = [Outcome EXCEPT ![p] = "taking"]
    BY <2>1, <1>0 DEF Outcome
  <2>4. Outcome[p] = "none"
    BY <2>1 DEF Outcome
  <2> QED BY <2>2, <2>3, <2>4 DEF DO!Claim
<1>2. ASSUME NEW p \in Procs, CloseLock(p) PROVE DO!Take(p)
  <2>1. lockFile' = id[p] /\ UNCHANGED id /\ pc[p] = "lock"
    BY <1>2 DEF CloseLock, Faultless
  <2>2. pc' = [pc EXCEPT ![p] = IF Kind[p] = "dispatch" THEN "preamble" ELSE "message"]
    BY <1>2 DEF CloseLock, Show, Goto
  <2>3. lockFile' # NoLock
    BY <2>1 DEF LockInv, HasNumber
  <2>4. Owner' = p
    <3>1. Owner' \in Procs /\ id'[Owner'] = lockFile'
      BY <2>1, <2>3 DEF Owner
    <3> QED BY <2>1, <2>3, <3>1 DEF LockInv, NumbersDiffer
  <2>5. Outcome' = [Outcome EXCEPT ![p] = "showing"]
    BY <2>2, <1>0 DEF Outcome
  <2>6. Outcome[p] = "taking"
    BY <2>1 DEF Outcome
  <2> QED BY <2>4, <2>5, <2>6 DEF DO!Take
<1>3. ASSUME NEW p \in Procs, ShowPreamble(p) PROVE UNCHANGED <<Owner, Outcome>>
  <2>1. pc[p] = "preamble" /\ pc' = [pc EXCEPT ![p] = "message"]
    BY <1>3 DEF ShowPreamble, Awake, Goto
  <2>2. UNCHANGED Outcome
    BY <2>1, <1>0 DEF Outcome
  <2> QED BY <1>3, <2>2, <1>a DEF ShowPreamble
<1>4. ASSUME NEW p \in Procs, ShowMessage(p) PROVE UNCHANGED <<Owner, Outcome>>
  <2>1. pc[p] = "message" /\ pc' = [pc EXCEPT ![p] = "check"]
    BY <1>4 DEF ShowMessage, Awake, Goto
  <2>2. UNCHANGED Outcome
    BY <2>1, <1>0 DEF Outcome
  <2> QED BY <1>4, <2>2, <1>a DEF ShowMessage, Faultless
<1>5. ASSUME NEW p \in Procs, CheckLock(p) PROVE DO!Finish(p)
  <2>1. /\ pc[p] = "check"
        /\ pc' = [pc EXCEPT ![p] = IF lockFile # NoLock /\ lockFile = id[p]
                                   THEN "reset" ELSE "expired"]
        /\ UNCHANGED <<lockFile, id>>
    BY <1>5 DEF CheckLock, Awake, Goto
  <2>2. Owner = p <=> lockFile # NoLock /\ lockFile = id[p]
    <3>1. CASE lockFile = NoLock
      BY <3>1, NoProcAssumption DEF Owner
    <3>2. CASE lockFile # NoLock
      BY <3>2, OwnerOf
    <3> QED BY <3>1, <3>2
  <2>3. Outcome' = [Outcome EXCEPT ![p] = IF Owner = p THEN "reset" ELSE "left"]
    BY <2>1, <2>2, <1>0 DEF Outcome
  <2>4. Outcome[p] = "showing"
    BY <2>1 DEF Outcome
  <2>5. UNCHANGED Owner
    BY <2>1 DEF Owner
  <2> QED BY <2>3, <2>4, <2>5 DEF DO!Finish
<1>6. ASSUME NEW p \in Procs, ResetSign(p) PROVE UNCHANGED <<Owner, Outcome>>
  <2>1. pc[p] = "reset" /\ pc' = [pc EXCEPT ![p] = "done"]
    BY <1>6 DEF ResetSign, Awake, Goto
  <2>2. UNCHANGED Outcome
    BY <2>1, <1>0 DEF Outcome
  <2> QED BY <1>6, <2>2, <1>a DEF ResetSign
<1>7. ASSUME NEW p \in Procs, Crash(p) PROVE FALSE
  BY <1>7 DEF Crash, Faultless
<1>8. ASSUME UNCHANGED <<lockFile, id, pc>> PROVE UNCHANGED <<Owner, Outcome>>
  BY <1>8 DEF Owner, Outcome
<1>9. ASSUME NEW w \in writes, Arrive(w) \/ Lose(w)
      PROVE  UNCHANGED <<lockFile, id, pc>>
  BY <1>9 DEF Arrive, Lose
<1> QED
  BY <1>1, <1>2, <1>3, <1>4, <1>5, <1>6, <1>7, <1>8, <1>9
  DEF Next, ProcStep, Tick, vars, DO!Next

\* The lock file implements the ownership of the signs: the process that wrote
\* its number last resets them, and no other one does.
THEOREM LockImplementsOwner ==
  ASSUME Faultless PROVE Spec => ImplementsOwner
<1>1. LockInv /\ LockInv' /\ [Next]_vars => [DO!Next]_<<Owner, Outcome>>
  BY OwnerStep
<1> QED
  BY <1>1, OwnerInit, LockInit, LockStep, PTL DEF Spec, ImplementsOwner, DO!Spec
-----------------------------------------------------------------------------
\* Every step preserves the times of the sleeps, with or without faults.
LEMMA TimersStep == TypeOK /\ Timers /\ [Next]_vars => Timers'
<1> SUFFICES ASSUME TypeOK, Timers, [Next]_vars PROVE Timers'
  OBVIOUS
<1>0. pc \in [Procs -> Steps] /\ timer \in [Procs -> Nat] /\ timer' \in [Procs -> Nat]
  BY TypeStep DEF TypeOK
<1> USE DEF Timers
<1>1. ASSUME NEW p \in Procs, OpenLock(p) PROVE Timers'
  BY <1>1, <1>0, TimeAssumption DEF OpenLock, Goto, Show
<1>2. ASSUME NEW p \in Procs, CloseLock(p) PROVE Timers'
  BY <1>2, <1>0, TimeAssumption DEF CloseLock, Goto, Show
<1>3. ASSUME NEW p \in Procs, ShowPreamble(p) PROVE Timers'
  BY <1>3, <1>0, TimeAssumption DEF ShowPreamble, Awake, Goto, Sleep
<1>4. ASSUME NEW p \in Procs, ShowMessage(p) PROVE Timers'
  BY <1>4, <1>0, TimeAssumption DEF ShowMessage, Awake, Goto, Sleep
<1>5. ASSUME NEW p \in Procs, CheckLock(p) PROVE Timers'
  BY <1>5, <1>0 DEF CheckLock, Awake, Goto
<1>6. ASSUME NEW p \in Procs, ResetSign(p) PROVE Timers'
  BY <1>6, <1>0 DEF ResetSign, Awake, Goto
<1>7. ASSUME NEW p \in Procs, Crash(p) PROVE Timers'
  BY <1>7, <1>0 DEF Crash, Goto
<1>8. CASE Tick
  BY <1>8, <1>0, TimeAssumption DEF Tick
<1>9. CASE UNCHANGED <<pc, timer>>
  BY <1>9
<1>10. ASSUME NEW w \in writes, Arrive(w) \/ Lose(w) PROVE UNCHANGED <<pc, timer>>
  BY <1>10 DEF Arrive, Lose
<1> QED
  BY <1>1, <1>2, <1>3, <1>4, <1>5, <1>6, <1>7, <1>8, <1>9, <1>10
  DEF Next, ProcStep, vars

\* No two processes have the same number as long as none draws another's.
LEMMA NumbersStep ==
  ASSUME Distinct PROVE TypeOK /\ NumbersDiffer /\ [Next]_vars => NumbersDiffer'
<1> SUFFICES ASSUME TypeOK, NumbersDiffer, [Next]_vars PROVE NumbersDiffer'
  OBVIOUS
<1>0. id \in [Procs -> LockIds \cup {NoLock}]
  BY DEF TypeOK
<1>1. ASSUME NEW p \in Procs, OpenLock(p) PROVE NumbersDiffer'
  BY <1>1, <1>0 DEF OpenLock, NumbersDiffer
<1>2. ASSUME NEW p \in Procs, ShowMessage(p) PROVE NumbersDiffer'
  BY <1>2, <1>0 DEF ShowMessage, NumbersDiffer
<1>3. CASE UNCHANGED id
  BY <1>3 DEF NumbersDiffer
<1> QED
  BY <1>1, <1>2, <1>3
  DEF Next, ProcStep, CloseLock, ShowPreamble, CheckLock, ResetSign, Crash,
      Arrive, Lose, Tick, vars

\* A process that has sent its message stays one that has: no step gives it
\* another number or takes its own.
LEMMA SentStays ==
  ASSUME TypeOK, [Next]_vars, NEW p \in Procs, HasSent(p) PROVE HasSent(p)'
<1>0. pc \in [Procs -> Steps] /\ id \in [Procs -> LockIds \cup {NoLock}]
  BY DEF TypeOK
<1> USE DEF HasSent, Ended, Steps
<1>1. ASSUME NEW q \in Procs, OpenLock(q) PROVE HasSent(p)'
  BY <1>1, <1>0 DEF OpenLock, Goto, Show
<1>2. ASSUME NEW q \in Procs, ProcStep(q) PROVE HasSent(p)'
  BY <1>2, <1>0
  DEF ProcStep, CloseLock, ShowPreamble, ShowMessage, CheckLock, ResetSign,
      Awake, Goto, Show
<1>3. ASSUME NEW q \in Procs, Crash(q) PROVE HasSent(p)'
  BY <1>3, <1>0 DEF Crash, Goto
<1>4. CASE UNCHANGED <<id, pc>>
  BY <1>4
<1> QED BY <1>1, <1>2, <1>3, <1>4 DEF Next, Arrive, Lose, Tick, vars

\* Every step preserves who has sent the messages under way and on the signs.
LEMMA SendersStep == TypeOK /\ Senders /\ [Next]_vars => Senders'
<1> SUFFICES ASSUME TypeOK, Senders, [Next]_vars PROVE Senders'
  OBVIOUS
<1>0. /\ pc \in [Procs -> Steps] /\ id \in [Procs -> LockIds \cup {NoLock}]
      /\ writes \subseteq Write /\ NoLock \notin LockIds
  BY LockAssumption DEF TypeOK
<1>a. \A w \in writes : w.by \in Procs
  BY <1>0 DEF Write
<1>1. Numbered'
  <2>1. ASSUME NEW p \in Procs, OpenLock(p) \/ ProcStep(p) \/ Crash(p),
               NEW q \in Procs, pc'[q] \in {"lock", "preamble", "message"}
        PROVE  id'[q] # NoLock
    <3>1. CASE OpenLock(p)
      <4>1. \E n \in LockIds : id' = [id EXCEPT ![p] = n]
        BY <3>1 DEF OpenLock
      <4>2. q # p => pc'[q] = pc[q]
        BY <3>1, <1>0 DEF OpenLock, Goto, Show
      <4> QED BY <4>1, <4>2, <2>1, <1>0 DEF Senders, Numbered
    <3>2. CASE ProcStep(p)
      BY <3>2, <2>1, <1>0
      DEF ProcStep, CloseLock, ShowPreamble, ShowMessage, CheckLock,
          ResetSign, Awake, Goto, Show, Senders, Numbered
    <3>3. CASE Crash(p)
      BY <3>3, <2>1, <1>0 DEF Crash, Goto, Senders, Numbered
    <3> QED BY <2>1, <3>1, <3>2, <3>3
  <2>2. CASE UNCHANGED <<id, pc>>
    BY <2>2 DEF Senders, Numbered
  <2> QED BY <2>1, <2>2 DEF Next, Arrive, Lose, Tick, vars, Numbered
<1>2. ASSUME NEW w \in writes', w.text = "message" PROVE HasSent(w.by)'
  <2>1. CASE w \in writes
    BY <2>1, <1>2, <1>a, SentStays DEF Senders
  <2>2. CASE Tick
    <3>1. PICK v \in writes : w = [v EXCEPT !.ttl = @ - 1]
      BY <2>2 DEF Tick
    <3>2. w.by = v.by /\ w.text = v.text
      BY <3>1, <1>0 DEF Write
    <3> QED BY <1>2, <3>2, <1>a, SentStays DEF Senders
  <2>3. CASE w \notin writes /\ ~Tick
    <3>1. PICK p \in Procs : ShowMessage(p) /\ w.by = p
      BY <2>3, <1>2
      DEF Next, ProcStep, OpenLock, CloseLock, ShowPreamble, ShowMessage,
          CheckLock, ResetSign, Crash, Arrive, Lose, Send, vars
    <3>2. pc[p] = "message" /\ pc'[p] = "check" /\ UNCHANGED id
      BY <3>1, <2>3, <1>0 DEF ShowMessage, Awake, Goto
    <3> QED BY <3>1, <3>2 DEF HasSent, Senders, Numbered
  <2> QED BY <2>1, <2>2, <2>3
<1>3. ASSUME sign'.text = "message" PROVE (sign.by \in Procs /\ HasSent(sign.by))'
  <2>1. CASE UNCHANGED sign
    BY <2>1, <1>3, SentStays DEF Senders, HasSent
  <2>2. CASE sign' # sign
    <3>1. PICK w \in writes : Arrive(w)
      BY <2>2
      DEF Next, ProcStep, OpenLock, CloseLock, ShowPreamble, ShowMessage,
          CheckLock, ResetSign, Crash, Lose, Tick, vars
    <3>2. w.text = "message" /\ sign'.by = w.by
      BY <3>1, <1>3 DEF Arrive, Default
    <3> QED BY <3>2, <1>a, SentStays DEF Senders, HasSent
  <2> QED BY <2>1, <2>2
<1> QED BY <1>1, <1>2, <1>3 DEF Senders

\* A process that waits with its number in the lock file has either just shown
\* its message or did so before, since others write their own numbers only.
LEMMA HolderWaits ==
  ASSUME TypeOK, NumbersDiffer, Numbered, [Next]_vars,
         NEW h \in Procs, Holder(h)', pc'[h] = "check"
  PROVE  \/ timer'[h] = Hold(h) /\ ShowMessage(h)
         \/ /\ Holder(h) /\ pc[h] = "check"
            /\ timer'[h] = timer[h] \/ Tick
<1>0. /\ pc \in [Procs -> Steps] /\ timer \in [Procs -> Nat]
      /\ id \in [Procs -> LockIds \cup {NoLock}]
      /\ lockFile \in LockIds \cup {NoLock, Torn}
  BY DEF TypeOK
<1> USE DEF Holder
<1>1. ASSUME NEW p \in Procs, OpenLock(p) PROVE Holder(h) /\ pc[h] = "check" /\ UNCHANGED timer
  BY <1>1, <1>0 DEF OpenLock, Goto, Show
<1>2. ASSUME NEW p \in Procs, CloseLock(p) PROVE FALSE
  <2>1. pc[p] = "lock" /\ UNCHANGED id /\ lockFile' \in {Torn, id[p]}
    BY <1>2 DEF CloseLock
  <2>2. p # h
    BY <1>2, <1>0 DEF CloseLock, Show, Goto
  <2>3. id[h] # id[p]
    BY <2>1, <2>2 DEF NumbersDiffer, Numbered
  <2> QED BY <2>1, <2>3, <1>0, LockAssumption
<1>3. ASSUME NEW p \in Procs, ShowPreamble(p) \/ CheckLock(p) \/ ResetSign(p) \/ Crash(p)
      PROVE  Holder(h) /\ pc[h] = "check" /\ timer'[h] = timer[h]
  BY <1>3, <1>0 DEF ShowPreamble, CheckLock, ResetSign, Crash, Awake, Goto, Sleep
<1>4. ASSUME NEW p \in Procs, ShowMessage(p), p # h
      PROVE  Holder(h) /\ pc[h] = "check" /\ timer'[h] = timer[h]
  BY <1>4, <1>0 DEF ShowMessage, Goto, Sleep
<1>5. CASE ShowMessage(h)
  <2>1. id'[h] = NoLock \/ timer'[h] = Hold(h)
    BY <1>5, <1>0 DEF ShowMessage, Sleep
  <2> QED BY <1>5, <2>1
<1>6. CASE UNCHANGED <<lockFile, id, pc>> /\ (UNCHANGED timer \/ Tick)
  BY <1>6
<1>7. ASSUME NEW w \in writes, Arrive(w) \/ Lose(w)
      PROVE  UNCHANGED <<lockFile, id, pc, timer>>
  BY <1>7 DEF Arrive, Lose
<1>8. Tick => UNCHANGED <<lockFile, id, pc>>
  BY DEF Tick
<1> QED
  BY <1>1, <1>2, <1>3, <1>4, <1>5, <1>6, <1>7, <1>8 DEF Next, ProcStep, vars

\* Time does not pass for a process that is to take a step.
LEMMA TickWaits ==
  ASSUME TypeOK, Timers, Tick
  PROVE  /\ \A p \in Procs : pc[p] \notin {"lock", "preamble", "reset"}
         /\ \A p \in Procs : pc[p] \in {"message", "check"} =>
              timer[p] > 0 /\ timer'[p] = timer[p] - 1
         /\ \A w \in writes' : \E v \in writes :
              w.text = v.text /\ v.ttl \in Nat /\ w.ttl = v.ttl - 1
<1>0. timer \in [Procs -> Nat] /\ writes \subseteq Write
  BY DEF TypeOK
<1>1. \A p \in Procs : pc[p] \notin {"lock", "preamble", "reset"}
  BY DEF Timers, Tick, Ended
<1>2. \A p \in Procs : pc[p] \in {"message", "check"} =>
        timer[p] > 0 /\ timer'[p] = timer[p] - 1
  BY <1>0 DEF Tick, Ended
<1>3. ASSUME NEW w \in writes'
      PROVE  \E v \in writes : w.text = v.text /\ v.ttl \in Nat /\ w.ttl = v.ttl - 1
  <2>1. PICK v \in writes : w = [v EXCEPT !.ttl = @ - 1]
    BY DEF Tick
  <2>2. v \in Write
    BY <1>0
  <2> QED BY <2>1, <2>2, TimeAssumption DEF Write
<1> QED BY <1>1, <1>2, <1>3

\* Every step preserves that resets are in time.
LEMMA ResetsInTimeStep ==
  TypeOK /\ NumbersDiffer /\ Timers /\ Senders /\ ResetsInTime /\ [Next]_vars
    => ResetsInTime'
<1> SUFFICES ASSUME TypeOK, NumbersDiffer, Timers, Senders, ResetsInTime, [Next]_vars,
                    NEW h \in Procs, Holder(h)', pc'[h] = "check"
             PROVE  /\ (\E p \in Procs : pc'[p] = "reset") => timer'[h] >= Hold(h)
                    /\ \A w \in writes' :
                         w.text = "default" => timer'[h] + WriteTime >= Hold(h) + w.ttl
  BY DEF ResetsInTime
<1>0. /\ pc \in [Procs -> Steps] /\ timer \in [Procs -> Nat]
      /\ writes \subseteq Write /\ writes' \subseteq Write /\ Hold(h) \in Nat
  BY TypeStep, TimeAssumption DEF TypeOK, Hold
<1>a. \A w \in writes \cup writes' : w.ttl \in Nat /\ w.ttl <= WriteTime
  BY <1>0, TimeAssumption DEF Write
<1>1. CASE timer'[h] = Hold(h)
  BY <1>1, <1>0, <1>a, TimeAssumption
<1>2. ASSUME Holder(h), pc[h] = "check", timer'[h] = timer[h] \/ Tick
      PROVE  /\ (\E p \in Procs : pc'[p] = "reset") => timer'[h] >= Hold(h)
             /\ \A w \in writes' :
                  w.text = "default" => timer'[h] + WriteTime >= Hold(h) + w.ttl
  <2>1. ASSUME NEW p \in Procs, pc'[p] = "reset" PROVE timer'[h] >= Hold(h)
    <3>1. pc[p] = "reset"
      <4>1. SUFFICES ASSUME pc[p] # "reset" PROVE FALSE
        OBVIOUS
      <4>2. CheckLock(p)
        BY <2>1, <4>1, <1>0
        DEF Next, ProcStep, OpenLock, CloseLock, ShowPreamble, ShowMessage,
            CheckLock, ResetSign, Crash, Arrive, Lose, Tick, Goto, Show, vars
      <4>3. lockFile = id[p]
        BY <2>1, <4>2, <1>0 DEF CheckLock, Goto
      <4>4. p = h
        BY <1>2, <4>3 DEF Holder, NumbersDiffer
      <4> QED BY <2>1, <4>4
    <3>2. ~Tick
      BY <3>1, TickWaits
    <3> QED BY <1>2, <3>1, <3>2 DEF ResetsInTime
  <2>2. ASSUME NEW w \in writes', w.text = "default"
        PROVE  timer'[h] + WriteTime >= Hold(h) + w.ttl
    <3>1. CASE Tick
      <4>1. PICK v \in writes : w.text = v.text /\ v.ttl \in Nat /\ w.ttl = v.ttl - 1
        BY <3>1, TickWaits
      <4>2. timer'[h] = timer[h] - 1
        BY <3>1, <1>2, TickWaits
      <4>3. timer[h] + WriteTime >= Hold(h) + v.ttl
        BY <1>2, <2>2, <4>1 DEF ResetsInTime
      <4> QED BY <4>1, <4>2, <4>3, <1>0, TimeAssumption
    <3>2. CASE ~Tick /\ w \in writes
      BY <3>2, <1>2, <2>2 DEF ResetsInTime
    <3>3. CASE ~Tick /\ w \notin writes
      <4>1. PICK p \in Procs : ResetSign(p)
        BY <3>3, <2>2
        DEF Next, ProcStep, OpenLock, CloseLock, ShowPreamble, ShowMessage,
            CheckLock, ResetSign, Crash, Arrive, Lose, Send, vars
      <4>2. timer'[h] >= Hold(h)
        BY <1>2, <3>3, <4>1 DEF ResetSign, Awake, ResetsInTime
      <4> QED BY <4>2, <1>0, <1>a, TimeAssumption, TypeStep DEF TypeOK
    <3> QED BY <3>1, <3>2, <3>3
  <2> QED BY <2>1, <2>2
<1> QED BY <1>1, <1>2, HolderWaits DEF Senders

LEMMA SpareInit == Init => SpareInv
<1> SUFFICES ASSUME Init PROVE SpareInv
  OBVIOUS
<1>1. TypeOK
  BY TypeInit
<1>2. NumbersDiffer /\ Senders /\ ResetsInTime
  BY DEF Init, NumbersDiffer, Senders, Numbered, ResetsInTime, Default
<1>3. Timers
  BY DEF Init, Timers
<1> QED BY <1>1, <1>2, <1>3 DEF SpareInv

\* A reset that reaches the signs takes the message of the lock's holder only if
\* that was sent no more than WriteTime before: the reset was already under way
\* or due.  Whatever fails or dies, for any sleeps and any kinds of alerts.
THEOREM ResetsSpareTheHolder ==
  ASSUME Distinct PROVE Spec => ResetSparesHolder
<1>1. SpareInv /\ [Next]_vars => SpareInv'
  BY TypeStep, NumbersStep, TimersStep, SendersStep, ResetsInTimeStep DEF SpareInv
<1>2. ASSUME SpareInv, NEW w \in writes, w.text = "default", sign.text = "message",
             pc[sign.by] = "check", id[sign.by] = lockFile
      PROVE  timer[sign.by] + WriteTime >= Hold(sign.by)
  <2>1. sign.by \in Procs /\ Holder(sign.by)
    BY <1>2 DEF SpareInv, Senders, HasSent, Holder
  <2>2. timer[sign.by] + WriteTime >= Hold(sign.by) + w.ttl
    BY <1>2, <2>1 DEF SpareInv, ResetsInTime
  <2>3. timer[sign.by] \in Nat /\ Hold(sign.by) \in Nat /\ w.ttl \in Nat
    BY <1>2, <2>1, TimeAssumption DEF SpareInv, TypeOK, Hold, Write
  <2> QED BY <2>2, <2>3, TimeAssumption
<1>3. SpareInv /\ [Next]_vars =>
        [ \A w \in writes \ writes' :
            /\ pc' = pc /\ timer' = timer /\ w.text = "default" /\ sign' = Default
            /\ sign.text = "message" /\ pc[sign.by] = "check"
            /\ id[sign.by] = lockFile
            => timer[sign.by] + WriteTime >= Hold(sign.by) ]_vars
  BY <1>2
<1> QED BY <1>1, <1>3, SpareInit, PTL DEF Spec, ResetSparesHolder
-----------------------------------------------------------------------------
\* Without faults the lock file changes hands only when a process writes its
\* number.
LEMMA HolderMoves ==
  ASSUME Faultless, LockInv, [Next]_vars, NEW h \in Procs, Holder(h)'
  PROVE  \/ CloseLock(h)
         \/ Holder(h) /\ \A p \in Procs : ~OpenLock(p) /\ ~CloseLock(p)
<1> USE DEF Holder
<1>1. ASSUME NEW p \in Procs, OpenLock(p) PROVE FALSE
  BY <1>1 DEF OpenLock, Faultless
<1>2. ASSUME NEW p \in Procs, CloseLock(p) PROVE p = h
  <2>1. lockFile' = id[p] /\ UNCHANGED id
    BY <1>2 DEF CloseLock, Faultless
  <2> QED BY <2>1 DEF LockInv, NumbersDiffer
<1>3. (\A p \in Procs : ~OpenLock(p) /\ ~CloseLock(p)) => UNCHANGED <<lockFile, id>>
  BY DEF Next, ProcStep, ShowPreamble, ShowMessage, CheckLock, ResetSign, Crash,
         Arrive, Lose, Tick, vars, Faultless
<1> QED BY <1>1, <1>2, <1>3

\* A process gets to its preamble or its message by writing its number or, from
\* the preamble to the message, by showing the former.
LEMMA ShowersCome ==
  ASSUME TypeOK, Faultless, [Next]_vars, NEW p \in Procs, ~CloseLock(p), ~Quiet(p)'
  PROVE  /\ pc'[p] = "preamble" => pc[p] = "preamble"
         /\ pc'[p] = "message" => pc[p] = "message" \/ ShowPreamble(p)
<1>0. pc \in [Procs -> Steps]
  BY DEF TypeOK
<1> USE DEF Quiet
<1>1. ASSUME NEW q \in Procs, OpenLock(q) \/ Crash(q) \/ (ProcStep(q) /\ q # p)
      PROVE  pc'[p] = pc[p]
  BY <1>1, <1>0
  DEF OpenLock, Crash, ProcStep, CloseLock, ShowPreamble, ShowMessage, CheckLock,
      ResetSign, Goto, Show, Faultless
<1>2. CASE ShowMessage(p) \/ CheckLock(p) \/ ResetSign(p)
  BY <1>2, <1>0 DEF ShowMessage, CheckLock, ResetSign, Goto
<1>3. CASE ShowPreamble(p)
  BY <1>3, <1>0 DEF ShowPreamble, Goto
<1>4. CASE UNCHANGED pc
  BY <1>4
<1> QED BY <1>1, <1>2, <1>3, <1>4 DEF Next, ProcStep, Arrive, Lose, Tick, vars

\* What is under way besides resets was sent by a process at its preamble or
\* its message.
LEMMA ShownWrites ==
  ASSUME TypeOK, [Next]_vars, ~Tick, NEW w \in writes', w \notin writes, w.text # "default"
  PROVE  \E p \in Procs : ShowPreamble(p) \/ ShowMessage(p)
BY DEF Next, ProcStep, OpenLock, CloseLock, CheckLock, ResetSign, Crash, Arrive,
       Lose, Send, vars

\* Every step preserves that the holder waits until what it displaced is shown.
LEMMA OutlastsStep ==
  ASSUME Faultless, SleepsAreLong
  PROVE  QuietInv /\ [Next]_vars => HolderOutlasts'
<1> SUFFICES ASSUME QuietInv, [Next]_vars, NEW h \in Procs, Holder(h)', pc'[h] = "check"
             PROVE  /\ \A p \in Procs :
                         /\ pc'[p] = "preamble" => timer'[h] >= ResetTime
                         /\ pc'[p] = "message" =>
                              timer'[h] + PreambleTime >= ResetTime + timer'[p]
                    /\ \A w \in writes' : w.text # "default" =>
                         timer'[h] + PreambleTime + WriteTime >= ResetTime + w.ttl
  BY DEF HolderOutlasts
<1>0. /\ TypeOK /\ TypeOK' /\ Timers /\ Timers' /\ LockInv
  BY TypeStep, TimersStep DEF QuietInv, LockInv
<1>a. /\ pc \in [Procs -> Steps] /\ timer \in [Procs -> Nat] /\ timer' \in [Procs -> Nat]
      /\ \A w \in writes' : w.ttl \in Nat /\ w.ttl <= WriteTime
      /\ Hold(h) = ResetTime
  BY <1>0, TimeAssumption DEF TypeOK, Write, Hold, SleepsAreLong
<1>b. \A p \in Procs : ~CloseLock(p)
  <2>1. ~CloseLock(h)
    BY <1>a DEF CloseLock, Show, Goto
  <2> QED BY <2>1, <1>0, HolderMoves
<1>c. Numbered
  BY <1>0 DEF LockInv, HasNumber, Numbered
<1>1. CASE timer'[h] = Hold(h)
  <2>1. \A p \in Procs : pc'[p] = "message" => timer'[p] <= PreambleTime
    BY <1>0 DEF Timers
  <2> QED BY <1>1, <1>a, <2>1, TimeAssumption
<1>2. ASSUME Holder(h), pc[h] = "check", Tick
      PROVE  /\ \A p \in Procs :
                  /\ pc'[p] = "preamble" => timer'[h] >= ResetTime
                  /\ pc'[p] = "message" =>
                       timer'[h] + PreambleTime >= ResetTime + timer'[p]
             /\ \A w \in writes' : w.text # "default" =>
                  timer'[h] + PreambleTime + WriteTime >= ResetTime + w.ttl
  <2>1. UNCHANGED pc /\ timer'[h] = timer[h] - 1
    BY <1>2, <1>0, TickWaits DEF Tick
  <2>2. \A p \in Procs : pc[p] # "preamble"
    BY <1>2, <1>0, TickWaits
  <2>3. ASSUME NEW p \in Procs, pc[p] = "message"
        PROVE  timer'[h] + PreambleTime >= ResetTime + timer'[p]
    <3>1. timer'[p] = timer[p] - 1
      BY <1>2, <2>3, <1>0, TickWaits
    <3>2. timer[h] + PreambleTime >= ResetTime + timer[p]
      BY <1>2, <2>3 DEF QuietInv, HolderOutlasts
    <3> QED BY <2>1, <3>1, <3>2, <1>a, TimeAssumption
  <2>4. ASSUME NEW w \in writes', w.text # "default"
        PROVE  timer'[h] + PreambleTime + WriteTime >= ResetTime + w.ttl
    <3>1. PICK v \in writes : w.text = v.text /\ v.ttl \in Nat /\ w.ttl = v.ttl - 1
      BY <1>2, <1>0, TickWaits
    <3>2. timer[h] + PreambleTime + WriteTime >= ResetTime + v.ttl
      BY <1>2, <2>4, <3>1 DEF QuietInv, HolderOutlasts
    <3> QED BY <2>1, <3>1, <3>2, <1>a, TimeAssumption
  <2> QED BY <2>1, <2>2, <2>3, <2>4
<1>3. ASSUME Holder(h), pc[h] = "check", ~Tick, timer'[h] = timer[h]
      PROVE  /\ \A p \in Procs :
                  /\ pc'[p] = "preamble" => timer'[h] >= ResetTime
                  /\ pc'[p] = "message" =>
                       timer'[h] + PreambleTime >= ResetTime + timer'[p]
             /\ \A w \in writes' : w.text # "default" =>
                  timer'[h] + PreambleTime + WriteTime >= ResetTime + w.ttl
  <2>1. ASSUME NEW p \in Procs, pc'[p] = "preamble" PROVE timer'[h] >= ResetTime
    BY <2>1, <1>3, <1>0, <1>b, ShowersCome DEF Quiet, QuietInv, HolderOutlasts
  <2>2. ASSUME NEW p \in Procs, pc'[p] = "message"
        PROVE  timer'[h] + PreambleTime >= ResetTime + timer'[p]
    <3>1. CASE ShowPreamble(p)
      <4>1. pc[p] = "preamble" /\ timer'[p] = PreambleTime
        BY <3>1, <1>a DEF ShowPreamble, Awake, Sleep, Faultless
      <4>2. timer[h] >= ResetTime
        BY <4>1, <1>3 DEF QuietInv, HolderOutlasts
      <4> QED BY <4>1, <4>2, <1>3, <1>a, TimeAssumption
    <3>2. CASE pc[p] = "message"
      <4>1. timer[h] + PreambleTime >= ResetTime + timer[p]
        BY <3>2, <1>3 DEF QuietInv, HolderOutlasts
      <4>2. timer'[p] = timer[p]
        BY <2>2, <3>2, <1>3, <1>a
        DEF Next, ProcStep, OpenLock, CloseLock, ShowPreamble, ShowMessage,
            CheckLock, ResetSign, Crash, Arrive, Lose, Awake, Goto, Sleep, vars
      <4> QED BY <4>1, <4>2, <1>3
    <3> QED BY <2>2, <3>1, <3>2, <1>0, <1>b, ShowersCome DEF Quiet
  <2>3. ASSUME NEW w \in writes', w.text # "default"
        PROVE  timer'[h] + PreambleTime + WriteTime >= ResetTime + w.ttl
    <3>1. CASE w \in writes
      BY <3>1, <2>3, <1>3 DEF QuietInv, HolderOutlasts
    <3>2. ASSUME NEW p \in Procs, ShowPreamble(p)
          PROVE  timer'[h] + PreambleTime + WriteTime >= ResetTime + w.ttl
      <4>1. timer[h] >= ResetTime
        BY <3>2, <1>3 DEF ShowPreamble, Awake, QuietInv, HolderOutlasts
      <4> QED BY <4>1, <1>3, <1>a, TimeAssumption
    <3>3. ASSUME NEW p \in Procs, ShowMessage(p)
          PROVE  timer'[h] + PreambleTime + WriteTime >= ResetTime + w.ttl
      <4>1. timer[p] = 0 /\ timer[h] + PreambleTime >= ResetTime + timer[p]
        BY <3>3, <1>3 DEF ShowMessage, Awake, QuietInv, HolderOutlasts
      <4> QED BY <4>1, <1>3, <1>a, TimeAssumption
    <3> QED BY <2>3, <3>1, <3>2, <3>3, <1>0, <1>3, ShownWrites
  <2> QED BY <2>1, <2>2, <2>3
<1> QED BY <1>0, <1>c, <1>1, <1>2, <1>3, HolderWaits DEF LockInv

\* Every step preserves that the holder resets the signs after all others.
LEMMA ResetsStep ==
  ASSUME Faultless, SleepsAreLong
  PROVE  QuietInv /\ [Next]_vars => HolderResets'
<1> SUFFICES ASSUME QuietInv, [Next]_vars, NEW h \in Procs, Holder(h)'
             PROVE  /\ pc'[h] \in {"preamble", "message", "check", "reset", "done"}
                    /\ pc'[h] \in {"reset", "done"} => Clean' /\ \A p \in Procs : Quiet(p)'
                    /\ pc'[h] = "done" => sign' = Default \/ writes' # {}
  BY DEF HolderResets
<1>0. LockInv /\ TypeOK /\ pc \in [Procs -> Steps] /\ timer \in [Procs -> Nat]
      /\ \A w \in writes : w.ttl \in Nat
  BY TimeAssumption DEF QuietInv, LockInv, TypeOK, Write
<1>1. CASE CloseLock(h)
  <2>1. pc'[h] \in {"preamble", "message"}
    BY <1>1, <1>0 DEF CloseLock, Show, Goto
  <2> QED BY <2>1
<1>2. ASSUME Holder(h), \A p \in Procs : ~OpenLock(p) /\ ~CloseLock(p)
      PROVE  /\ pc'[h] \in {"preamble", "message", "check", "reset", "done"}
             /\ pc'[h] \in {"reset", "done"} => Clean' /\ \A p \in Procs : Quiet(p)'
             /\ pc'[h] = "done" => sign' = Default \/ writes' # {}
  <2>0. /\ pc[h] \in {"preamble", "message", "check", "reset", "done"}
        /\ pc[h] \in {"reset", "done"} => Clean /\ \A p \in Procs : Quiet(p)
        /\ pc[h] = "done" => sign = Default \/ writes # {}
    BY <1>2 DEF QuietInv, HolderResets
  <2>1. pc'[h] \in {"preamble", "message", "check", "reset", "done"}
    BY <1>2, <2>0, <1>0
    DEF Next, ProcStep, ShowPreamble, ShowMessage, CheckLock, ResetSign, Crash,
        Arrive, Lose, Tick, Goto, vars, Faultless, Holder
  <2>2. ASSUME pc[h] \in {"reset", "done"} PROVE Clean' /\ \A p \in Procs : Quiet(p)'
    <3>1. ASSUME NEW p \in Procs PROVE Quiet(p)'
      BY <2>0, <2>2, <1>2, <1>0, ShowersCome DEF Quiet, ShowPreamble, Awake
    <3>2. ASSUME NEW w \in writes', w.text # "default" PROVE FALSE
      <4>1. CASE Tick
        <5>1. PICK v \in writes : w.text = v.text
          BY <4>1, <1>0, TickWaits DEF QuietInv
        <5> QED BY <2>0, <2>2, <3>2, <5>1 DEF Clean
      <4>2. CASE ~Tick
        BY <4>2, <2>0, <2>2, <3>2, <1>0, ShownWrites
        DEF Clean, Quiet, ShowPreamble, ShowMessage, Awake
      <4> QED BY <4>1, <4>2
    <3> QED BY <3>1, <3>2 DEF Clean
  <2>3. ASSUME pc[h] \notin {"reset", "done"}, pc'[h] \in {"reset", "done"}
        PROVE  Clean' /\ (\A p \in Procs : Quiet(p)') /\ pc'[h] = "reset"
    <3>1. CheckLock(h)
      BY <2>3, <1>0
      DEF Next, ProcStep, OpenLock, CloseLock, ShowPreamble, ShowMessage, CheckLock,
          ResetSign, Crash, Arrive, Lose, Tick, Goto, Show, Awake, vars
    <3>2. /\ pc[h] = "check" /\ timer[h] = 0 /\ UNCHANGED writes
          /\ \A p \in Procs : p # h => pc'[p] = pc[p]
      BY <3>1, <1>0 DEF CheckLock, Awake, Goto
    <3>3. \A p \in Procs : Quiet(p)
      BY <1>2, <3>2, <1>0, TimeAssumption
      DEF QuietInv, HolderOutlasts, SleepsAreLong, Quiet
    <3>4. Clean
      BY <1>2, <3>2, <1>0, TimeAssumption
      DEF QuietInv, HolderOutlasts, SleepsAreLong, Clean
    <3>5. pc'[h] = "reset"
      BY <2>3, <3>1, <1>0 DEF CheckLock, Goto
    <3> QED BY <3>2, <3>3, <3>4, <3>5 DEF Clean, Quiet
  <2>4. ASSUME pc'[h] = "done", pc[h] \in {"reset", "done"}
        PROVE  sign' = Default \/ writes' # {}
    <3>1. CASE pc[h] = "reset"
      <4>1. ResetSign(h)
        BY <2>4, <3>1, <1>0
        DEF Next, ProcStep, OpenLock, CloseLock, ShowPreamble, ShowMessage, CheckLock,
            ResetSign, Crash, Arrive, Lose, Tick, Goto, Show, Awake, vars
      <4> QED BY <4>1 DEF ResetSign, Send, Faultless
    <3>2. ASSUME pc[h] = "done", NEW w \in writes, Arrive(w) PROVE sign' = Default
      BY <2>0, <3>2 DEF Arrive, Clean
    <3>3. ASSUME NEW w \in writes, Lose(w) PROVE FALSE
      BY <3>3 DEF Lose, Faultless
    <3>4. CASE Tick
      BY <2>0, <2>4, <3>1, <3>4 DEF Tick
    <3>5. ASSUME NEW p \in Procs, ProcStep(p) \/ Crash(p)
          PROVE  UNCHANGED sign /\ writes \subseteq writes'
      BY <3>5
      DEF ProcStep, CloseLock, ShowPreamble, ShowMessage, CheckLock, ResetSign, Crash, Send
    <3> QED BY <1>2, <2>0, <2>4, <3>1, <3>2, <3>3, <3>4, <3>5 DEF Next, vars
  <2> QED BY <2>1, <2>2, <2>3, <2>4
<1> QED BY <1>0, <1>1, <1>2, HolderMoves

\* As long as every process is idle, nothing is shown.
LEMMA UntouchedStep == TypeOK /\ Untouched /\ [Next]_vars => Untouched'
<1> SUFFICES ASSUME TypeOK, Untouched, [Next]_vars, \A p \in Procs : pc'[p] = "idle"
             PROVE  sign' = Default /\ writes' = {}
  BY DEF Untouched
<1>0. pc \in [Procs -> Steps]
  BY DEF TypeOK
<1>1. ASSUME NEW p \in Procs, OpenLock(p) \/ ProcStep(p) \/ Crash(p) PROVE FALSE
  BY <1>1, <1>0
  DEF OpenLock, ProcStep, CloseLock, ShowPreamble, ShowMessage, CheckLock, ResetSign,
      Crash, Goto, Show
<1>2. UNCHANGED pc
  BY <1>1 DEF Next, Arrive, Lose, Tick, vars
<1>3. sign = Default /\ writes = {}
  BY <1>2 DEF Untouched
<1> QED BY <1>1, <1>3 DEF Next, Tick, vars

LEMMA QuietInit == Init => QuietInv
<1> SUFFICES ASSUME Init PROVE QuietInv
  OBVIOUS
<1>1. LockInv
  BY LockInit
<1>2. Timers
  BY DEF Init, Timers
<1>3. \A h \in Procs : ~Holder(h)
  BY DEF Init, Holder
<1> QED
  BY <1>1, <1>2, <1>3
  DEF Init, QuietInv, HolderOutlasts, HolderResets, Untouched

\* When every alert is over and every write has arrived, the signs show the
\* default message: the lock decides on one process that resets them, and its
\* reset is the last write.  For any number of alerts and any sleeps of which
\* the last is longer than the preamble and the way of a write to the signs.
THEOREM QuietSignsShowDefault ==
  ASSUME Faultless, SleepsAreLong PROVE Spec => []QuietShowsDefault
<1>1. QuietInv /\ [Next]_vars => QuietInv'
  BY LockStep, TimersStep, OutlastsStep, ResetsStep, UntouchedStep
  DEF QuietInv, LockInv
<1>2. ASSUME QuietInv, \A p \in Procs : pc[p] \in Ended \cup {"idle"}, writes = {}
      PROVE  sign = Default
  <2>1. CASE lockFile = NoLock
    BY <1>2, <2>1 DEF QuietInv, LockInv, FileHasOwner, Untouched, Ended
  <2>2. CASE lockFile # NoLock
    <3>1. PICK h \in Procs : Holder(h)
      BY <1>2, <2>2 DEF QuietInv, LockInv, FileHasOwner, Holder
    <3>2. pc[h] = "done"
      BY <1>2, <3>1 DEF QuietInv, HolderResets, Ended
    <3> QED BY <1>2, <3>1, <3>2 DEF QuietInv, HolderResets
  <2> QED BY <2>1, <2>2
<1>3. QuietInv => QuietShowsDefault
  BY <1>2 DEF QuietShowsDefault
<1> QED BY <1>1, <1>3, QuietInit, PTL DEF Spec
=============================================================================
