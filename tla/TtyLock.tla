------------------------------ MODULE TtyLock ------------------------------
(***************************************************************************)
(* The LED signs and the file tty_lock.lock (watchman-alerting.pl).  Every *)
(* alert that uses the signs forks a process that writes a random number   *)
(* into the file, shows its message, sleeps, and puts the default message  *)
(* back if the file still holds its number.  Three places of the daemon    *)
(* run this protocol: the AlertQueue poller, the RF tone poller and sub    *)
(* alert.  LED_Display->new hands each write to a forked child that ends   *)
(* some time later, so that writes can overtake one another.               *)
(*                                                                         *)
(* Time is counted in ticks.  A process that is not asleep runs within the *)
(* tick; a write reaches the sign WriteTime ticks after its fork at the    *)
(* latest.                                                                 *)
(***************************************************************************)
EXTENDS Naturals

CONSTANTS
  Procs,         \* the forked LED processes, one per alert
  NoProc,
  Kind,          \* Kind[p]: "queue", "rf" or "dispatch"
  LockIds,       \* the numbers int(rand(50000)) + 5000 can give
  Short,         \* those of four digits, the others having five
  Torn,          \* a number nobody drew
  NoLock,        \* an empty or missing lock file, an undefined $ttylock
  PreambleTime,  \* LED_PreambleLength
  ResetTime,     \* LED_MessageResetTime, AlertQueueLED_DisplayReset
  WriteTime,     \* bound: ticks until a forked write has reached the sign
  Distinct,      \* TRUE: no two processes draw the same number
  FileMayFail,   \* TRUE: the lock file may fail to open
  SignMayFail,   \* TRUE: LED_Display->new or its child may fail
  MayCrash       \* TRUE: a process may die at any step

Kinds == {"queue", "rf", "dispatch"}

ASSUME KindAssumption == Kind \in [Procs -> Kinds]
ASSUME NoProcAssumption == NoProc \notin Procs
ASSUME LockAssumption ==
  /\ NoLock \notin LockIds \cup {Torn}
  /\ Torn \notin LockIds
  /\ Short \subseteq LockIds
ASSUME TimeAssumption ==
  PreambleTime \in Nat /\ ResetTime \in Nat /\ WriteTime \in Nat
ASSUME FaultsAssumption ==
  {Distinct, FileMayFail, SignMayFail, MayCrash} \subseteq BOOLEAN

VARIABLES
  lockFile,  \* the number in tty_lock.lock
  id,        \* id[p]: $ttylock
  pc,        \* pc[p]: what p does when its sleep is over
  timer,     \* timer[p]: ticks left of its sleep
  writes,    \* the forked writes that have not reached the sign
  sign       \* what the sign shows, and by whom

vars == <<lockFile, id, pc, timer, writes, sign>>

Steps == {"idle", "lock", "preamble", "message", "check", "reset", "done", 
          "expired", "dead"}
Ended == {"done", "expired", "dead"}
Texts == {"preamble", "message", "default"}

Shown   == [by : Procs \cup {NoProc}, text : Texts]
Write   == [by : Procs, text : Texts, ttl : 0 .. WriteTime]
Default == [by |-> NoProc, text |-> "default"]

\* How long p sleeps after its message.  The RF poller reads the setting from
\* $RF_Alert->{RF_LEDResetTime}, where nothing ever puts it: sleep returns.
Hold(p) == IF Kind[p] = "rf" THEN 0 ELSE ResetTime

Awake(p, step) == pc[p] = step /\ timer[p] = 0
Goto(p, step)  == pc' = [pc EXCEPT ![p] = step]
Sleep(p, n)    == timer' = [timer EXCEPT ![p] = n]
Send(p, text)  == writes' = writes \cup {[by |-> p, text |-> text, ttl |-> WriteTime]}

TypeOK ==
  /\ lockFile \in LockIds \cup {NoLock, Torn}
  /\ id \in [Procs -> LockIds \cup {NoLock}]
  /\ pc \in [Procs -> Steps]
  /\ timer \in [Procs -> Nat]
  /\ writes \subseteq Write
  /\ sign \in Shown

\* init_ledboards resets the signs when the daemon starts.
Init ==
  /\ lockFile = NoLock
  /\ id = [p \in Procs |-> NoLock]
  /\ pc = [p \in Procs |-> "idle"]
  /\ timer = [p \in Procs |-> 0]
  /\ writes = {}
  /\ sign = Default

Show(p) == Goto(p, IF Kind[p] = "dispatch" THEN "preamble" ELSE "message")

\* The alert forks p, and p calls ttylock: it draws a number and opens the
\* file, which empties it.  If the file cannot be opened, p goes on regardless.
OpenLock(p) ==
  /\ pc[p] = "idle"
  /\ \E n \in LockIds :
       /\ Distinct => \A q \in Procs : id[q] # n
       /\ id' = [id EXCEPT ![p] = n]
  /\ \/ lockFile' = NoLock /\ Goto(p, "lock")
     \/ FileMayFail /\ UNCHANGED lockFile /\ Show(p)
  /\ UNCHANGED <<timer, writes, sign>>

\* Mutant: the number is appended to what another process has written.
CloseLockAppend(p) ==
  /\ pc[p] = "lock"
  /\ lockFile' = IF lockFile = NoLock THEN id[p] ELSE <<lockFile, id[p]>>
  /\ Show(p)
  /\ UNCHANGED <<id, timer, writes, sign>>

\* The number reaches the file when it is closed.  Four digits written over
\* five, by a process that had opened the file before, leave the fifth.
CloseLock(p) ==
  /\ pc[p] = "lock"
  /\ lockFile' = IF id[p] \in Short /\ lockFile \notin Short \cup {NoLock}
                 THEN Torn ELSE id[p]
  /\ Show(p)
  /\ UNCHANGED <<id, timer, writes, sign>>

\* sub alert shows the preamble first; a failed one is skipped.
ShowPreamble(p) ==
  /\ Awake(p, "preamble")
  /\ \/ /\ Send(p, "preamble")
        /\ Sleep(p, PreambleTime)
     \/ /\ SignMayFail
        /\ UNCHANGED <<writes, timer>>
  /\ Goto(p, "message")
  /\ UNCHANGED <<lockFile, id, sign>>

\* Mutant: forgets the number after a message that was shown, too.
ShowMessageForgets(p) ==
  /\ Awake(p, "message")
  /\ Send(p, "message")
  /\ Sleep(p, Hold(p))
  /\ id' = [id EXCEPT ![p] = NoLock]
  /\ Goto(p, "check")
  /\ UNCHANGED <<lockFile, sign>>

\* The message.  The pollers only log a failure.  sub alert forgets its number
\* and calls ttylock_reset, whose truncate of a file opened for reading fails.
ShowMessage(p) ==
  /\ Awake(p, "message")
  /\ \/ /\ Send(p, "message")
        /\ Sleep(p, Hold(p))
        /\ UNCHANGED id
     \/ /\ SignMayFail
        /\ Sleep(p, IF Kind[p] = "dispatch" THEN 1 ELSE Hold(p))
        /\ id' = IF Kind[p] = "dispatch" THEN [id EXCEPT ![p] = NoLock] ELSE id
        /\ UNCHANGED writes
  /\ Goto(p, "check")
  /\ UNCHANGED <<lockFile, sign>>

\* Mutant: resets whenever the file holds any number.
CheckLockBlind(p) ==
  /\ Awake(p, "check")
  /\ Goto(p, IF lockFile # NoLock THEN "reset" ELSE "expired")
  /\ UNCHANGED <<lockFile, id, timer, writes, sign>>

\* read_file of the lock, compared with p's own number.
CheckLock(p) ==
  /\ Awake(p, "check")
  /\ Goto(p, IF lockFile # NoLock /\ lockFile = id[p] THEN "reset" ELSE "expired")
  /\ UNCHANGED <<lockFile, id, timer, writes, sign>>

\* Mutant: the call without reset => 1 and without a message writes nothing.
ResetSignNothing(p) ==
  /\ Awake(p, "reset")
  /\ Goto(p, "done")
  /\ UNCHANGED <<lockFile, id, timer, writes, sign>>

\* LED_Display->new( reset => 1 ); a failure is only logged.
ResetSign(p) ==
  /\ Awake(p, "reset")
  /\ \/ Send(p, "default")
     \/ SignMayFail /\ UNCHANGED writes
  /\ Goto(p, "done")
  /\ UNCHANGED <<lockFile, id, timer, sign>>

\* A forked write reaches the sign.
Arrive(w) ==
  /\ writes' = writes \ {w}
  /\ sign' = IF w.text = "default" THEN Default
             ELSE [by |-> w.by, text |-> w.text]
  /\ UNCHANGED <<lockFile, id, pc, timer>>

\* The forked child of LED_Display->new fails, which nobody learns of.
Lose(w) ==
  /\ SignMayFail
  /\ writes' = writes \ {w}
  /\ UNCHANGED <<lockFile, id, pc, timer, sign>>

\* The process dies between two steps.
Crash(p) ==
  /\ MayCrash
  /\ pc[p] \notin Ended \cup {"idle"}
  /\ Goto(p, "dead")
  /\ UNCHANGED <<lockFile, id, timer, writes, sign>>

\* A tick passes when no process has a step to take and no write is due.
Tick ==
  /\ \A p \in Procs : timer[p] = 0 => pc[p] \in Ended \cup {"idle"}
  /\ \A w \in writes : w.ttl > 0
  /\ timer' = [p \in Procs |-> IF timer[p] = 0 THEN 0 ELSE timer[p] - 1]
  /\ writes' = {[w EXCEPT !.ttl = @ - 1] : w \in writes}
  /\ UNCHANGED <<lockFile, id, pc, sign>>

ProcStep(p) ==
  CloseLock(p) \/ ShowPreamble(p) \/ ShowMessage(p) \/ CheckLock(p) \/ ResetSign(p)

Next ==
  \/ \E p \in Procs : OpenLock(p) \/ ProcStep(p) \/ Crash(p)
  \/ \E w \in writes : Arrive(w) \/ Lose(w)
  \/ Tick

Spec == Init /\ [][Next]_vars

\* Processes run, sleeps end and writes arrive; no alert has to come.
FairSpec ==
  /\ Spec
  /\ \A p \in Procs : WF_vars(ProcStep(p))
  /\ WF_vars(\E w \in writes : Arrive(w))
  /\ WF_vars(Tick)
-----------------------------------------------------------------------------
\* When every alert is over and every write has arrived, the signs show the
\* default message again: the lock decides on one process that resets them,
\* and its reset is the last write (no failures; sleeps as in the defaults,
\* ResetTime longer than PreambleTime + WriteTime).
QuietShowsDefault ==
  /\ \A p \in Procs : pc[p] \in Ended \cup {"idle"}
  /\ writes = {}
  => sign = Default

\* A process gives up its reset only in favour of another one that owns the
\* lock or is about to: "TTY lock expired - LED display reset not required".
ExpiredHasOwner ==
  [][ \A p \in Procs : pc[p] = "check" /\ pc'[p] = "expired" =>
        \E q \in Procs \ {p} :
          pc[q] = "lock" \/ (pc[q] # "idle" /\ id[q] = lockFile) ]_vars

\* A reset wipes the message of the process that holds the lock only if that
\* message is so fresh that it was sent while the reset was under way: the
\* check of the lock and the reset are two steps, and the write of a reset may
\* be overtaken by that of a message.  Whatever fails or dies.
ResetSparesHolder ==
  [][ \A w \in writes \ writes' :
        /\ pc' = pc /\ timer' = timer /\ w.text = "default" /\ sign' = Default
        /\ sign.text = "message" /\ pc[sign.by] = "check"
        /\ id[sign.by] = lockFile
        => timer[sign.by] + WriteTime >= Hold(sign.by) ]_vars

\* Every alert ends, and whatever an alert shows is taken down eventually.
SignEventuallyDefault == []<>(sign = Default)

\* The lock file gives the signs an owner: the process whose number it holds.
Owner ==
  IF lockFile = NoLock THEN NoProc
  ELSE CHOOSE p \in Procs : id[p] = lockFile

Outcome ==
  [p \in Procs |->
     CASE pc[p] = "idle" -> "none"
       [] pc[p] = "lock" -> "taking"
       [] pc[p] \in {"preamble", "message", "check"} -> "showing"
       [] pc[p] \in {"reset", "done"} -> "reset"
       [] OTHER -> "left"]

DO == INSTANCE DisplayOwner WITH owner <- Owner, outcome <- Outcome

\* With distinct numbers, no failures and no deaths, the lock file implements
\* the ownership of the signs.
ImplementsOwner == DO!Spec
=============================================================================
