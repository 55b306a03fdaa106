------------------------------ MODULE Supervisor ------------------------------
(***************************************************************************)
(* The processes of the daemon (watchman-alerting.pl): the main program    *)
(* forks the poller of pending incidents, and, through one                 *)
(* Parallel::ForkManager, the reader of the RF tones and the listener of   *)
(* the dispatch port.  ForkManager calls run_on_finish for each child it   *)
(* has waited for, and that callback jumps, with goto, out of whatever     *)
(* ForkManager was doing to the label at which the child was started; the  *)
(* main program goes on from there.                                        *)
(*                                                                         *)
(* HUP, INT and QUIT clear the flags of the process that gets them, which  *)
(* then waits until it has no child left (term_handler), behind            *)
(* ForkManager's back.  Children have copies of the flags, made when they  *)
(* were forked.                                                            *)
(***************************************************************************)
EXTENDS Naturals, FiniteSets

CONSTANTS
  Slot,       \* process identifiers, of which a new process gets the lowest free
  MaxProc,    \* the limit given to ForkManager
  Polls,      \* whether AlertQueueEnabled is set
  Deaths,     \* bound: children that die or do not get started
  Signals     \* bound: signals to one of the processes that is not in a handler

ASSUME SlotAssumption == IsFiniteSet(Slot) /\ Slot \subseteq Nat
ASSUME BoundAssumption == MaxProc \in Nat \ {0} /\ Deaths \in Nat /\ Signals \in Nat
ASSUME SettingAssumption == Polls \in BOOLEAN

Service == {"RF", "INET"}          \* the children of ForkManager
Kind    == Service \cup {"POLL"}
Process == [kind : Kind, state : {"none", "new", "up", "zombie"}, goes : BOOLEAN]
NoProcess == [kind |-> "POLL", state |-> "none", goes |-> FALSE]

\* The statements of the main program: a flag is raised, `start' forks at its
\* label, wait_all_children; a signal handler; the end.
Statement == {"RF_on", "RF", "INET_on", "INET", "wait", "stop", "gone"}

VARIABLES
  at,         \* the statement of the main program
  back,       \* the one that the (outermost) handler returns to
  flag,       \* $CONTINUE_RFPOLL and $CONTINUE of the main program
  proc,       \* proc[s]: the child s; goes is its copy of the flag
  table,      \* the children ForkManager knows of
  deaths, signals,
  readers,    \* history: how many readers of tones were forked
  abandoned,  \* history: a jump has left the restart of the reader
  stopped,    \* history: the statement at which the last signal came, if not
              \* that of one within a handler
  late        \* history: services forked after that signal

budget  == <<deaths, signals>>
history == <<readers, abandoned, stopped, late>>
vars    == <<at, back, flag, proc, table, deaths, signals, readers, abandoned, stopped, late>>

TypeOK ==
  /\ at \in Statement /\ back \in Statement \ {"stop"}
  /\ flag \in [Service -> BOOLEAN]
  /\ proc \in [Slot -> Process]
  /\ table \subseteq Slot
  /\ deaths \in Nat /\ signals \in Nat
  /\ readers \in Nat /\ abandoned \in BOOLEAN
  /\ stopped \in Statement \cup {"never"}
  /\ late \subseteq Service

\* The poller of pending incidents is there already.
Init ==
  /\ at = "RF_on" /\ back = "RF_on"
  /\ flag = [k \in Service |-> FALSE]
  /\ proc = [s \in Slot |->
               IF Polls /\ \A r \in Slot : s <= r
               THEN [kind |-> "POLL", state |-> "up", goes |-> TRUE]
               ELSE NoProcess]
  /\ table = {}
  /\ deaths = 0 /\ signals = 0
  /\ readers = 0 /\ abandoned = FALSE /\ stopped = "never" /\ late = {}
-----------------------------------------------------------------------------
Has(s, k, states) ==
  proc[s].kind = k /\ proc[s].state \in states
Zombie(s) == proc[s].state = "zombie"
Free == {s \in Slot \ table : proc[s] = NoProcess}
Alive(s)  == proc[s].state \in {"new", "up"}
-----------------------------------------------------------------------------
(* The main program.                                                       *)

RaiseFlag(k) ==
  /\ at = IF k = "RF" THEN "RF_on" ELSE "INET_on"
  /\ flag' = [flag EXCEPT ![k] = TRUE]
  /\ at' = k
  /\ UNCHANGED <<back, proc, table, budget, history>>

\* `start' forks when ForkManager has room and its last look, which is not
\* taken when it knows of no child, has found no child that ended.
Fork(k) ==
  /\ at = k
  /\ Cardinality(table) < MaxProc
  /\ table = {} \/ \A s \in Slot : ~Zombie(s)
  /\ \E s \in Free :
       /\ \A r \in Free : s <= r
       /\ proc' = [proc EXCEPT ![s] = [kind |-> k, state |-> "new", goes |-> flag[k]]]
       /\ table' = table \cup {s}
  /\ at' = IF k = "RF" THEN "INET_on" ELSE "wait"
  /\ readers' = IF k = "RF" THEN readers + 1 ELSE readers
  /\ late' = IF stopped = "never" THEN late ELSE late \cup {k}
  /\ UNCHANGED <<back, flag, budget, abandoned, stopped>>

\* ForkManager dies of a fork that fails, and the main program with it.
ForkFails ==
  /\ at \in Service
  /\ deaths < Deaths /\ deaths' = deaths + 1
  /\ at' = "gone"
  /\ UNCHANGED <<back, flag, proc, table, signals, history>>

\* `start' and wait_all_children wait for any child.  run_on_finish jumps to
\* the label of one of ForkManager's children while its flag is up.
\* Mutants: every end is taken for that of the reader; one service is forgotten.
Reaping(s, to) ==
  /\ at \in Service \cup {"wait"}
  /\ table # {} /\ Zombie(s)
  /\ at' = IF s \in table /\ flag[proc[s].kind] THEN to ELSE at
  /\ abandoned' = (abandoned \/ (at = "RF" /\ at' # "RF"))
  /\ proc' = [proc EXCEPT ![s] = NoProcess]
  /\ table' = table \ {s}
  /\ UNCHANGED <<back, flag, budget, readers, stopped, late>>
MutantReapReader(s)  == Reaping(s, "RF")
MutantReapNoPort(s)  == Reaping(s, IF proc[s].kind = "RF" THEN "RF" ELSE at)
MutantReapNoTones(s) == Reaping(s, IF proc[s].kind = "RF" THEN at ELSE "INET")

Reap(s) ==
  /\ at \in Service \cup {"wait"}
  /\ table # {} /\ Zombie(s)
  /\ LET jumps == s \in table /\ flag[proc[s].kind]
     IN  /\ at' = IF jumps THEN proc[s].kind ELSE at
         /\ abandoned' = (abandoned \/ (at = "RF" /\ jumps))
  /\ proc' = [proc EXCEPT ![s] = NoProcess]
  /\ table' = table \ {s}
  /\ UNCHANGED <<back, flag, budget, readers, stopped, late>>

\* wait_all_children has returned.
End ==
  /\ at = "wait" /\ table = {}
  /\ at' = "gone"
  /\ UNCHANGED <<back, flag, proc, table, budget, history>>
-----------------------------------------------------------------------------
(* The signals.                                                            *)

\* Mutant: the handler only notes the signal.
MutantInterruptNoted ==
  /\ at \notin {"stop", "gone"}
  /\ signals < Signals /\ signals' = signals + 1
  /\ stopped' = at /\ late' = {}
  /\ UNCHANGED <<at, back, flag, proc, table, deaths, readers, abandoned>>

\* HUP and INT go on after the handler, QUIT ends there.  A handler keeps off its
\* own signal only: another one is handled within it (and needs no bound).
Interrupt ==
  /\ at # "gone"
  /\ flag' = [k \in Service |-> FALSE]
  /\ at' = "stop"
  /\ \/ /\ at # "stop"
        /\ signals < Signals /\ signals' = signals + 1
        /\ back' \in {at, "gone"}
        /\ stopped' = at /\ late' = {}
     \/ /\ at = "stop"
        /\ back' \in {back, "gone"}
        /\ UNCHANGED <<signals, stopped, late>>
  /\ UNCHANGED <<proc, table, deaths, readers, abandoned>>

HandlerReaps(s) ==
  /\ at = "stop" /\ Zombie(s)
  /\ proc' = [proc EXCEPT ![s] = NoProcess]
  /\ UNCHANGED <<at, back, flag, table, budget, history>>

\* %PIDS is empty: no child is told to end, and the handler waits for all.
HandlerReturns ==
  /\ at = "stop"
  /\ \A s \in Slot : proc[s] = NoProcess
  /\ at' = back
  /\ UNCHANGED <<back, flag, proc, table, budget, history>>

\* A child gets one of these signals.
InterruptChild(s) ==
  /\ Alive(s) /\ proc[s].goes
  /\ signals < Signals /\ signals' = signals + 1
  /\ proc' = [proc EXCEPT ![s].goes = FALSE]
  /\ UNCHANGED <<at, back, flag, table, deaths, history>>

\* TERM, to any of them: for each process that is not a test-pid.pl, the list
\* of line 139 has the false value of the comparison, and killchd sends KILL to
\* process 0, which is everyone in the process group.
Terminate ==
  /\ at # "gone" \/ \E s \in Slot : Alive(s)
  /\ signals < Signals /\ signals' = signals + 1
  /\ at' = "gone"
  /\ proc' = [s \in Slot |-> NoProcess]
  /\ UNCHANGED <<back, flag, table, deaths, history>>
-----------------------------------------------------------------------------
(* The children.                                                           *)

Bound == \E s \in Slot : Has(s, "INET", {"up"})

Serve(s) ==
  /\ \E k \in Service : Has(s, k, {"new"}) /\ (k = "INET" => ~Bound)
  /\ proc' = [proc EXCEPT ![s].state = "up"]
  /\ UNCHANGED <<at, back, flag, table, budget, history>>

Exit(s) ==
  /\ proc' = [proc EXCEPT ![s].state = "zombie"]
  /\ UNCHANGED <<at, back, flag, table, signals, history>>

\* The port is in use.
BindFails(s) ==
  /\ Has(s, "INET", {"new"}) /\ Bound
  /\ Exit(s) /\ UNCHANGED deaths

\* The loop finds its flag down.
LoopEnds(s) ==
  /\ proc[s].state = "up" /\ ~proc[s].goes
  /\ Exit(s) /\ UNCHANGED deaths

\* Killed, an uncaught exception, or an initialisation that fails.
Die(s) ==
  /\ Alive(s)
  /\ deaths < Deaths /\ deaths' = deaths + 1
  /\ Exit(s)

\* The reader of tones, of a broken connection to the message broker.
Throw(s) ==
  /\ Has(s, "RF", {"up"})
  /\ Exit(s) /\ UNCHANGED deaths
-----------------------------------------------------------------------------
Main ==
  \/ \E k \in Service : RaiseFlag(k) \/ Fork(k)
  \/ \E s \in Slot : Reap(s) \/ HandlerReaps(s)
  \/ End \/ HandlerReturns

Signal == Interrupt \/ Terminate \/ \E s \in Slot : InterruptChild(s)

Child(s) == Serve(s) \/ BindFails(s) \/ LoopEnds(s) \/ Die(s) \/ Throw(s)

Next == Main \/ ForkFails \/ Signal \/ \E s \in Slot : Child(s)

Spec == Init /\ [][Next]_vars

\* The main program runs and a new child comes to its first accept or poll; a
\* child that has ended is waited for whatever others do.
FairSpec ==
  /\ Spec
  /\ WF_vars(Main)
  /\ \A s \in Slot : WF_vars(Reap(s)) /\ WF_vars(Serve(s) \/ BindFails(s))
-----------------------------------------------------------------------------
(* Properties.                                                             *)

\* The main program runs, means to restart k, and was not robbed of a child by
\* its handler: such an entry stays in ForkManager's table.
Supervised(k) ==
  /\ at \notin {"stop", "gone"} /\ flag[k]
  /\ \A s \in table : proc[s].state # "none"

\* Two readers of one queue would share out the tones: however often it is
\* restarted, and whatever jump gets there, there is one at most.
OneReader ==
  \A s, t \in Slot :
    Has(s, "RF", {"new", "up"}) /\ Has(t, "RF", {"new", "up"}) => s = t

\* When the main program waits with the flag of the reader up, the reader is
\* there to be waited for, unless its restart was left for that of a listener
\* that `start' found dead.
ReaderIsKept ==
  at = "wait" /\ flag["RF"] =>
    abandoned \/ \E s \in table : Has(s, "RF", {"new", "up", "zombie"})

\* Every restart of the reader goes on to fork another listener, but nothing
\* else does: restarts of listeners do not add to them.
ListenersAreCounted ==
  Cardinality({s \in Slot : Has(s, "INET", {"new", "up", "zombie"})}) <= readers

\* Whatever ends, in whatever order, and whichever jump restarts it, there is
\* one reader, not two or none, and no more listeners than restarts explain.
ProcessesAreCounted == OneReader /\ ReaderIsKept /\ ListenersAreCounted

\* A signal that comes while the main program waits is final: it forks no
\* service again.  Of one that comes before the flag of a service is raised,
\* that is not so.
SignalIsFinal == stopped = "wait" => late = {}

\* Whatever dies, and however many listeners compete for it, the port is
\* served again and again for as long as it is supervised.
PortIsServed == []<>(Bound \/ ~Supervised("INET"))

\* What line 468 says of every child that ends: "Premature terminiation of
\* $ident process, attempting to restart".
ReaderIsRestarted ==
  \A s \in Slot :
    (Has(s, "RF", {"zombie"}) /\ Supervised("RF"))
      ~> ((\E t \in Slot : Has(t, "RF", {"new", "up"})) \/ ~Supervised("RF"))
=============================================================================
