----------------------------- MODULE ToneService ------------------------------
(***************************************************************************)
(* The reader of the RF tones (RfAlert) as the child of the main program   *)
(* (Supervisor): it starts and ends as that child does, and a broken       *)
(* connection to the broker ends the child.                                *)
(***************************************************************************)
EXTENDS Supervisor, RfAlert

all == <<vars, rfVars>>

Reads(s) == Has(s, "RF", {"up"})

Begins(s) ==
  /\ Serve(s)
  /\ IF proc[s].kind = "RF" THEN Begin ELSE UNCHANGED rfVars

Connects(s) ==
  /\ Reads(s) /\ proc[s].goes
  /\ Connect
  /\ UNCHANGED vars

\* The reader looks at its flag between two polls.
Leaves(s) ==
  /\ LoopEnds(s)
  /\ IF Reads(s) THEN step = "idle" /\ Fall ELSE UNCHANGED rfVars

Dies(s) ==
  /\ Die(s)
  /\ IF Reads(s) THEN Fall ELSE UNCHANGED rfVars

Throws(s) ==
  /\ Throw(s)
  /\ CannotReceive /\ Fall

Terminated ==
  /\ Terminate
  /\ IF step = "down" THEN UNCHANGED rfVars ELSE Fall

ToneInit == Init /\ RfInit

ToneNext ==
  \/ (Main \/ ForkFails \/ Interrupt) /\ UNCHANGED rfVars
  \/ Terminated
  \/ \E s \in Slot :
       \/ Begins(s) \/ Connects(s) \/ Leaves(s) \/ Dies(s) \/ Throws(s)
       \/ (InterruptChild(s) \/ BindFails(s)) /\ UNCHANGED rfVars
  \/ (Environment \/ Reader) /\ UNCHANGED vars

ToneSpec == ToneInit /\ [][ToneNext]_all

\* In addition to what the main program is owed, the broker accepts connections
\* and delivers, and the reader runs.
FairToneSpec ==
  /\ ToneSpec
  /\ WF_all(Main /\ UNCHANGED rfVars)
  /\ \A s \in Slot :
       /\ WF_all(Reap(s) /\ UNCHANGED rfVars)
       /\ WF_all(Begins(s) \/ (BindFails(s) /\ UNCHANGED rfVars))
       /\ WF_all(Connects(s) \/ Leaves(s) \/ Throws(s))
  /\ WF_all(Push /\ UNCHANGED vars)
  /\ WF_all(Reader /\ UNCHANGED vars)
-----------------------------------------------------------------------------
(* Properties.                                                             *)

ToneTypeOK == TypeOK /\ RfTypeOK

\* The reader and its connection are there with the child, and only with it.
ReaderIsChild == step # "down" <=> \E s \in Slot : Reads(s)

\* Every tone is alerted or lost, unless the restart of the reader was abandoned
\* or a signal ended it; or unless a message that no row of RF_Alert maps, which
\* is never acknowledged, is kept at the head of the queue.
EveryToneIsTaken ==
  \A t \in Mapped :
    (t \in sent)
      ~> (\/ alerts[t] > 0 \/ Lost(t)
          \/ abandoned \/ ~Supervised("RF")
          \/ mode = "manual" /\ sent \ Mapped # {})
=============================================================================
