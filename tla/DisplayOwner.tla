---------------------------- MODULE DisplayOwner ----------------------------
(***************************************************************************)
(* What the lock of the LED signs is for: of the alerts that write to the  *)
(* signs, the last one to take them puts the default message back, and no  *)
(* other one does.                                                         *)
(***************************************************************************)
CONSTANTS Procs, NoProc

VARIABLES
  owner,    \* the alert that took the signs last
  outcome   \* outcome[p]: how far alert p has come

Init ==
  /\ owner = NoProc
  /\ outcome = [p \in Procs |-> "none"]

\* From here on nobody owns the signs until a claim is taken.
Claim(p) ==
  /\ outcome[p] = "none"
  /\ owner' = NoProc
  /\ outcome' = [outcome EXCEPT ![p] = "taking"]

Take(p) ==
  /\ outcome[p] = "taking"
  /\ owner' = p
  /\ outcome' = [outcome EXCEPT ![p] = "showing"]

Finish(p) ==
  /\ outcome[p] = "showing"
  /\ outcome' = [outcome EXCEPT ![p] = IF owner = p THEN "reset" ELSE "left"]
  /\ UNCHANGED owner

Next == \E p \in Procs : Claim(p) \/ Take(p) \/ Finish(p)

Spec == Init /\ [][Next]_<<owner, outcome>>
=============================================================================
