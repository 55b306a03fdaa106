----------------------------- MODULE MCTtyLock -----------------------------
(* Instances of TtyLock: alerts of each kind, with a reset time longer than *)
(* the preamble and the slowest write together, as in the default settings  *)
(* (120 s, 3 s, and the time of one xsltproc and one nc).                   *)
EXTENDS TtyLock, TLC

CONSTANTS p1, p2, p3, n1, n2, n3

MCProcs    == {p1, p2, p3}
MCLockIds  == {n1, n2, n3}
AllKinds   == p1 :> "dispatch" @@ p2 :> "queue" @@ p3 :> "rf"
NoRF       == p1 :> "dispatch" @@ p2 :> "queue" @@ p3 :> "dispatch"
=============================================================================
