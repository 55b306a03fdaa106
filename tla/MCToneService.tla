---------------------------- MODULE MCToneService -----------------------------
(* The instances of ToneService for TLC.  Faults: a tone and a message that is *)
(* no tone, both kinds of consumers, a reader that ends once by the broker and *)
(* once for another reason, one signal.  Abandoned: a reader and a listener    *)
(* that die, and no messages.                                                  *)
EXTENDS ToneService

CONSTANTS t1, noise

MCSlot == 1 .. 3
MCTone == {t1, noise}
MCMapped == {t1}
MCModes == {"auto", "manual"}
MCAuto == {"auto"}
=============================================================================
