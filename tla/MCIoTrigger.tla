---------------------------- MODULE MCIoTrigger ----------------------------
(***************************************************************************)
(* Instances of IoTrigger.  A siren on TCP/IP that every alert triggers, a *)
(* Modbus relay and a LinPAC slot that one unit and one tone trigger and   *)
(* that have an output in common.                                          *)
(***************************************************************************)
EXTENDS IoTrigger

MCAlerts   == {"a1", "a2"}
MCKeys     == [a \in MCAlerts |-> IF a = "a1" THEN {"engine"} ELSE {"tone"}]
MCTriggers == {"siren", "relay", "slot"}
MCEvent    == [siren |-> "always", relay |-> "engine", slot |-> "tone"]
MCProto    == [siren |-> "TCPIP", relay |-> "MB_RTUIP", slot |-> "SLOT_IO"]
MCChannels == {"horn", "lamp"}
MCEnable   == [siren |-> {"horn"}, relay |-> {"lamp"}, slot |-> {"lamp"}]
MCReset    == [siren |-> {"horn"}, relay |-> {"lamp"}, slot |-> {"lamp"}]
MCTime     == [siren |-> 2, relay |-> 1, slot |-> 1]
=============================================================================
