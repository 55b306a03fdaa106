---------------------------- MODULE MCZoneServer ----------------------------
(***************************************************************************)
(* An instance of ZoneServer: the panel of a zone with a relay, which may  *)
(* send a second command before the first is done, and a client without a  *)
(* zone.  Neither is in a group.                                           *)
(***************************************************************************)
EXTENDS ZoneServer

MCConn   == {"panel", "other"}
MCZoneOf == [panel |-> "z", other |-> "none"]
MCBlank  == [c \in MCConn |-> {"UME"}]
MCLimit  == [panel |-> 2, other |-> 1]
=============================================================================
