--------------------------- MODULE MCPacketStream ---------------------------
(* The instance of PacketStream for TLC: two calls of two places of data;   *)
(* the numbers of the second one wrap around the sequence space of 12 if it *)
(* starts with 10.                                                           *)
EXTENDS PacketStream, TLC

CONSTANTS a, b

MCConns  == {a, b}
MCIsns   == {a :> 1 @@ b :> n : n \in {3, 10}}
MCLength == a :> 2 @@ b :> 2
MCCalls  == {a, b}
=============================================================================
