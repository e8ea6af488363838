------------------------------ MODULE MCThrottle ------------------------------
(***************************************************************************)
(* Bounds for model-checking Throttle.  Two streams compete for the        *)
(* budget; the buffer pauses at four bytes, which a packet of two hits or  *)
(* overshoots.  OddTime is for a limit of half a byte per unit of time:    *)
(* the budgets are 0, 1, 3 and 6 bytes, each rounded down.                 *)
(***************************************************************************)
EXTENDS Throttle

MCPackets  == {1, 2}
AnyTime    == {0, 1, 3, 6}
OddTime    == {1, 3, 7, 13}

CONSTANTS a, b
Obedient == [s \in Streams |-> {"none"}]
Closing  == [s \in Streams |-> {"none", "close"}]
Stopping == [s \in Streams |-> {"none", "stop"}]
OnePatient == [Closing EXCEPT ![a] = {"none", "stop", "close"}]
===============================================================================
