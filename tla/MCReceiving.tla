----------------------------- MODULE MCReceiving ------------------------------
(***************************************************************************)
(* Bounds for model-checking Receiving.  The buffer of a socket pauses at  *)
(* four bytes and the queue of a reader is full at one chunk or two, so    *)
(* that either can fill first, and the file may be slower or faster than   *)
(* the network.  Three packets of two bytes fill the buffer and leave one  *)
(* for a reader that has finished; a budget of one or three cuts them.     *)
(***************************************************************************)
EXTENDS Receiving

CONSTANTS a, b

MCPackets == {1, 2}
EvenPackets == {2}
AnyTime   == {0, 1, 2, 3}
OddTime   == {1, 3}
Anything  == [s \in Streams |-> {"none", "stop", "close"}]
===============================================================================
