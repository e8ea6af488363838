---------------------------- MODULE SocketContract ----------------------------
(***************************************************************************)
(* What a throttled socket promises to the reader behind it, and to the    *)
(* machine it runs on (include/aio/tcp.h, which TCPSocketBandwidth         *)
(* implements): the bytes of the connection, which are counted here, are   *)
(* handed on once, a part at a time, to an open socket whose reader has    *)
(* asked for them; the end comes once, with the last byte; and the network *)
(* is not read while Capacity bytes or more wait.                          *)
(***************************************************************************)
EXTENDS Naturals

CONSTANTS Streams,
          Capacity   \* bytes a socket keeps before it pauses the network

VARIABLES conn,      \* "new", "open" or "closed"
          sent,      \* bytes that came from the network
          handed,    \* bytes the reader was given
          finished,  \* the network reported the end
          told,      \* the reader was told of the end
          asked      \* the reader wants data

vars == <<conn, sent, handed, finished, told, asked>>

Init == /\ conn = [s \in Streams |-> "new"] /\ asked = [s \in Streams |-> FALSE]
        /\ sent = [s \in Streams |-> 0] /\ handed = [s \in Streams |-> 0]
        /\ finished = [s \in Streams |-> FALSE] /\ told = [s \in Streams |-> FALSE]

Open(s) == /\ conn[s] = "new" /\ conn' = [conn EXCEPT ![s] = "open"]
           /\ UNCHANGED <<sent, handed, finished, told, asked>>

Arrive(s) == /\ conn[s] = "open" /\ ~finished[s] /\ sent[s] - handed[s] < Capacity
             /\ sent'[s] > sent[s] /\ sent' = [sent EXCEPT ![s] = sent'[s]]
             /\ UNCHANGED <<conn, handed, finished, told, asked>>

NetworkEnds(s) == /\ conn[s] = "open" /\ ~finished[s]
                  /\ finished' = [finished EXCEPT ![s] = TRUE]
                  /\ UNCHANGED <<conn, sent, handed, told, asked>>

Ask(s) == /\ conn[s] = "open" /\ ~told[s]
          /\ asked' = [asked EXCEPT ![s] = TRUE]
          /\ UNCHANGED <<conn, sent, handed, finished, told>>

\* the reader may stop or close in the handler; the end follows the last byte all the same
HandOn(s) ==
  /\ conn[s] = "open" /\ asked[s] /\ ~told[s]
  /\ \E n \in 1 .. sent[s] - handed[s] : handed' = [handed EXCEPT ![s] = @ + n]
  /\ told' = [told EXCEPT ![s] = finished[s] /\ handed'[s] = sent[s]]
  /\ conn' \in {conn, [conn EXCEPT ![s] = "closed"]}
  /\ asked' \in {asked, [asked EXCEPT ![s] = FALSE]}
  /\ asked'[s] => conn'[s] = "open" /\ ~told'[s]
  /\ UNCHANGED <<sent, finished>>

Close(s) == /\ conn[s] = "open" /\ conn' = [conn EXCEPT ![s] = "closed"]
            /\ asked' = [asked EXCEPT ![s] = FALSE]
            /\ UNCHANGED <<sent, handed, finished, told>>

Next == \E s \in Streams : \/ Open(s) \/ Arrive(s) \/ NetworkEnds(s)
                           \/ Ask(s) \/ HandOn(s) \/ Close(s)

Spec == Init /\ [][Next]_vars
===============================================================================
