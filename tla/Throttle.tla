------------------------------- MODULE Throttle -------------------------------
(***************************************************************************)
(* The speed limit: the sockets TCPSocketBandwidth                         *)
(* (src/aio/tcp_bandwidth.cpp) that buffer what the network delivers, and  *)
(* the one ControllerSimple (include/aio/bandwidth_controller.h) that      *)
(* hands the buffered bytes on, so many per unit of time, to whoever reads *)
(* from the sockets.                                                       *)
(*                                                                         *)
(* A call of ControllerSimple::transfer runs to its end before the loop    *)
(* delivers anything else.  It visits the streams one by one and each      *)
(* visit runs the reader's handler, which may stop or close the stream, so *)
(* a visit is a step; ctl = "pass" keeps every other step out meanwhile.   *)
(*                                                                         *)
(* A definition with a suffix (Full_Late) is a mutated form of the         *)
(* definition after it: one of the properties fails with it.               *)
(***************************************************************************)
EXTENDS Integers, Sequences, FiniteSets

CONSTANTS Streams, Null,
          Limit,      \* bytes allowed per Millis units of time
          Millis,     \* 1000 in the code
          Delay,      \* the controller's timer, 50 in the code
          Elapsed,    \* bound: times that may pass between two transfers
          Packets,    \* bound: lengths of a data event of the inner socket
          MaxBytes,   \* bound: bytes one connection delivers
          SizeMod,    \* 2^w, where size_t has w bits
          Reactions,  \* what the DataEvent handler of each stream's reader may do
          Removable   \* streams that the handler of another stream may close; the program
                      \* has none

ASSUME LimitAssumption ==
  /\ Limit \in Nat \ {0} /\ Millis \in Nat \ {0} /\ Delay \in Nat \ {0}
  /\ Elapsed \subseteq Nat /\ Packets \subseteq Nat \ {0} /\ MaxBytes \in Nat
  /\ SizeMod \in Nat \ {0} /\ \A e \in Elapsed : Limit * e < SizeMod
  /\ Null \notin Streams /\ IsFiniteSet(Streams) /\ Removable \subseteq Streams
  /\ Reactions \in [Streams -> SUBSET {"none", "stop", "close"}]

VARIABLES
  \* TCPSocketBandwidth, for each stream
  conn,      \* "new", "open" or "closed"
  used,      \* buffer_used
  paused, stopped, eof,
  inner,     \* the wrapped socket: "idle", "reading" or "closed"
  got,       \* bytes the wrapped socket has delivered (bound)
  ended,     \* EndEvent was published
  \* ControllerSimple
  streams,   \* the list of weak pointers: a stream, or Null once it is removed
  sheduled,  \* a transfer is deferred: the timer runs
  \* the locals of ControllerSimple::transfer
  ctl, it, left, chunk, pending,
  budget,    \* total_to_transfer as it was first computed
  spent      \* bytes published since

streamVars == <<conn, used, paused, stopped, eof, inner, got, ended, streams>>
ctlVars    == <<sheduled, ctl, it, left, chunk, pending, budget, spent>>
vars       == <<streamVars, ctlVars>>

BufferMax == Limit * 4    \* add_stream: set_buffer(limit * 4)

Init == /\ conn = [s \in Streams |-> "new"]
        /\ used = [s \in Streams |-> 0] /\ got = [s \in Streams |-> 0]
        /\ paused = [s \in Streams |-> FALSE] /\ stopped = [s \in Streams |-> TRUE]
        /\ eof = [s \in Streams |-> FALSE] /\ ended = [s \in Streams |-> FALSE]
        /\ inner = [s \in Streams |-> "idle"]
        /\ streams = <<>> /\ sheduled = FALSE
        /\ ctl = "idle" /\ it = 0 /\ left = 0 /\ chunk = 0 /\ pending = 0
        /\ budget = 0 /\ spent = 0

Least(a, b)    == IF a < b THEN a ELSE b
Greatest(a, b) == IF a > b THEN a ELSE b

-------------------------------------------------------------------------------
(* ControllerSimple::transfer *)

Share_Up(total, n) == total \div n + 1
Share(total, n) == Greatest(total \div n, 1)

IdlePass == ctl' = "idle" /\ it' = 0 /\ left' = 0 /\ chunk' = 0 /\ pending' = 0
            /\ budget' = 0 /\ spent' = 0

\* less than a byte: the time is consumed and the transfer deferred
Postpone_Lost == sheduled' = FALSE /\ IdlePass
Postpone == sheduled' = TRUE /\ IdlePass

\* from the call to the first visit; `e` is what time->elapsed() returns
BeginTransfer(e) ==
  LET total == (Limit * e) \div Millis
  IN  IF streams = <<>> THEN sheduled' = FALSE /\ IdlePass
      ELSE IF total = 0 THEN Postpone
      ELSE /\ sheduled' = FALSE
           /\ ctl' = "pass" /\ it' = 1 /\ pending' = 0
           /\ left' = total /\ chunk' = Share(total, Len(streams))
           /\ budget' = total /\ spent' = 0

\* shedule_transfer
shedule_transfer == IF sheduled THEN UNCHANGED ctlVars
                    ELSE \E e \in Elapsed : BeginTransfer(e)

TimerFires == /\ ctl = "idle" /\ sheduled
              /\ \E e \in {x \in Elapsed : x >= Delay} : BeginTransfer(e)
              /\ UNCHANGED streamVars

EraseRemoved == /\ ctl = "pass" /\ it <= Len(streams) /\ streams[it] = Null
                /\ streams' = SubSeq(streams, 1, it - 1)
                              \o SubSeq(streams, it + 1, Len(streams))
                /\ UNCHANGED <<conn, used, paused, stopped, eof, inner, got, ended,
                               ctlVars>>

Deferred_Never(p) == FALSE
Deferred(p) == p > 0

EndPass == /\ ctl = "pass" /\ it > Len(streams)
           /\ IF left > 0 /\ pending > 0
              THEN /\ it' = 1 /\ chunk' = Share(left, pending) /\ pending' = 0
                   /\ UNCHANGED <<sheduled, ctl, left, budget, spent>>
              ELSE sheduled' = Deferred(pending) /\ IdlePass
           /\ UNCHANGED streamVars

-------------------------------------------------------------------------------
(* TCPSocketBandwidth::transfer, called by the visit of stream s *)

Removed(s) == [i \in DOMAIN streams |-> IF streams[i] = s THEN Null ELSE streams[i]]

\* the handler of the DataEvent or EndEvent did r: stop() or close()
Handled(s, r) ==
  /\ conn' = IF r = "close" THEN [conn EXCEPT ![s] = "closed"] ELSE conn
  /\ streams' = IF r = "close" THEN Removed(s) ELSE streams

InnerAfter(s, r) == IF r = "close" THEN "closed"
                    ELSE IF r = "stop" /\ ~paused[s] THEN "idle"
                    ELSE inner[s]

AllPublished_Eof(s, rest) == eof[s]
AllPublished(s, rest) == eof[s] /\ rest = 0

\* r and r2 are what the handlers of the DataEvent and of the EndEvent do
transfer(s, n, r, r2) ==
  LET rest == used[s] - Least(n, used[s])
  IN  /\ used' = [used EXCEPT ![s] = rest]
      /\ spent' = spent + Least(n, used[s])
      /\ IF AllPublished(s, rest)
         THEN /\ stopped' = [stopped EXCEPT ![s] = TRUE]
              /\ ended' = [ended EXCEPT ![s] = TRUE]
              /\ Handled(s, IF r = "close" THEN r ELSE r2)
              /\ inner' = [inner EXCEPT ![s] = InnerAfter(s,
                             IF "close" \in {r, r2} THEN "close"
                             ELSE IF "stop" \in {r, r2} THEN "stop" ELSE "none")]
              /\ UNCHANGED paused
         ELSE /\ stopped' = [stopped EXCEPT ![s] = r # "none"]
              /\ Handled(s, r)
              /\ IF paused[s] /\ rest < BufferMax
                 THEN /\ paused' = [paused EXCEPT ![s] = FALSE]
                      /\ inner' = [inner EXCEPT ![s] =
                                     IF r = "close" THEN "closed" ELSE "reading"]
                 ELSE /\ UNCHANGED paused
                      /\ inner' = [inner EXCEPT ![s] = InnerAfter(s, r)]
              /\ UNCHANGED ended
      /\ UNCHANGED <<eof, got>>

Publishes_Stopped(s, n) == n > 0
Publishes(s, n) == n > 0 /\ ~stopped[s]

\* the visit of the next stream, which publishes nothing if it is stopped or has nothing;
\* the budget is an unsigned number: it wraps when more is taken than is left
Visiting == ctl = "pass" /\ it <= Len(streams) /\ streams[it] # Null
Offer    == Least(used[streams[it]], chunk)

\* the stream had something and keeps some of it: the budget may go round again for it
Unsatisfied_Empty(s) == used[s] >= Offer
Unsatisfied(s) == Offer > 0 /\ used[s] > Offer

Visit(r, r2) ==
  LET s == streams[it]
  IN  /\ it' = it + 1
      /\ left' = (left - Offer) % SizeMod
      /\ pending' = pending + (IF Unsatisfied(s) THEN 1 ELSE 0)
      /\ IF Publishes(s, Offer) THEN transfer(s, Offer, r, r2)
         ELSE UNCHANGED <<streamVars, spent>>
      /\ UNCHANGED <<sheduled, ctl, chunk, budget>>

VisitAny == Visiting /\ \E r \in Reactions[streams[it]], r2 \in {"none", "stop", "close"} :
              Visit(r, r2)

-------------------------------------------------------------------------------
(* What the loop does between two transfers, or a handler in the middle of one: whatever a
   visit's handler does to streams other than its own is a step behind the visit. *)

HandlerRan == spent > 0    \* some handler has, in this transfer

\* add_stream: a failed download, for one, starts the next in the same call.  A transfer
\* has gone on from the stream it visits: if that was the last, it is at the end of the
\* list, in front of which the new stream is inserted, and does not see it this round
Create(s) == /\ ctl = "idle" \/ HandlerRan
             /\ conn[s] = "new" /\ conn' = [conn EXCEPT ![s] = "open"]
             /\ streams' = Append(streams, s)
             /\ it' = IF it > Len(streams) THEN it + 1 ELSE it
             /\ UNCHANGED <<used, paused, stopped, eof, inner, got, ended,
                            sheduled, ctl, left, chunk, pending, budget, spent>>

active(s) == ~stopped[s] \/ inner[s] = "reading"

\* read(): the reader asks for data when the socket is not active
Read(s) == /\ ctl = "idle" /\ conn[s] = "open" /\ ~ended[s] /\ ~active(s)
           /\ stopped' = [stopped EXCEPT ![s] = FALSE]
           /\ inner' = IF paused[s] THEN inner ELSE [inner EXCEPT ![s] = "reading"]
           /\ UNCHANGED <<conn, used, paused, eof, got, ended, streams, ctlVars>>

Close(s) == /\ \/ ctl = "idle" /\ "close" \in Reactions[s]
               \/ HandlerRan /\ s \in Removable
            /\ conn[s] = "open"
            /\ conn' = [conn EXCEPT ![s] = "closed"]
            /\ stopped' = [stopped EXCEPT ![s] = TRUE]
            /\ inner' = [inner EXCEPT ![s] = "closed"]
            /\ streams' = Removed(s)
            /\ UNCHANGED <<used, paused, eof, got, ended, ctlVars>>

Full_Late(n) == n > BufferMax
Full(n) == n >= BufferMax

\* on_data: buffer the data, pause the wrapped socket, ask for a transfer
on_data(s) ==
  /\ ctl = "idle" /\ inner[s] = "reading" /\ ~eof[s]
  /\ \E n \in Packets :
       /\ got[s] + n <= MaxBytes
       /\ got' = [got EXCEPT ![s] = @ + n]
       /\ used' = [used EXCEPT ![s] = @ + n]
       /\ IF Full(used[s] + n)
          THEN /\ paused' = [paused EXCEPT ![s] = TRUE]
               /\ inner' = [inner EXCEPT ![s] = "idle"]
          ELSE UNCHANGED <<paused, inner>>
  /\ shedule_transfer
  /\ UNCHANGED <<conn, stopped, eof, ended, streams>>

\* the wrapped socket reports the end of the stream, and stops reading
InnerEnd(s) == /\ ctl = "idle" /\ inner[s] = "reading" /\ ~eof[s]
               /\ eof' = [eof EXCEPT ![s] = TRUE]
               /\ inner' = [inner EXCEPT ![s] = "idle"]
               /\ UNCHANGED <<conn, used, paused, stopped, got, ended, streams, ctlVars>>

Transferring == EraseRemoved \/ VisitAny \/ EndPass
Next == \/ Transferring \/ TimerFires
        \/ \E s \in Streams : Create(s) \/ Read(s) \/ Close(s) \/ on_data(s) \/ InnerEnd(s)

Safe == Init /\ [][Next]_vars

\* A call that has begun returns, and the loop fires a running timer.
Spec == Safe /\ WF_vars(Transferring) /\ WF_vars(TimerFires)

-------------------------------------------------------------------------------
(* Properties. *)

(* Every variable keeps its type; what is left of the budget is a value of size_t, and a
   buffer is never negative (buffer_used -= length, tcp_bandwidth.cpp:117) and exceeds
   its bound by less than one packet, since the network is paused when it is reached. *)
TypeOK == /\ conn \in [Streams -> {"new", "open", "closed"}]
          /\ used \in [Streams -> Nat] /\ got \in [Streams -> Nat]
          /\ \A s \in Streams : \E n \in Packets \cup {1} : used[s] < BufferMax + n
          /\ paused \in [Streams -> BOOLEAN] /\ stopped \in [Streams -> BOOLEAN]
          /\ eof \in [Streams -> BOOLEAN] /\ ended \in [Streams -> BOOLEAN]
          /\ inner \in [Streams -> {"idle", "reading", "closed"}]
          /\ streams \in Seq(Streams \cup {Null}) /\ sheduled \in BOOLEAN
          /\ ctl \in {"idle", "pass"} /\ it \in Nat /\ left \in 0 .. SizeMod - 1
          /\ chunk \in Nat /\ pending \in Nat /\ budget \in Nat /\ spent \in Nat

(* The pause follows the buffer, whatever the reader does in its handlers: a full
   buffer never reads from the network, and a pause is lifted by the very transfer
   that makes room, so no stream stays paused for nothing. *)
PauseTracksBuffer ==
  \A s \in Streams : conn[s] = "open" =>
    /\ used[s] >= BufferMax => paused[s]
    /\ paused[s] => inner[s] # "reading" /\ (used[s] >= BufferMax \/ eof[s])

(* The end of the stream is published only after the last buffered byte: a consequence of
   KeepsSocketContract below. *)
EndAfterData == \A s \in Streams : ended[s] => eof[s] /\ used[s] = 0

(* One transfer publishes at most what the limit allows for the time that passed. *)
WithinBudget == spent <= budget

(* A transfer keeps to the limit as long as no two streams are open at once: one stream
   is never offered more than is left, in whichever round it is visited, so the unsigned
   budget does not wrap.  It takes two hungry streams to overrun it. *)
OneAtATime == \A s, t \in Streams : conn[s] = "open" /\ conn[t] = "open" => s = t
AloneWithinBudget == []OneAtATime => []WithinBudget

(* The budget wraps at one point only, when it is used up in the middle of a round and the
   next stream still takes the least share, of one byte; every other round shares out no
   more than there is.  The exception is a stopped stream that has data: each round it
   takes a share that it does not use, and the round before has not counted it; another
   handler may close it when it has. *)
HeldBack(s) == stopped[s] /\ used[s] > 0 /\ (conn[s] = "open" \/ s \in Removable)
OverrunAtMinimum ==
  [][ctl = "pass" /\ left' > left =>
       \/ left = 0 /\ chunk = 1
       \/ \E s \in Streams : HeldBack(s)]_vars

(* A call of transfer returns: as long as the budget does not wrap, each of its steps
   brings it nearer to its end, and no handler puts the end off, though it may add to the
   list that is iterated or close a stream of it.  A further round costs at least a byte of
   the budget, since only a stream that took some and keeps some asks for one, and a round
   visits at most the streams that are there and those still to be made. *)
RoundsLeft == IF pending > 0 THEN left + 1 ELSE left
MostStreams == Len(streams) + Cardinality({s \in Streams : conn[s] = "new"})
VisitsLeft == RoundsLeft * (MostStreams + 1) + MostStreams + 1 - it
TransferComesToEnd ==
  [][ctl = "pass" /\ ctl' = "pass" /\ left' <= left =>
       /\ VisitsLeft' \in Nat /\ VisitsLeft' <= VisitsLeft
       /\ Transferring => VisitsLeft' < VisitsLeft]_vars

Contract == INSTANCE SocketContract WITH
              Capacity <- BufferMax,
              sent     <- got,
              handed   <- [s \in Streams |-> got[s] - used[s]],
              finished <- eof,
              told     <- ended,
              asked    <- [s \in Streams |-> ~stopped[s]]

(* Every socket keeps the contract of SocketContract with its reader, whatever the readers
   of the others do: each byte is handed on once and only to a reader that has asked, the
   end comes once and with the last byte, and the network is left alone while the buffer
   is full. *)
KeepsSocketContract == Contract!Spec

\* readers that never stop their stream, though they may close it
Patient == { s \in Streams : "stop" \notin Reactions[s] }

(* Between two transfers, a stream with buffered data whose reader never stops has a
   transfer scheduled, whatever the readers of other streams do: it is not left waiting
   for unrelated traffic. *)
NoForgottenData ==
  ctl = "idle" => \A s \in Patient :
    conn[s] = "open" /\ ~stopped[s] /\ used[s] > 0 => sheduled

(* What was buffered for such a reader is published, and if the connection has ended
   behind it, so is the end: the share of a stopped or closed neighbour is not lost. *)
EveryByteDelivered ==
  \A s \in Patient : used[s] > 0 ~> stopped[s] \/ (used[s] = 0 /\ (eof[s] => ended[s]))

(* The end of the connection reaches a reader that waits for it. *)
EndIsReported == \A s \in Streams : eof[s] ~> ended[s] \/ stopped[s]
===============================================================================
