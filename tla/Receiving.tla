------------------------------- MODULE Receiving -------------------------------
(***************************************************************************)
(* Downloads that receive their files through throttled sockets: the       *)
(* sockets and the controller of Throttle, with the readers they have in   *)
(* the program, which are DownloaderSimples                                *)
(* (include/downloader_simple.h).  A reader stops its socket, from inside  *)
(* the controller's transfer, when its queue for the file is full, and     *)
(* asks for more when the file has caught up.                              *)
(*                                                                         *)
(* Of a download this module keeps what concerns the socket: chunks are    *)
(* counted, and a failure of any kind is one action.  Of a socket it adds  *)
(* what Throttle only counts: the queue of chunks that pop_buffer cuts.    *)
(*                                                                         *)
(* A definition with a suffix (Resume_Never) is a mutated form of the      *)
(* definition after it: one of the properties fails with it.               *)
(***************************************************************************)
EXTENDS Throttle

CONSTANTS Backlog,   \* chunks a reader queues for its file, 10 in the code
          MaxBody    \* bound: chunks the parser makes of one DataEvent

ASSUME BacklogAssumption == Backlog \in Nat \ {0} /\ MaxBody \in Nat

VARIABLES
  \* the readers
  phase,    \* "new", "connect", "wait" (for the first data), "body", "shut" (received,
            \* the shutdown is under way), "done" or "failed"
  queue,    \* chunks of the body that wait for the file
  fop,      \* of the file: "none", "open", "write" (requests in flight), "idle",
            \* "closed" or "off" (the download has failed)
  \* TCPSocketBandwidth::buffer
  buffer    \* a chunk is an interval of the positions of the connection's bytes

readerVars == <<phase, queue, fop>>
allVars == <<vars, readerVars, buffer>>

RInit == /\ Init
         /\ phase = [s \in Streams |-> "new"] /\ queue = [s \in Streams |-> 0]
         /\ fop = [s \in Streams |-> "none"] /\ buffer = [s \in Streams |-> <<>>]

-------------------------------------------------------------------------------
(* The buffer. *)

PopOnce_Whole(st) ==
  LET size == Head(st.chunks).to - Head(st.chunks).from
  IN  [chunks |-> Tail(st.chunks), left |-> Greatest(st.left - size, 0)]

\* one turn of pop_buffer's loop: a part of the first chunk, or all of it
PopOnce(st) ==
  LET front == Head(st.chunks)
      size  == front.to - front.from
  IN  IF st.left < size
      THEN [chunks |-> <<[front EXCEPT !.from = @ + st.left]>> \o Tail(st.chunks),
            left |-> 0]
      ELSE [chunks |-> Tail(st.chunks), left |-> st.left - size]

pop_buffer(q, n) ==
  LET turn[i \in 0 .. Len(q)] == IF i = 0 THEN [chunks |-> q, left |-> n]
                                 ELSE IF turn[i - 1].left = 0 THEN turn[i - 1]
                                 ELSE PopOnce(turn[i - 1])
  IN  turn[Len(q)].chunks

\* the wrapped socket delivers a chunk
Arrive(s) ==
  /\ on_data(s)
  /\ buffer' = [buffer EXCEPT ![s] = Append(@, [from |-> got[s], to |-> got'[s]])]
  /\ UNCHANGED readerVars

-------------------------------------------------------------------------------
(* The reader, inside the controller's transfer. *)

After(o) == CASE o = "more" -> "body" [] o = "done" -> "shut" [] o = "failed" -> "failed"

\* on_data: a full queue stops the socket; a final result stops or closes it
Reaction_Open(o, k, q) == IF o = "failed" THEN "close"
                          ELSE IF k > 0 /\ q >= Backlog THEN "stop" ELSE "none"
Reaction(o, k, q) == IF o = "failed" THEN "close"
                     ELSE IF o = "done" \/ (k > 0 /\ q >= Backlog) THEN "stop"
                     ELSE "none"

FileRequest(f, k) == IF k = 0 THEN f
                     ELSE IF f = "none" THEN "open"
                     ELSE IF f = "idle" THEN "write"
                     ELSE f

\* on_read for the data: k chunks of the body and a result; and, if the transfer goes on
\* to publish the end and the reader still listens, on_read for that with result o2
OnRead(s, k, o, o2) ==
  LET q     == queue[s] + k
      hears == After(o) = "body" /\ AllPublished(s, used[s] - Offer)
      last  == IF hears THEN o2 ELSE o
  IN  /\ Visit(Reaction(o, k, q), IF hears THEN Reaction(o2, 0, q) ELSE "none")
      /\ phase' = [phase EXCEPT ![s] = After(last)]
      /\ queue' = [queue EXCEPT ![s] = IF last = "failed" THEN 0 ELSE q]
      /\ fop' = [fop EXCEPT ![s] = IF last = "failed" THEN "off" ELSE FileRequest(@, k)]

\* a visit of the controller; a reader that has finished has no handlers any more
Deliver ==
  /\ Visiting
  /\ LET s == streams[it]
     IN  IF ~Publishes(s, Offer)
         THEN Visit("none", "none") /\ UNCHANGED <<readerVars, buffer>>
         ELSE /\ buffer' = [buffer EXCEPT ![s] = pop_buffer(@, Offer)]
              /\ \/ /\ phase[s] \in {"wait", "body"}
                    /\ \E k \in 0 .. Least(MaxBody, Offer),
                          o \in {"more", "done", "failed"}, o2 \in {"done", "failed"} :
                         OnRead(s, k, o, o2)
                 \/ /\ phase[s] \notin {"wait", "body"}
                    /\ Visit("none", "none") /\ UNCHANGED readerVars

-------------------------------------------------------------------------------
(* The reader, between two transfers. *)

\* the visit just made ended in a failure, which closed its stream
VisitFailed == it > 1 /\ it - 1 <= Len(streams) /\ streams[it - 1] = Null

\* a download starts, possibly in the call in which one before it fails: on_error tells the
\* owner, whose next_task creates the next, inside the visit and while the list is iterated
Connect(s) == /\ phase[s] = "new" /\ (ctl = "pass" => VisitFailed) /\ Create(s)
              /\ phase' = [phase EXCEPT ![s] = "connect"]
              /\ UNCHANGED <<queue, fop, buffer>>

\* the request is written
Request(s) == /\ phase[s] = "connect" /\ Read(s)
              /\ phase' = [phase EXCEPT ![s] = "wait"]
              /\ UNCHANGED <<queue, fop, buffer>>

\* on_write with an empty queue
Resume_Never(s) == UNCHANGED vars
Resume(s) == IF active(s) THEN UNCHANGED vars ELSE Read(s)

\* an open or a write is done, and on_write goes on
FileDone(s) ==
  /\ ctl = "idle" /\ fop[s] \in {"open", "write"}
  /\ queue' = [queue EXCEPT ![s] = IF fop[s] = "write" THEN @ - 1 ELSE @]
  /\ \/ /\ queue'[s] > 0
        /\ fop' = [fop EXCEPT ![s] = "write"] /\ UNCHANGED vars
     \/ /\ queue'[s] = 0 /\ phase[s] # "body"
        /\ fop' = [fop EXCEPT ![s] = "closed"] /\ UNCHANGED vars
     \/ /\ queue'[s] = 0 /\ phase[s] = "body"
        /\ fop' = [fop EXCEPT ![s] = "idle"] /\ Resume(s)
  /\ UNCHANGED <<phase, buffer>>

\* ShutdownEvent, which the sockets hand on: the reader closes its socket
ShutdownDone(s) == /\ ctl = "idle" /\ phase[s] = "shut" /\ Close(s)
                   /\ phase' = [phase EXCEPT ![s] = "done"]
                   /\ UNCHANGED <<queue, fop, buffer>>

\* a timeout, stop(), an error of the network or of the file: terminate_handles
Abort(s) == /\ ctl = "idle"
            /\ \/ phase[s] \in {"connect", "wait", "body", "shut"} /\ Close(s)
               \/ phase[s] = "done" /\ fop[s] \in {"open", "write"} /\ UNCHANGED vars
            /\ phase' = [phase EXCEPT ![s] = "failed"]
            /\ queue' = [queue EXCEPT ![s] = 0] /\ fop' = [fop EXCEPT ![s] = "off"]
            /\ UNCHANGED buffer

RNext == \/ Deliver
         \/ (EraseRemoved \/ EndPass \/ TimerFires) /\ UNCHANGED <<readerVars, buffer>>
         \/ \E s \in Streams : \/ Connect(s) \/ Request(s) \/ Arrive(s) \/ FileDone(s)
                               \/ ShutdownDone(s) \/ Abort(s)
                               \/ InnerEnd(s) /\ UNCHANGED <<readerVars, buffer>>

RSpec == RInit /\ [][RNext]_allVars

-------------------------------------------------------------------------------
(* Properties. *)

(* Every variable keeps its type; the queue for the file exceeds the backlog only by the
   chunks of the read that filled it, since a stopped socket hands nothing over, though
   the controller goes on visiting it with what its buffer holds. *)
ReaderTypeOK ==
  /\ phase \in [Streams -> {"new", "connect", "wait", "body", "shut", "done", "failed"}]
  /\ queue \in [Streams -> 0 .. Backlog - 1 + MaxBody]
  /\ fop \in [Streams -> {"none", "open", "write", "idle", "closed", "off"}]

(* The bytes that wait in a socket are those the network has delivered and no transfer
   has published yet, in order and without a gap: what pop_buffer cuts off and what
   buffer_used counts agree, so the front of an empty queue is never read. *)
BytesInOrder ==
  \A s \in Streams :
    LET q == buffer[s]
    IN  /\ (q = <<>>) = (used[s] = 0)
        /\ \A i \in DOMAIN q :
             /\ q[i].from < q[i].to
             /\ q[i].from = IF i = 1 THEN got[s] - used[s] ELSE q[i - 1].to
             /\ i = Len(q) => q[i].to = got[s]

(* Nothing is handed to a reader that has its result, although a transfer that makes
   room reads on from the network after the reader has finished in its handler: bytes
   behind the response stay in the buffer. *)
FinishedReaderGetsNothing ==
  [][\A s \in Streams : phase[s] \in {"shut", "done", "failed"} => used'[s] >= used[s]]_allVars

(* A reader whose file has caught up is handed what comes: its socket is not stopped. *)
Stalled(s) == ctl = "idle" /\ phase[s] = "body" /\ fop[s] \in {"none", "idle"} /\ stopped[s]
NoStalledReader == \A s \in Streams : ~Stalled(s)

(* A reader is left with a stopped socket only if its buffer has been full at some time: as
   long as the network is never paused, active() answers for the reader, and whoever has
   stopped its socket for the backlog resumes it when the file has caught up. *)
StallTakesAPause == \A s \in Streams : [](~paused[s]) => []~Stalled(s)
===============================================================================
