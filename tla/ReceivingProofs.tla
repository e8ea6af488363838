---------------------------- MODULE ReceivingProofs ----------------------------
(***************************************************************************)
(* What downloads that read from throttled sockets promise, for every      *)
(* number of them, every limit and every backlog.  The sockets and the     *)
(* controller behave as Throttle allows with readers that may do anything, *)
(* so what is proved of Throttle holds here as well.                       *)
(***************************************************************************)
EXTENDS Receiving, ThrottleProofs

\* Throttle is not restricted: its readers may stop and close in every handler
AnyReader == Reactions = [s \in Streams |-> {"none", "stop", "close"}]

-------------------------------------------------------------------------------
(* The composition implements its part. *)

LEMMA DeliverVisits ==
  ASSUME AnyReader, TypeInv, Deliver
  PROVE  VisitAny
<1>1. Visiting /\ streams[it] \in Streams
  BY LenProperties DEF Deliver, Visiting, TypeInv, Listed, CtlTypes, StreamTypes
<1>2. \E r, r2 \in {"none", "stop", "close"} : Visit(r, r2)
  <2>1. \A o, k, q : Reaction(o, k, q) \in {"none", "stop", "close"}
    BY DEF Reaction
  <2>2. ASSUME NEW s, NEW k, NEW o, NEW o2, OnRead(s, k, o, o2)
        PROVE  \E r, r2 \in {"none", "stop", "close"} : Visit(r, r2)
    BY <2>1, <2>2 DEF OnRead
  <2> QED
    BY <2>2 DEF Deliver
<1> QED
  BY <1>1, <1>2 DEF VisitAny, AnyReader

(* Every step of the composition is a step of the sockets and the controller, or leaves
   them as they are. *)
LEMMA RNextRefines == ASSUME AnyReader, TypeInv, [RNext]_allVars PROVE [Next]_vars
<1>1. CASE Deliver
  BY <1>1, DeliverVisits DEF Next, Transferring
<1>2. CASE EraseRemoved \/ EndPass \/ TimerFires
  BY <1>2 DEF Next, Transferring
<1>3. ASSUME NEW s \in Streams, \/ Connect(s) \/ Request(s) \/ Arrive(s) \/ FileDone(s)
                                \/ ShutdownDone(s) \/ Abort(s) \/ InnerEnd(s)
      PROVE  [Next]_vars
  <2>1. Create(s) \/ Read(s) \/ Close(s) \/ on_data(s) \/ InnerEnd(s) \/ UNCHANGED vars
    BY <1>3 DEF Connect, Request, Arrive, FileDone, ShutdownDone, Abort, Resume
  <2> QED
    BY <2>1 DEF Next
<1>4. CASE UNCHANGED allVars
  BY <1>4 DEF allVars
<1> QED
  BY <1>1, <1>2, <1>3, <1>4 DEF RNext

LEMMA SocketsCorrect == ASSUME AnyReader PROVE RSpec => [](TypeInv /\ AwaitedInv)
<1>1. RInit => TypeInv /\ AwaitedInv
  BY ThrottleInit DEF RInit
<1>2. TypeInv /\ AwaitedInv /\ [RNext]_allVars => TypeInv' /\ AwaitedInv'
  BY RNextRefines, ThrottleNext
<1> QED
  BY <1>1, <1>2, PTL DEF RSpec

(* What the composition does to the sockets and the controller is what Throttle says, so
   that what is proved of Throttle can be used here. *)
LEMMA ThrottleImplemented ==
  ASSUME AnyReader
  PROVE  RSpec => Safe
<1>1. RInit => Init
  BY DEF RInit
<1>2. TypeInv /\ [RNext]_allVars => [Next]_vars
  BY RNextRefines
<1> QED
  BY <1>1, <1>2, SocketsCorrect, PTL DEF RSpec, Safe

(* The socket of a download keeps its contract with it, and while one download at a time has
   its connection open, none exceeds the limit; a call of transfer returns unless its budget
   wraps, also when downloads that fail in it start others; and the budget wraps only at the
   least share or beside a stopped download with data. *)
THEOREM DownloadsKeepContract ==
  ASSUME AnyReader
  PROVE  RSpec => /\ KeepsSocketContract /\ AloneWithinBudget
                  /\ TransferComesToEnd /\ OverrunAtMinimum
  BY ThrottleImplemented, ContractKept, AloneKeepsLimit, TransferReturns, OverrunsExplained,
     PTL

-------------------------------------------------------------------------------
(* The readers. *)

\* ph, q, f: a reader's phase, queue and fop; st: its socket's stopped.  A full queue stops
\* the socket, and so does a result; before the request it has not been asked to read
Reader(ph, q, f, st) ==
  /\ q <= Backlog - 1 + MaxBody
  /\ q >= Backlog => st
  /\ ph \in {"new", "connect", "wait"} => q = 0
  /\ ph \notin {"wait", "body"} => st
  /\ f = "write" => q > 0

ReaderTypes ==
  /\ phase \in [Streams -> {"new", "connect", "wait", "body", "shut", "done", "failed"}]
  /\ queue \in [Streams -> Nat]
  /\ fop \in [Streams -> {"none", "open", "write", "idle", "closed", "off"}]

ReaderInv ==
  /\ ReaderTypes
  /\ \A s \in Streams : Reader(phase[s], queue[s], fop[s], stopped[s])

(* What a step does to one stream and one reader, the others being left alone. *)
LEMMA OneReader ==
  ASSUME ReaderInv, NEW s \in Streams,
         \A t \in Streams : t # s =>
           /\ phase'[t] = phase[t] /\ queue'[t] = queue[t] /\ fop'[t] = fop[t]
           /\ stopped'[t] = stopped[t],
         ReaderTypes',
         Reader(phase'[s], queue'[s], fop'[s], stopped'[s])
  PROVE  ReaderInv'
<1> SUFFICES ASSUME NEW t \in Streams
             PROVE  Reader(phase'[t], queue'[t], fop'[t], stopped'[t])
  BY DEF ReaderInv
<1>1. CASE t = s
  BY <1>1
<1>2. CASE t # s
  BY <1>2 DEF ReaderInv
<1> QED
  BY <1>1, <1>2

(* A visit: the reader takes what is published, and stops its socket if its queue is full
   or it has a result. *)
LEMMA DeliverReader ==
  ASSUME TypeInv, ReaderInv, Deliver
  PROVE  /\ ReaderInv'
         /\ \A t \in Streams : phase[t] \in {"shut", "done", "failed"} => used'[t] >= used[t]
<1> DEFINE s == streams[it]
<1>0. Backlog \in Nat \ {0} /\ MaxBody \in Nat
  BY BacklogAssumption
<1>1. /\ Visiting /\ s \in Streams /\ conn[s] = "open" /\ used[s] \in Nat /\ spent \in Nat
      /\ chunk \in Nat
  BY LenProperties DEF Deliver, Visiting, TypeInv, Listed, CtlTypes, StreamTypes
<1>2. Offer \in Nat /\ Offer <= used[s]
  BY <1>1 DEF Offer, Least
<1> HIDE DEF s
<1>5. \A t \in Streams : used[t] >= used[t]
  BY DEF TypeInv, StreamTypes
<1>3. CASE ~Publishes(s, Offer)
  <2>1. Visit("none", "none") /\ UNCHANGED readerVars
    BY <1>3 DEF Deliver, s
  <2>2. UNCHANGED streamVars
    BY <1>3, <2>1 DEF Visit, s
  <2>3. ReaderInv'
    BY <2>1, <2>2 DEF ReaderInv, ReaderTypes, readerVars, streamVars
  <2>4. used' = used
    BY <2>2 DEF streamVars
  <2> QED
    BY <2>3, <2>4 DEF TypeInv, StreamTypes
<1>4. CASE Publishes(s, Offer)
  <2>1. Offer > 0 /\ ~stopped[s]
    BY <1>4 DEF Publishes
  <2>2. /\ phase[s] \notin {"shut", "done", "failed"} /\ queue[s] \in Nat /\ queue[s] < Backlog
        /\ phase[s] \in {"new", "connect", "wait", "body", "shut", "done", "failed"}
        /\ Reader(phase[s], queue[s], fop[s], stopped[s])
    BY <1>0, <1>1, <2>1 DEF ReaderInv, ReaderTypes, Reader
  <2>3. ASSUME NEW r \in {"none", "stop", "close"}, NEW r2 \in {"none", "stop", "close"},
               Visit(r, r2)
        PROVE  /\ stopped'[s] => r # "none" \/ (used'[s] = 0 /\ eof'[s])
               /\ r # "none" \/ (used[s] - Offer = 0 /\ eof[s]) => stopped'[s]
               /\ \A t \in Streams : t # s =>
                    /\ used'[t] = used[t] /\ paused'[t] = paused[t] /\ eof'[t] = eof[t]
                    /\ stopped'[t] = stopped[t] /\ inner'[t] = inner[t]
    <3>1. transfer(s, Offer, r, r2)
      BY <1>4, <2>3 DEF Visit, s
    <3>2. /\ StreamTypes /\ SocketInv
      BY DEF TypeInv
    <3>3. /\ used'[s] = used[s] - Offer
          /\ stopped'[s] => r # "none" \/ (used'[s] = 0 /\ eof'[s])
          /\ r # "none" \/ (used'[s] = 0 /\ eof[s]) => stopped'[s]
          /\ \A t \in Streams : t # s =>
               /\ used'[t] = used[t] /\ paused'[t] = paused[t] /\ eof'[t] = eof[t]
               /\ stopped'[t] = stopped[t] /\ inner'[t] = inner[t]
      BY <3>1, <3>2, <1>1, <1>2, <2>1, TransferSocket
    <3> QED
      BY <3>3
  <2>4. phase[s] \in {"wait", "body"}
    BY <2>1, <2>2 DEF Reader
  <2>5. ASSUME phase[s] \in {"wait", "body"},
               NEW k \in 0 .. Least(MaxBody, Offer), NEW o \in {"more", "done", "failed"},
               NEW o2 \in {"done", "failed"}, OnRead(s, k, o, o2)
        PROVE  /\ ReaderInv'
               /\ \A t \in Streams : phase[t] \in {"shut", "done", "failed"} => used'[t] >= used[t]
    <3> DEFINE q     == queue[s] + k
               hears == After(o) = "body" /\ AllPublished(s, used[s] - Offer)
               last  == IF hears THEN o2 ELSE o
               r     == Reaction(o, k, q)
               r2    == IF hears THEN Reaction(o2, 0, q) ELSE "none"
    <3>1. k \in Nat /\ k <= MaxBody /\ q \in Nat /\ q <= Backlog - 1 + MaxBody
      BY <1>0, <1>2, <2>2 DEF Least
    <3>2. /\ r \in {"none", "stop", "close"} /\ r2 \in {"none", "stop", "close"}
          /\ r = "none" <=> o = "more" /\ ~(k > 0 /\ q >= Backlog)
      BY DEF Reaction
    <3>3. /\ Visit(r, r2)
          /\ phase' = [phase EXCEPT ![s] = After(last)]
          /\ queue' = [queue EXCEPT ![s] = IF last = "failed" THEN 0 ELSE q]
          /\ fop' = [fop EXCEPT ![s] = IF last = "failed" THEN "off" ELSE FileRequest(@, k)]
      BY <2>5 DEF OnRead
    <3>4. /\ last \in {"more", "done", "failed"}
          /\ last = "more" <=> o = "more" /\ ~hears
          /\ hears <=> o = "more" /\ eof[s] /\ used[s] - Offer = 0
      BY <2>5 DEF After, AllPublished
    <3>5. /\ After(last) = IF last = "more" THEN "body" ELSE IF last = "done" THEN "shut" ELSE "failed"
      BY <3>4 DEF After
    <3> HIDE DEF q, hears, last, r, r2
    <3>6. /\ stopped'[s] => r # "none" \/ (used'[s] = 0 /\ eof'[s])
          /\ r # "none" \/ (used[s] - Offer = 0 /\ eof[s]) => stopped'[s]
          /\ \A t \in Streams : t # s =>
               /\ used'[t] = used[t] /\ paused'[t] = paused[t] /\ eof'[t] = eof[t]
               /\ stopped'[t] = stopped[t] /\ inner'[t] = inner[t]
      BY <3>2, <3>3, <2>3
    <3>7. FileRequest(fop[s], k) \in {"none", "open", "write", "idle", "closed", "off"}
      BY <1>1 DEF FileRequest, ReaderInv, ReaderTypes
    <3>8. /\ ReaderTypes'
          /\ phase'[s] = After(last)
          /\ queue'[s] = IF last = "failed" THEN 0 ELSE q
          /\ fop'[s] = IF last = "failed" THEN "off" ELSE FileRequest(fop[s], k)
          /\ \A t \in Streams : t # s =>
               phase'[t] = phase[t] /\ queue'[t] = queue[t] /\ fop'[t] = fop[t]
      BY <1>1, <3>1, <3>3, <3>5, <3>7 DEF ReaderInv, ReaderTypes
    <3>9. Reader(phase'[s], queue'[s], fop'[s], stopped'[s])
      <4>1. CASE last = "failed"
        <5>1. stopped'[s]
          BY <4>1, <3>2, <3>4, <3>6
        <5> QED
          BY <4>1, <5>1, <3>5, <3>8, <1>0 DEF Reader
      <4>2. CASE last = "done"
        <5>1. stopped'[s]
          BY <4>2, <3>2, <3>4, <3>6
        <5>2. FileRequest(fop[s], k) = "write" => q > 0
          BY <2>2, <3>1 DEF FileRequest, Reader, q
        <5> QED
          BY <4>2, <5>1, <5>2, <3>1, <3>5, <3>8 DEF Reader
      <4>3. CASE last = "more"
        <5>1. q >= Backlog => stopped'[s]
          <6>1. q >= Backlog => k > 0
            BY <1>0, <2>2, <3>1 DEF q
          <6> QED
            BY <6>1, <3>2, <3>6
        <5>2. FileRequest(fop[s], k) = "write" => q > 0
          BY <2>2, <3>1 DEF FileRequest, Reader, q
        <5> QED
          BY <4>3, <5>1, <5>2, <3>1, <3>5, <3>8 DEF Reader
      <4> QED
        BY <4>1, <4>2, <4>3, <3>4
    <3>10. ReaderInv'
      BY <1>1, <3>6, <3>8, <3>9, OneReader
    <3> QED
      BY <3>6, <3>10, <2>2, <1>5
  <2> QED
    BY <1>4, <2>4, <2>5 DEF Deliver, s
<1> QED
  BY <1>3, <1>4

(* The socket is asked for more, for a reader with an empty queue and no result. *)
LEMMA ReadReader ==
  ASSUME TypeInv, ReaderInv, NEW s \in Streams, Read(s), ReaderTypes',
         queue'[s] = 0, phase'[s] \in {"wait", "body"}, fop'[s] # "write",
         \A t \in Streams : t # s =>
           phase'[t] = phase[t] /\ queue'[t] = queue[t] /\ fop'[t] = fop[t]
  PROVE  ReaderInv' /\ used' = used
<1>1. /\ stopped' = [stopped EXCEPT ![s] = FALSE]
      /\ inner' = IF paused[s] THEN inner ELSE [inner EXCEPT ![s] = "reading"]
      /\ UNCHANGED <<used, paused, eof>>
  BY DEF Read
<1>2. ~stopped'[s] /\ \A t \in Streams : t # s => /\ stopped'[t] = stopped[t]
                                                  /\ inner'[t] = inner[t]
  BY <1>1 DEF TypeInv, StreamTypes
<1>3. Reader(phase'[s], queue'[s], fop'[s], stopped'[s])
  BY <1>2, BacklogAssumption DEF Reader
<1> QED
  BY <1>1, <1>2, <1>3, OneReader

(* A socket that is closed is stopped. *)
LEMMA CloseReader ==
  ASSUME TypeInv, ReaderInv, NEW s \in Streams, Close(s), ReaderTypes',
         phase'[s] \in {"done", "failed"}, fop'[s] = "write" => queue'[s] > 0,
         queue'[s] <= queue[s],
         \A t \in Streams : t # s =>
           phase'[t] = phase[t] /\ queue'[t] = queue[t] /\ fop'[t] = fop[t]
  PROVE  ReaderInv' /\ used' = used
<1>1. /\ stopped' = [stopped EXCEPT ![s] = TRUE] /\ inner' = [inner EXCEPT ![s] = "closed"]
      /\ UNCHANGED <<used, paused, eof>>
  BY DEF Close
<1>2. stopped'[s] /\ \A t \in Streams : t # s => /\ stopped'[t] = stopped[t]
                                                 /\ inner'[t] = inner[t]
  BY <1>1 DEF TypeInv, StreamTypes
<1>3. queue[s] \in Nat /\ queue'[s] \in Nat /\ queue[s] <= Backlog - 1 + MaxBody
  BY DEF ReaderInv, ReaderTypes, Reader
<1>4. Reader(phase'[s], queue'[s], fop'[s], stopped'[s])
  BY <1>2, <1>3, BacklogAssumption DEF Reader
<1> QED
  BY <1>1, <1>2, <1>4, OneReader

LEMMA ReaderNext ==
  ASSUME TypeInv, ReaderInv, [RNext]_allVars
  PROVE  /\ ReaderInv'
         /\ \A t \in Streams : phase[t] \in {"shut", "done", "failed"} => used'[t] >= used[t]
<1>1. /\ ReaderTypes /\ Backlog \in Nat \ {0} /\ MaxBody \in Nat
      /\ \A t \in Streams : /\ used[t] \in Nat /\ used[t] >= used[t]
                            /\ Reader(phase[t], queue[t], fop[t], stopped[t])
  BY BacklogAssumption DEF ReaderInv, TypeInv, StreamTypes
<1>2. ASSUME ReaderInv', used' = used
      PROVE  /\ ReaderInv'
             /\ \A t \in Streams : phase[t] \in {"shut", "done", "failed"} => used'[t] >= used[t]
  BY <1>1, <1>2
<1>3. CASE Deliver
  BY <1>3, DeliverReader
<1>4. CASE (EraseRemoved \/ EndPass \/ TimerFires) /\ UNCHANGED <<readerVars, buffer>>
  <2>1. UNCHANGED <<phase, queue, fop, stopped, inner, paused, eof, used>>
    BY <1>4 DEF EraseRemoved, EndPass, TimerFires, readerVars, streamVars
  <2> QED
    BY <2>1, <1>2 DEF ReaderInv, ReaderTypes
<1>5. ASSUME NEW s \in Streams, Connect(s) PROVE ReaderInv' /\ used' = used
  <2>1. /\ phase[s] = "new" /\ phase' = [phase EXCEPT ![s] = "connect"]
        /\ UNCHANGED <<queue, fop, stopped, inner, paused, eof, used>>
    BY <1>5 DEF Connect, Create
  <2>2. ReaderTypes' /\ phase'[s] = "connect" /\ \A t \in Streams : t # s => phase'[t] = phase[t]
    BY <2>1, <1>1 DEF ReaderTypes
  <2>3. Reader("new", queue[s], fop[s], stopped[s])
    BY <2>1, <1>1
  <2>4. Reader("connect", queue[s], fop[s], stopped[s])
    BY <2>3 DEF Reader
  <2> QED
    BY <2>1, <2>2, <2>4, OneReader
<1>6. ASSUME NEW s \in Streams, Request(s) PROVE ReaderInv' /\ used' = used
  <2>1. /\ phase[s] = "connect" /\ phase' = [phase EXCEPT ![s] = "wait"]
        /\ UNCHANGED <<queue, fop>> /\ Read(s)
    BY <1>6 DEF Request
  <2>2. ReaderTypes' /\ phase'[s] = "wait" /\ \A t \in Streams : t # s => phase'[t] = phase[t]
    BY <2>1, <1>1 DEF ReaderTypes
  <2>3. queue[s] = 0 /\ fop[s] # "write"
    BY <2>1, <1>1 DEF Reader
  <2> QED
    BY <2>1, <2>2, <2>3, ReadReader
<1>7. ASSUME NEW s \in Streams, Arrive(s)
      PROVE  /\ ReaderInv'
             /\ \A t \in Streams : phase[t] \in {"shut", "done", "failed"} => used'[t] >= used[t]
  <2>1. on_data(s) /\ UNCHANGED <<phase, queue, fop>>
    BY <1>7 DEF Arrive, readerVars
  <2>2. PICK n \in Packets :
          /\ used' = [used EXCEPT ![s] = @ + n]
          /\ IF Full(used[s] + n)
             THEN /\ paused' = [paused EXCEPT ![s] = TRUE]
                  /\ inner' = [inner EXCEPT ![s] = "idle"]
             ELSE UNCHANGED <<paused, inner>>
    BY <2>1 DEF on_data
  <2>3. n \in Nat
    <3>1. Packets \subseteq Nat
      BY LimitAssumption
    <3> QED
      BY <3>1
  <2>4. UNCHANGED <<stopped, eof>>
    BY <2>1 DEF on_data
  <2>5. /\ \A t \in Streams : t # s => paused'[t] = paused[t] /\ inner'[t] = inner[t]
        /\ paused'[s] \/ (inner'[s] = inner[s] /\ paused'[s] = paused[s])
    <3>1. CASE Full(used[s] + n)
      BY <3>1, <2>2 DEF TypeInv, StreamTypes
    <3>2. CASE ~Full(used[s] + n)
      BY <3>2, <2>2
    <3> QED
      BY <3>1, <3>2
  <2>6. Reader(phase'[s], queue'[s], fop'[s], stopped'[s])
    <3>1. CASE paused'[s]
      BY <3>1, <2>1, <2>4, <1>1 DEF Reader
    <3>2. CASE inner'[s] = inner[s] /\ paused'[s] = paused[s]
      BY <3>2, <2>1, <2>4, <1>1
    <3> QED
      BY <3>1, <3>2, <2>5
  <2>7. ReaderTypes'
    BY <2>1, <1>1 DEF ReaderTypes
  <2>8. ReaderInv'
    BY <2>1, <2>4, <2>5, <2>6, <2>7, OneReader
  <2>9. \A t \in Streams : used'[t] >= used[t]
    BY <2>2, <2>3, <1>1 DEF TypeInv, StreamTypes
  <2> QED
    BY <2>8, <2>9
<1>8. ASSUME NEW s \in Streams, FileDone(s) PROVE ReaderInv' /\ used' = used
  <2>1. /\ fop[s] \in {"open", "write"} /\ UNCHANGED phase
        /\ queue' = [queue EXCEPT ![s] = IF fop[s] = "write" THEN @ - 1 ELSE @]
    BY <1>8 DEF FileDone
  <2>2. /\ queue' \in [Streams -> Nat] /\ queue'[s] <= queue[s] /\ queue[s] \in Nat
        /\ \A t \in Streams : t # s => queue'[t] = queue[t]
    BY <2>1, <1>1 DEF ReaderTypes, Reader
  <2>3. \/ /\ queue'[s] > 0
           /\ fop' = [fop EXCEPT ![s] = "write"] /\ UNCHANGED vars
        \/ /\ queue'[s] = 0 /\ phase[s] # "body"
           /\ fop' = [fop EXCEPT ![s] = "closed"] /\ UNCHANGED vars
        \/ /\ queue'[s] = 0 /\ phase[s] = "body"
           /\ fop' = [fop EXCEPT ![s] = "idle"] /\ Resume(s)
    BY <1>8 DEF FileDone
  <2>4. \A f : fop' = [fop EXCEPT ![s] = f] =>
          fop'[s] = f /\ \A t \in Streams : t # s => fop'[t] = fop[t]
    BY <1>1 DEF ReaderTypes
  <2>5. ReaderTypes'
    BY <2>1, <2>2, <2>3, <1>1 DEF ReaderTypes
  <2>6. ASSUME UNCHANGED vars,
               \/ fop'[s] = "write" /\ queue'[s] > 0
               \/ fop'[s] = "closed"
               \/ fop'[s] = "idle" /\ active(s),
               \A t \in Streams : t # s => fop'[t] = fop[t]
        PROVE  ReaderInv' /\ used' = used
    <3>1. UNCHANGED <<stopped, inner, paused, eof, used>>
      BY <2>6 DEF vars, streamVars
    <3>2. Reader(phase'[s], queue'[s], fop'[s], stopped'[s])
      BY <2>1, <2>2, <2>6, <3>1, <1>1 DEF Reader, active
    <3> QED
      BY <2>1, <2>2, <2>5, <2>6, <3>1, <3>2, OneReader
  <2>7. CASE fop' = [fop EXCEPT ![s] = "idle"] /\ Resume(s) /\ queue'[s] = 0 /\ phase[s] = "body"
    <3>1. CASE active(s)
      BY <2>4, <2>6, <2>7, <3>1 DEF Resume
    <3>2. CASE ~active(s)
      <4>1. Read(s)
        BY <2>7, <3>2 DEF Resume
      <4> QED
        BY <4>1, <2>1, <2>2, <2>4, <2>5, <2>7, ReadReader
    <3> QED
      BY <3>1, <3>2
  <2> QED
    BY <2>3, <2>4, <2>6, <2>7
<1>9. ASSUME NEW s \in Streams, ShutdownDone(s) PROVE ReaderInv' /\ used' = used
  <2>1. /\ phase' = [phase EXCEPT ![s] = "done"] /\ UNCHANGED <<queue, fop>> /\ Close(s)
    BY <1>9 DEF ShutdownDone
  <2>2. ReaderTypes' /\ phase'[s] = "done" /\ \A t \in Streams : t # s => phase'[t] = phase[t]
    BY <2>1, <1>1 DEF ReaderTypes
  <2>3. queue'[s] <= queue[s] /\ (fop'[s] = "write" => queue'[s] > 0)
    BY <2>1, <1>1 DEF ReaderTypes, Reader
  <2> QED
    BY <2>1, <2>2, <2>3, CloseReader
<1>10. ASSUME NEW s \in Streams, Abort(s) PROVE ReaderInv' /\ used' = used
  <2>1. /\ phase' = [phase EXCEPT ![s] = "failed"]
        /\ queue' = [queue EXCEPT ![s] = 0] /\ fop' = [fop EXCEPT ![s] = "off"]
        /\ Close(s) \/ (phase[s] = "done" /\ UNCHANGED vars)
    BY <1>10 DEF Abort
  <2>2. /\ ReaderTypes' /\ phase'[s] = "failed" /\ queue'[s] = 0 /\ fop'[s] = "off"
        /\ queue'[s] <= queue[s]
        /\ \A t \in Streams : t # s =>
             phase'[t] = phase[t] /\ queue'[t] = queue[t] /\ fop'[t] = fop[t]
    BY <2>1, <1>1 DEF ReaderTypes
  <2>3. CASE Close(s)
    BY <2>2, <2>3, CloseReader
  <2>4. CASE phase[s] = "done" /\ UNCHANGED vars
    <3>1. UNCHANGED <<stopped, inner, paused, eof, used>>
      BY <2>4 DEF vars, streamVars
    <3>2. stopped[s]
      BY <2>4, <1>1 DEF Reader
    <3>3. Reader(phase'[s], queue'[s], fop'[s], stopped'[s])
      BY <2>2, <3>1, <3>2, <1>1 DEF Reader
    <3> QED
      BY <2>2, <3>1, <3>3, OneReader
  <2> QED
    BY <2>1, <2>3, <2>4
<1>11. ASSUME NEW s \in Streams, InnerEnd(s), UNCHANGED readerVars
       PROVE  ReaderInv' /\ used' = used
  <2>1. /\ eof' = [eof EXCEPT ![s] = TRUE] /\ inner' = [inner EXCEPT ![s] = "idle"]
        /\ UNCHANGED <<phase, queue, fop, stopped, paused, used>>
    BY <1>11 DEF InnerEnd, readerVars
  <2>2. eof'[s] /\ \A t \in Streams : t # s => eof'[t] = eof[t] /\ inner'[t] = inner[t]
    BY <2>1 DEF TypeInv, StreamTypes
  <2>3. Reader(phase'[s], queue'[s], fop'[s], stopped'[s])
    BY <2>1, <2>2, <1>1 DEF Reader
  <2>4. ReaderTypes'
    BY <2>1, <1>1 DEF ReaderTypes
  <2> QED
    BY <2>1, <2>2, <2>3, <2>4, OneReader
<1>12. CASE UNCHANGED allVars
  <2>1. UNCHANGED <<phase, queue, fop, stopped, inner, paused, eof, used>>
    BY <1>12 DEF allVars, vars, streamVars, readerVars
  <2> QED
    BY <2>1, <1>2 DEF ReaderInv, ReaderTypes
<1> QED
  BY <1>2, <1>3, <1>4, <1>5, <1>6, <1>7, <1>8, <1>9, <1>10, <1>11, <1>12 DEF RNext

-------------------------------------------------------------------------------
(* The theorems. *)

LEMMA ReaderInit == RInit => ReaderInv
<1> SUFFICES ASSUME RInit PROVE ReaderInv
  OBVIOUS
<1>1. Backlog \in Nat \ {0} /\ MaxBody \in Nat
  BY BacklogAssumption
<1>2. Reader("new", 0, "none", TRUE)
  BY <1>1 DEF Reader
<1>3. ReaderTypes
  BY DEF RInit, ReaderTypes
<1> QED
  BY <1>2, <1>3 DEF RInit, Init, ReaderInv

LEMMA ReadersCorrect == ASSUME AnyReader PROVE RSpec => [](TypeInv /\ ReaderInv)
<1>1. TypeInv /\ ReaderInv /\ [RNext]_allVars => ReaderInv'
  BY ReaderNext
<1> QED
  BY <1>1, ReaderInit, SocketsCorrect, PTL DEF RSpec

(* A full queue stops the socket from inside its own transfer, and a stopped socket hands
   nothing over, so the queue for the file exceeds the backlog by one read at most. *)
THEOREM QueueBounded == ASSUME AnyReader PROVE RSpec => []ReaderTypeOK
<1>1. ReaderInv => ReaderTypeOK
  <2> SUFFICES ASSUME ReaderInv PROVE ReaderTypeOK
    OBVIOUS
  <2>1. \A s \in Streams : queue[s] \in 0 .. Backlog - 1 + MaxBody
    BY BacklogAssumption DEF ReaderInv, ReaderTypes, Reader
  <2> QED
    BY <2>1 DEF ReaderInv, ReaderTypes, ReaderTypeOK
<1> QED
  BY <1>1, ReadersCorrect, PTL

(* Bytes behind the response stay in the buffer: a reader that has its result has stopped
   its socket, and nobody asks for more on its behalf. *)
THEOREM NothingAfterResult == ASSUME AnyReader PROVE RSpec => FinishedReaderGetsNothing
<1>1. TypeInv /\ ReaderInv /\ [RNext]_allVars =>
        [\A s \in Streams : phase[s] \in {"shut", "done", "failed"} => used'[s] >= used[s]]_allVars
  BY ReaderNext
<1> QED
  BY <1>1, ReadersCorrect, PTL DEF RSpec, FinishedReaderGetsNothing

(* As long as the network is not paused, active() tells the truth about the socket: stopping
   it has stopped the network too.  So when the file has caught up, on_write finds a stopped
   socket inactive and resumes it.  Quiet holds until the first pause, and not after it. *)
Quiet(s) == /\ stopped[s] => inner[s] # "reading"
            /\ phase[s] = "body" /\ fop[s] \in {"none", "idle"} => ~stopped[s]

(* A visit of an unpaused stream: whatever stops the socket stops the network, and a reader
   that goes on without a request to its file has stopped nothing. *)
LEMMA DeliverQuiet ==
  ASSUME TypeInv, ReaderInv, NEW s \in Streams, ~paused[s], Quiet(s), Deliver,
         s = streams[it], Publishes(s, Offer)
  PROVE  Quiet(s)'
<1>1. /\ phase[s] \in {"wait", "body"} /\ Offer \in Nat /\ queue[s] \in Nat
      /\ queue[s] < Backlog
  <2>1. Offer > 0 /\ ~stopped[s]
    BY DEF Publishes
  <2>2. Reader(phase[s], queue[s], fop[s], stopped[s]) /\ queue[s] \in Nat
    BY DEF ReaderInv, ReaderTypes
  <2>3. Offer \in Nat
    BY DEF Offer, Least, TypeInv, StreamTypes, CtlTypes
  <2> QED
    BY <2>1, <2>2, <2>3, BacklogAssumption DEF Reader
<1>2. PICK k \in 0 .. Least(MaxBody, Offer), o \in {"more", "done", "failed"},
           o2 \in {"done", "failed"} : OnRead(s, k, o, o2)
  BY <1>1 DEF Deliver
<1> DEFINE q     == queue[s] + k
           all   == AllPublished(s, used[s] - Offer)
           hears == After(o) = "body" /\ all
           last  == IF hears THEN o2 ELSE o
           r     == Reaction(o, k, q)
           r2    == IF hears THEN Reaction(o2, 0, q) ELSE "none"
<1>3. /\ Visit(r, r2)
      /\ phase' = [phase EXCEPT ![s] = After(last)]
      /\ fop' = [fop EXCEPT ![s] = IF last = "failed" THEN "off" ELSE FileRequest(@, k)]
  BY <1>2 DEF OnRead
<1>4. /\ phase'[s] = After(last)
      /\ fop'[s] = IF last = "failed" THEN "off" ELSE FileRequest(fop[s], k)
  BY <1>3 DEF ReaderInv, ReaderTypes
<1>5. transfer(s, Offer, r, r2)
  BY <1>3 DEF Visit
<1>6. Least(Offer, used[s]) = Offer
  BY <1>1 DEF Offer, Least, TypeInv, StreamTypes, CtlTypes
<1>7. k \in Nat /\ r \in {"none", "stop", "close"} /\ r2 \in {"none", "stop", "close"}
  BY <1>1, BacklogAssumption DEF Reaction, Least
<1>8. CASE all
  <2>1. r # "none" \/ r2 # "none"
    BY <1>2, <1>8 DEF Reaction, After
  <2>2. inner' = [inner EXCEPT ![s] = InnerAfter(s,
                    IF "close" \in {r, r2} THEN "close"
                    ELSE IF "stop" \in {r, r2} THEN "stop" ELSE "none")]
    <3> HIDE DEF r, r2
    <3> QED
      BY <1>5, <1>6, <1>8 DEF transfer
  <2>3. inner'[s] \in {"closed", "idle"}
    <3> HIDE DEF r, r2
    <3> QED
      BY <1>7, <2>1, <2>2 DEF InnerAfter, TypeInv, StreamTypes
  <2>4. phase'[s] # "body"
    BY <1>2, <1>4, <1>8 DEF After
  <2> QED
    BY <2>3, <2>4 DEF Quiet
<1>9. CASE ~all
  <2>1. stopped' = [stopped EXCEPT ![s] = r # "none"] /\ inner' = [inner EXCEPT ![s] = InnerAfter(s, r)]
    <3> HIDE DEF r, r2
    <3> QED
      BY <1>5, <1>6, <1>9 DEF transfer
  <2>2. stopped'[s] = (r # "none") /\ inner'[s] = InnerAfter(s, r)
    BY <2>1 DEF TypeInv, StreamTypes
  <2>3. stopped'[s] => inner'[s] # "reading"
    BY <1>7, <2>2 DEF InnerAfter
  <2>4. ASSUME phase'[s] = "body", fop'[s] \in {"none", "idle"} PROVE ~stopped'[s]
    <3>1. o = "more" /\ last = "more"
      BY <1>2, <1>4, <1>9, <2>4 DEF After
    <3>2. k = 0
      BY <1>4, <2>4, <3>1 DEF FileRequest
    <3>3. r = "none"
      BY <3>1, <3>2 DEF Reaction
    <3> QED
      BY <2>2, <3>3
  <2> QED
    BY <2>3, <2>4 DEF Quiet
<1> QED
  BY <1>8, <1>9

LEMMA QuietNext ==
  ASSUME TypeInv, ReaderInv, NEW s \in Streams, ~paused[s], Quiet(s), [RNext]_allVars
  PROVE  Quiet(s)'
<1>1. CASE UNCHANGED <<stopped[s], inner[s], phase[s], fop[s]>>
  BY <1>1 DEF Quiet
<1>2. CASE Deliver
  <2>1. CASE s = streams[it] /\ Publishes(s, Offer)
    BY <1>2, <2>1, DeliverQuiet
  <2>2. CASE ~Publishes(streams[it], Offer)
    <3>1. UNCHANGED <<streamVars, readerVars>>
      BY <1>2, <2>2 DEF Deliver, Visit
    <3> QED
      BY <3>1, <1>1 DEF streamVars, readerVars
  <2>3. CASE s # streams[it] /\ Publishes(streams[it], Offer)
    <3> DEFINE t == streams[it]
    <3>1. \E r, r2 : transfer(t, Offer, r, r2)
      BY <1>2, <2>3 DEF Deliver, OnRead, Visit
    <3>2. stopped'[s] = stopped[s] /\ inner'[s] = inner[s]
      <4> HIDE DEF t
      <4> QED
        BY <2>3, <3>1 DEF t, transfer, TypeInv, StreamTypes
    <3>3. phase'[s] = phase[s] /\ fop'[s] = fop[s]
      BY <1>2, <2>3 DEF Deliver, OnRead, ReaderInv, ReaderTypes, readerVars
    <3> QED
      BY <1>1, <3>2, <3>3
  <2> QED
    BY <2>1, <2>2, <2>3
<1>3. CASE (EraseRemoved \/ EndPass \/ TimerFires) /\ UNCHANGED <<readerVars, buffer>>
  <2>1. UNCHANGED <<phase, fop, stopped, inner>>
    BY <1>3 DEF EraseRemoved, EndPass, TimerFires, readerVars, streamVars
  <2> QED
    BY <2>1, <1>1
<1>4. ASSUME NEW t \in Streams, \/ Connect(t) \/ Request(t) \/ Arrive(t) \/ FileDone(t)
                                \/ ShutdownDone(t) \/ Abort(t)
                                \/ InnerEnd(t) /\ UNCHANGED <<readerVars, buffer>>
      PROVE  Quiet(s)'
  <2>1. CASE t # s
    <3>1. phase'[s] = phase[s] /\ fop'[s] = fop[s]
      BY <1>4, <2>1 DEF Connect, Request, Arrive, FileDone, ShutdownDone, Abort, readerVars,
                        ReaderInv, ReaderTypes
    <3>2. Create(t) \/ Read(t) \/ Close(t) \/ on_data(t) \/ InnerEnd(t) \/ UNCHANGED vars
      BY <1>4 DEF Connect, Request, Arrive, FileDone, ShutdownDone, Abort, Resume
    <3>3. stopped'[s] = stopped[s] /\ inner'[s] = inner[s]
      BY <2>1, <3>2 DEF Create, Read, Close, on_data, InnerEnd, vars, streamVars, TypeInv,
                        StreamTypes
    <3> QED
      BY <1>1, <3>1, <3>3
  <2>2. CASE t = s
    <3>1. CASE Connect(s)
      BY <3>1 DEF Connect, Create, Quiet, ReaderInv, ReaderTypes
    <3>2. CASE Read(s)
      BY <3>2 DEF Read, Quiet, TypeInv, StreamTypes
    <3>3. CASE Close(s) /\ phase'[s] \in {"done", "failed"}
      BY <3>3 DEF Close, Quiet, TypeInv, StreamTypes
    <3>4. CASE Arrive(s)
      <4>1. UNCHANGED <<phase, fop, stopped>> /\ on_data(s)
        BY <3>4 DEF Arrive, on_data, readerVars
      <4>2. inner'[s] \in {inner[s], "idle"}
        BY <4>1 DEF on_data, TypeInv, StreamTypes
      <4> QED
        BY <4>1, <4>2 DEF Quiet
    <3>5. CASE UNCHANGED vars /\ (phase'[s] # "body" \/ fop'[s] \notin {"none", "idle"})
      BY <3>5 DEF Quiet, vars, streamVars
    <3>6. CASE InnerEnd(s) /\ UNCHANGED readerVars
      BY <3>6 DEF InnerEnd, readerVars, Quiet, TypeInv, StreamTypes
    <3>7. CASE FileDone(s)
      <4>1. CASE fop' = [fop EXCEPT ![s] = "idle"] /\ Resume(s) /\ ~Read(s)
        <5>1. active(s) /\ UNCHANGED vars
          BY <4>1 DEF Resume
        <5>2. ~stopped[s]
          BY <5>1 DEF active, Quiet
        <5> QED
          BY <5>1, <5>2 DEF vars, streamVars, Quiet
      <4>2. CASE fop' = [fop EXCEPT ![s] = "write"] /\ UNCHANGED vars
        BY <4>2, <3>5 DEF ReaderInv, ReaderTypes
      <4>3. CASE phase[s] # "body" /\ UNCHANGED vars
        BY <3>7, <4>3, <3>5 DEF FileDone
      <4> QED
        BY <3>7, <3>2, <4>1, <4>2, <4>3 DEF FileDone
    <3>8. CASE Abort(s)
      <4>1. phase'[s] = "failed"
        BY <3>8 DEF Abort, ReaderInv, ReaderTypes
      <4> QED
        BY <3>8, <4>1, <3>3, <3>5 DEF Abort
    <3>9. CASE ShutdownDone(s)
      <4>1. phase'[s] = "done"
        BY <3>9 DEF ShutdownDone, ReaderInv, ReaderTypes
      <4> QED
        BY <3>9, <4>1, <3>3 DEF ShutdownDone
    <3> QED
      BY <1>4, <2>2, <3>1, <3>2, <3>4, <3>6, <3>7, <3>8, <3>9 DEF Request
  <2> QED
    BY <2>1, <2>2
<1>5. CASE UNCHANGED allVars
  BY <1>5, <1>1 DEF allVars, vars, streamVars, readerVars
<1> QED
  BY <1>2, <1>3, <1>4, <1>5 DEF RNext

(* A reader is left with a stopped socket only if its buffer has been full at some time: see
   the property.  The stall that the paused state leads to is found by a run. *)
THEOREM StallsTakeAPause == ASSUME AnyReader PROVE RSpec => StallTakesAPause
<1>1. ASSUME NEW s \in Streams PROVE RSpec => ([](~paused[s]) => []~Stalled(s))
  <2>1. RInit => Quiet(s)
    BY DEF RInit, Init, Quiet
  <2>2. TypeInv /\ ReaderInv /\ ~paused[s] /\ Quiet(s) /\ [RNext]_allVars => Quiet(s)'
    BY QuietNext
  <2>3. Quiet(s) => ~Stalled(s)
    BY DEF Quiet, Stalled
  <2> QED
    BY <2>1, <2>2, <2>3, ReadersCorrect, PTL DEF RSpec
<1> QED
  BY <1>1 DEF StallTakesAPause
===============================================================================
