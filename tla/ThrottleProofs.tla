---------------------------- MODULE ThrottleProofs ----------------------------
(***************************************************************************)
(* What the throttled sockets and their controller promise for every set   *)
(* of streams, every limit and every reaction of the readers.              *)
(***************************************************************************)
EXTENDS Throttle, SequenceTheorems, FiniteSetTheorems, TLAPS

-------------------------------------------------------------------------------
(* Arithmetic of the shares. *)

LEMMA DivBounds ==
  ASSUME NEW a \in Nat, NEW m \in Nat \ {0}
  PROVE  a \div m \in Nat /\ a \div m <= a
  OBVIOUS

LEMMA ModBounds ==
  ASSUME NEW a \in Int, NEW m \in Nat \ {0}
  PROVE  a % m \in 0 .. m - 1
  OBVIOUS

LEMMA ShareBounds ==
  ASSUME NEW total \in Nat, NEW n \in Nat \ {0}
  PROVE  Share(total, n) \in Nat \ {0}
<1>1. total \div n \in Nat
  BY DivBounds
<1> QED
  BY <1>1 DEF Share, Greatest

LEMMA BufferPositive == BufferMax \in Nat /\ BufferMax > 0
  BY LimitAssumption DEF BufferMax

LEMMA BudgetBounds ==
  ASSUME NEW e \in Elapsed
  PROVE  (Limit * e) \div Millis \in 0 .. SizeMod - 1
<1>1. Limit * e \in Nat /\ Limit * e < SizeMod
  BY LimitAssumption
<1>2. Millis \in Nat \ {0} /\ SizeMod \in Nat
  BY LimitAssumption
<1>3. (Limit * e) \div Millis \in Nat /\ (Limit * e) \div Millis <= Limit * e
  BY <1>1, <1>2, DivBounds
<1> QED
  BY <1>1, <1>2, <1>3

-------------------------------------------------------------------------------
(* Types. *)

StreamTypes ==
  /\ conn \in [Streams -> {"new", "open", "closed"}]
  /\ used \in [Streams -> Nat] /\ got \in [Streams -> Nat]
  /\ paused \in [Streams -> BOOLEAN] /\ stopped \in [Streams -> BOOLEAN]
  /\ eof \in [Streams -> BOOLEAN] /\ ended \in [Streams -> BOOLEAN]
  /\ inner \in [Streams -> {"idle", "reading", "closed"}]
  /\ streams \in Seq(Streams \cup {Null})

\* a call of transfer offers every stream a byte at least
CtlTypes ==
  /\ sheduled \in BOOLEAN /\ ctl \in {"idle", "pass"} /\ it \in Nat
  /\ left \in 0 .. SizeMod - 1 /\ chunk \in Nat /\ pending \in Nat
  /\ budget \in Nat /\ spent \in Nat
  /\ ctl = "pass" => it > 0 /\ chunk > 0

LEMMA IdleTypes ==
  ASSUME IdlePass, sheduled' \in BOOLEAN
  PROVE  CtlTypes' /\ ctl' = "idle"
<1>1. 0 \in 0 .. SizeMod - 1
  BY LimitAssumption
<1> QED
  BY <1>1 DEF IdlePass, CtlTypes

LEMMA BeginTypes ==
  ASSUME streams \in Seq(Streams \cup {Null}), NEW e \in Elapsed, BeginTransfer(e)
  PROVE  /\ CtlTypes'
         /\ ctl' = "idle" => streams = <<>> \/ sheduled'
         /\ ctl' = "pass" => it' = 1
<1> DEFINE total == (Limit * e) \div Millis
<1>1. total \in 0 .. SizeMod - 1
  BY BudgetBounds
<1> HIDE DEF total
<1>2. CASE streams = <<>>
  BY <1>2, IdleTypes DEF BeginTransfer, Postpone
<1>3. CASE streams # <<>> /\ total = 0
  BY <1>3, IdleTypes DEF BeginTransfer, Postpone, total
<1>4. CASE streams # <<>> /\ total # 0
  <2>1. Len(streams) \in Nat \ {0}
    BY <1>4, EmptySeq, LenProperties
  <2>2. total \in Nat
    BY <1>1, LimitAssumption
  <2>3. /\ sheduled' = FALSE /\ ctl' = "pass" /\ it' = 1 /\ pending' = 0
        /\ left' = total /\ chunk' = Share(total, Len(streams))
        /\ budget' = total /\ spent' = 0
    BY <1>4 DEF BeginTransfer, Postpone, total
  <2>4. chunk' \in Nat \ {0}
    BY <2>1, <2>2, <2>3, ShareBounds
  <2>5. chunk' \in Nat /\ chunk' > 0
    BY <2>4
  <2>6. 0 \in Nat /\ 1 \in Nat /\ 1 > 0
    OBVIOUS
  <2>7. CtlTypes'
    BY <1>1, <2>2, <2>3, <2>5, <2>6 DEF CtlTypes
  <2> QED
    BY <2>3, <2>7
<1> QED
  BY <1>2, <1>3, <1>4

LEMMA ShedulesTypes ==
  ASSUME CtlTypes, ctl = "idle", streams \in Seq(Streams \cup {Null}), shedule_transfer
  PROVE  /\ CtlTypes'
         /\ ctl' = "idle" => streams = <<>> \/ sheduled'
         /\ ctl' = "pass" => it' = 1
<1>1. CASE sheduled
  BY <1>1 DEF shedule_transfer, ctlVars, CtlTypes
<1>2. CASE ~sheduled
  BY <1>2, BeginTypes DEF shedule_transfer
<1> QED
  BY <1>1, <1>2

LEMMA EndPassTypes ==
  ASSUME CtlTypes, EndPass
  PROVE  /\ CtlTypes'
         /\ ctl' = "idle" => sheduled' = (pending > 0)
         /\ ctl' = "pass" => it' = 1
<1>1. CASE left > 0 /\ pending > 0
  <2>1. /\ it' = 1 /\ chunk' = Share(left, pending) /\ pending' = 0
        /\ UNCHANGED <<sheduled, ctl, left, budget, spent>> /\ ctl = "pass"
    BY <1>1 DEF EndPass
  <2>2. left \in Nat /\ pending \in Nat \ {0}
    BY <1>1, LimitAssumption DEF CtlTypes
  <2>3. chunk' \in Nat \ {0}
    BY <2>1, <2>2, ShareBounds
  <2> QED
    BY <2>1, <2>3 DEF CtlTypes
<1>2. CASE ~(left > 0 /\ pending > 0)
  <2>1. sheduled' = (pending > 0) /\ IdlePass
    BY <1>2 DEF EndPass, Deferred
  <2> QED
    BY <2>1, IdleTypes
<1> QED
  BY <1>1, <1>2

-------------------------------------------------------------------------------
(* The controller's list. *)

(* Removing a stream keeps the places of the others. *)
LEMMA RemovedSeq ==
  ASSUME streams \in Seq(Streams \cup {Null}), NEW s
  PROVE  /\ Removed(s) \in Seq(Streams \cup {Null})
         /\ Len(Removed(s)) = Len(streams)
         /\ \A i \in 1 .. Len(streams) :
              Removed(s)[i] = IF streams[i] = s THEN Null ELSE streams[i]
<1> DEFINE n == Len(streams)
           g == [i \in 1 .. n |-> IF streams[i] = s THEN Null ELSE streams[i]]
<1>1. n \in Nat /\ DOMAIN streams = 1 .. n /\ streams \in [1 .. n -> Streams \cup {Null}]
  BY LenProperties
<1>2. g \in [1 .. n -> Streams \cup {Null}]
  BY <1>1
<1>3. Removed(s) = g
  BY <1>1 DEF Removed
<1>4. \A i \in 1 .. n : g[i] = IF streams[i] = s THEN Null ELSE streams[i]
  OBVIOUS
<1> HIDE DEF g, n
<1>5. g \in Seq(Streams \cup {Null}) /\ Len(g) = n
  BY <1>1, <1>2
<1> QED
  BY <1>3, <1>4, <1>5 DEF n

\* the list without its k-th entry
Erased(k) == SubSeq(streams, 1, k - 1) \o SubSeq(streams, k + 1, Len(streams))

(* Erasing an entry moves the later ones one place forward. *)
LEMMA ErasedSeq ==
  ASSUME streams \in Seq(Streams \cup {Null}), NEW k \in 1 .. Len(streams)
  PROVE  /\ Erased(k) \in Seq(Streams \cup {Null})
         /\ Len(Erased(k)) = Len(streams) - 1
         /\ \A i \in 1 .. Len(streams) - 1 :
              Erased(k)[i] = IF i < k THEN streams[i] ELSE streams[i + 1]
<1> DEFINE n == Len(streams)
           front == SubSeq(streams, 1, k - 1)
           back  == SubSeq(streams, k + 1, n)
<1>1. n \in Nat /\ k \in 1 .. n
  BY LenProperties
<1>2. /\ front \in Seq(Streams \cup {Null}) /\ Len(front) = k - 1
      /\ \A i \in 1 .. k - 1 : front[i] = streams[i]
  BY <1>1, SubSeqProperties
<1>3. /\ back \in Seq(Streams \cup {Null}) /\ Len(back) = n - k
      /\ \A i \in 1 .. n - k : back[i] = streams[k + i]
  BY <1>1, SubSeqProperties
<1> HIDE DEF front, back
<1>4. /\ front \o back \in Seq(Streams \cup {Null}) /\ Len(front \o back) = Len(front) + Len(back)
      /\ \A i \in 1 .. Len(front) + Len(back) :
            (front \o back)[i] = IF i <= Len(front) THEN front[i] ELSE back[i - Len(front)]
  BY <1>2, <1>3, ConcatProperties
<1>5. Erased(k) = front \o back
  BY DEF Erased, front, back
<1>6. ASSUME NEW i \in 1 .. n - 1
      PROVE  Erased(k)[i] = IF i < k THEN streams[i] ELSE streams[i + 1]
  <2>1. i \in 1 .. Len(front) + Len(back)
    BY <1>1, <1>2, <1>3
  <2>2. CASE i < k
    BY <2>1, <2>2, <1>1, <1>2, <1>4, <1>5
  <2>3. CASE i >= k
    <3>1. i - (k - 1) \in 1 .. n - k /\ ~(i <= k - 1) /\ k + (i - (k - 1)) = i + 1
      BY <2>3, <1>1
    <3>2. Erased(k)[i] = back[i - (k - 1)]
      BY <3>1, <2>1, <1>2, <1>4, <1>5
    <3>3. back[i - (k - 1)] = streams[k + (i - (k - 1))]
      BY <3>1, <1>3
    <3> QED
      BY <3>1, <3>2, <3>3, <2>3
  <2> QED
    BY <2>2, <2>3, <1>1
<1>7. Len(Erased(k)) = n - 1
  <2>1. Len(Erased(k)) = (k - 1) + (n - k)
    BY <1>2, <1>3, <1>4, <1>5
  <2> QED
    BY <1>1, <2>1
<1> QED
  BY <1>4, <1>5, <1>6, <1>7

-------------------------------------------------------------------------------
(* One stream. *)

\* c, u, p, e, i, n: its conn, used, paused, eof, inner and ended.  The pause and the end
\* are as PauseTracksBuffer and EndAfterData say; the rest is what these rest on
Socket(c, u, p, e, i, n) ==
  /\ c = "new" => u = 0 /\ i = "idle" /\ ~p
  /\ c = "closed" <=> i = "closed"
  /\ c = "open" => /\ u >= BufferMax => p
                   /\ p => i # "reading" /\ (u >= BufferMax \/ e)
  /\ n => e /\ u = 0
  /\ \E k \in Packets \cup {1} : u < BufferMax + k

SocketInv == \A s \in Streams : Socket(conn[s], used[s], paused[s], eof[s], inner[s], ended[s])

(* A transfer to an open stream of n bytes, with whatever its reader does. *)
LEMMA TransferSocket ==
  ASSUME StreamTypes, SocketInv, spent \in Nat, NEW s \in Streams, conn[s] = "open",
         NEW n \in Nat, n > 0, n <= used[s],
         NEW r \in {"none", "stop", "close"}, NEW r2 \in {"none", "stop", "close"},
         transfer(s, n, r, r2)
  PROVE  /\ StreamTypes' /\ SocketInv' /\ spent' \in Nat
         /\ used'[s] = used[s] - n /\ used'[s] \in Nat
         /\ stopped'[s] => r # "none" \/ (used'[s] = 0 /\ eof'[s])
         /\ r # "none" \/ (used'[s] = 0 /\ eof[s]) => stopped'[s]
         /\ \A t \in Streams : t # s =>
              /\ conn'[t] = conn[t] /\ used'[t] = used[t] /\ paused'[t] = paused[t]
              /\ stopped'[t] = stopped[t] /\ eof'[t] = eof[t] /\ inner'[t] = inner[t]
              /\ ended'[t] = ended[t]
         /\ \/ streams' = streams /\ conn'[s] = "open" /\ r # "close"
            \/ streams' = Removed(s) /\ conn'[s] = "closed"
<1> DEFINE rest == used[s] - n
           end == eof[s] /\ rest = 0
           closing == r = "close" \/ (end /\ r2 = "close")
<1>1. used[s] \in Nat /\ Least(n, used[s]) = n /\ rest \in Nat
  BY DEF StreamTypes, Least
<1>2. /\ used' = [used EXCEPT ![s] = rest] /\ spent' = spent + n
      /\ UNCHANGED <<eof, got>>
  BY <1>1 DEF transfer
<1>3. /\ conn' = IF closing THEN [conn EXCEPT ![s] = "closed"] ELSE conn
      /\ streams' = IF closing THEN Removed(s) ELSE streams
  BY <1>1 DEF transfer, Handled, AllPublished
<1>4. streams' \in Seq(Streams \cup {Null})
  BY <1>3, RemovedSeq DEF StreamTypes
<1>5. /\ conn' \in [Streams -> {"new", "open", "closed"}]
      /\ conn'[s] = IF closing THEN "closed" ELSE "open"
      /\ used' \in [Streams -> Nat] /\ used'[s] = rest
      /\ \A t \in Streams : t # s => conn'[t] = conn[t] /\ used'[t] = used[t]
  BY <1>1, <1>2, <1>3 DEF StreamTypes
<1>6. /\ Socket("open", used[s], paused[s], eof[s], inner[s], ended[s])
      /\ paused[s] \in BOOLEAN /\ BufferMax \in Nat /\ BufferMax > 0
  BY BufferPositive DEF SocketInv, StreamTypes
<1>7. ~ended[s]
  BY <1>1, <1>6 DEF Socket
<1>8. \E k \in Packets \cup {1} : rest < BufferMax + k
  <2>1. PICK k \in Packets \cup {1} : used[s] < BufferMax + k
    BY <1>6 DEF Socket
  <2>2. k \in Nat
    <3>1. Packets \subseteq Nat
      BY LimitAssumption
    <3> QED
      BY <3>1
  <2> QED
    BY <1>1, <1>6, <2>1, <2>2
<1>9. r = "close" => closing
  OBVIOUS
<1>10. CASE end
  <2>1. /\ stopped' = [stopped EXCEPT ![s] = TRUE] /\ ended' = [ended EXCEPT ![s] = TRUE]
        /\ inner' = [inner EXCEPT ![s] = InnerAfter(s,
                       IF "close" \in {r, r2} THEN "close"
                       ELSE IF "stop" \in {r, r2} THEN "stop" ELSE "none")]
        /\ UNCHANGED paused
    BY <1>1, <1>10 DEF transfer, AllPublished
  <2>2. InnerAfter(s, IF "close" \in {r, r2} THEN "close"
                      ELSE IF "stop" \in {r, r2} THEN "stop" ELSE "none")
          \in {"idle", "reading", "closed"}
    BY DEF InnerAfter, StreamTypes
  <2>3. /\ stopped' \in [Streams -> BOOLEAN] /\ ended' \in [Streams -> BOOLEAN] /\ stopped'[s]
        /\ inner' \in [Streams -> {"idle", "reading", "closed"}]
        /\ paused' = paused /\ ended'[s]
        /\ inner'[s] = InnerAfter(s, IF "close" \in {r, r2} THEN "close"
                      ELSE IF "stop" \in {r, r2} THEN "stop" ELSE "none")
        /\ \A t \in Streams : t # s => /\ stopped'[t] = stopped[t] /\ ended'[t] = ended[t]
                                       /\ inner'[t] = inner[t]
    BY <2>1, <2>2 DEF StreamTypes
  <2>4. StreamTypes' /\ spent' \in Nat
    BY <1>2, <1>4, <1>5, <2>3 DEF StreamTypes
  <2>5. closing <=> "close" \in {r, r2}
    BY <1>10
  <2>6. /\ inner'[s] = "closed" <=> closing
        /\ paused[s] => inner'[s] # "reading"
    BY <1>6, <2>3, <2>5 DEF InnerAfter, Socket
  <2>7. rest = 0 /\ eof[s]
    BY <1>10
  <2> HIDE DEF rest, end, closing
  <2>8. Socket(conn'[s], rest, paused'[s], eof'[s], inner'[s], ended'[s])
    BY <1>2, <1>5, <1>6, <1>8, <2>3, <2>6, <2>7 DEF Socket
  <2>9. SocketInv'
    BY <1>2, <1>5, <2>3, <2>8 DEF SocketInv
  <2> QED
    BY <1>2, <1>3, <1>5, <1>1, <1>9, <2>3, <2>4, <2>7, <2>9 DEF rest
<1>11. CASE ~end
  <2>1. /\ stopped' = [stopped EXCEPT ![s] = r # "none"] /\ UNCHANGED ended
        /\ \/ /\ paused[s] /\ rest < BufferMax
              /\ paused' = [paused EXCEPT ![s] = FALSE]
              /\ inner' = [inner EXCEPT ![s] = IF r = "close" THEN "closed" ELSE "reading"]
           \/ /\ ~(paused[s] /\ rest < BufferMax)
              /\ UNCHANGED paused
              /\ inner' = [inner EXCEPT ![s] = InnerAfter(s, r)]
    BY <1>1, <1>11 DEF transfer, AllPublished
  <2>2. InnerAfter(s, r) \in {"idle", "reading", "closed"}
    BY DEF InnerAfter, StreamTypes
  <2>3. /\ stopped' \in [Streams -> BOOLEAN] /\ paused' \in [Streams -> BOOLEAN]
        /\ inner' \in [Streams -> {"idle", "reading", "closed"}] /\ ended' = ended
        /\ stopped'[s] = (r # "none")
        /\ \A t \in Streams : t # s => /\ stopped'[t] = stopped[t] /\ inner'[t] = inner[t]
                                       /\ paused'[t] = paused[t]
        /\ \/ /\ paused[s] /\ rest < BufferMax /\ ~paused'[s]
              /\ inner'[s] = IF r = "close" THEN "closed" ELSE "reading"
           \/ /\ ~(paused[s] /\ rest < BufferMax) /\ paused'[s] = paused[s]
              /\ inner'[s] = InnerAfter(s, r)
    BY <2>1, <2>2 DEF StreamTypes
  <2>4. StreamTypes' /\ spent' \in Nat
    BY <1>2, <1>4, <1>5, <2>3 DEF StreamTypes
  <2>5. closing <=> r = "close"
    BY <1>11
  <2>6. /\ inner'[s] = "closed" <=> closing
        /\ paused'[s] => inner'[s] # "reading" /\ rest >= BufferMax
        /\ ~paused'[s] => rest < BufferMax
    BY <1>1, <1>6, <2>3, <2>5 DEF InnerAfter, Socket
  <2>9. ~(rest = 0 /\ eof[s])
    BY <1>11
  <2> HIDE DEF rest, end, closing
  <2>7. Socket(conn'[s], rest, paused'[s], eof'[s], inner'[s], ended'[s])
    BY <1>1, <1>2, <1>5, <1>6, <1>7, <1>8, <2>3, <2>6 DEF Socket
  <2>8. SocketInv'
    BY <1>2, <1>5, <2>3, <2>7 DEF SocketInv
  <2> QED
    BY <1>2, <1>3, <1>5, <1>1, <1>9, <2>3, <2>4, <2>8, <2>9 DEF rest
<1> QED
  BY <1>10, <1>11

-------------------------------------------------------------------------------
(* The streams, the list and the transfer together. *)

\* the list l has the open streams of c and no others
Listed(l, c) == /\ \A i \in 1 .. Len(l) : l[i] # Null => l[i] \in Streams /\ c[l[i]] = "open"
                /\ \A s \in Streams : c[s] = "open" => \E i \in 1 .. Len(l) : l[i] = s

TypeInv == StreamTypes /\ CtlTypes /\ SocketInv /\ Listed(streams, conn)

\* a transfer will come to stream s: one is deferred, or the one that runs has still to
\* visit s or will go round again or defer another
Coming(s) == IF ctl = "idle" THEN sheduled
             ELSE pending > 0 \/ \E i \in it .. Len(streams) : streams[i] = s

\* a stream whose reader never stops it is stopped by its end only
AwaitedInv ==
  \A s \in Patient : conn[s] = "open" =>
    /\ stopped[s] => used[s] = 0 /\ (inner[s] # "reading" \/ eof[s])
    /\ ~stopped[s] /\ used[s] > 0 => Coming(s)

(* A transfer that begins comes to every open stream. *)
LEMMA FromTheStart ==
  ASSUME StreamTypes', Listed(streams', conn'), ctl' \in {"idle", "pass"},
         ctl' = "idle" => streams' = <<>> \/ sheduled', ctl' = "pass" => it' = 1,
         NEW s \in Streams, conn'[s] = "open"
  PROVE  Coming(s)'
<1>1. PICK i \in 1 .. Len(streams') : streams'[i] = s
  BY DEF Listed
<1>2. streams' # <<>>
  BY <1>1
<1>3. CASE ctl' = "idle"
  BY <1>2, <1>3 DEF Coming
<1>4. CASE ctl' = "pass"
  BY <1>1, <1>4 DEF Coming
<1> QED
  BY <1>3, <1>4

LEMMA StreamNotNull == \A s \in Streams : s # Null
  BY LimitAssumption

LEMMA EraseStep ==
  ASSUME TypeInv, AwaitedInv, EraseRemoved
  PROVE  TypeInv' /\ AwaitedInv'
<1> DEFINE n == Len(streams)
<1>1. /\ it \in 1 .. n /\ n \in Nat /\ streams[it] = Null /\ ctl = "pass"
      /\ streams' = Erased(it) /\ streams \in Seq(Streams \cup {Null})
      /\ UNCHANGED <<conn, used, paused, stopped, eof, inner, got, ended, ctlVars>>
  BY LenProperties DEF EraseRemoved, Erased, TypeInv, CtlTypes, StreamTypes
<1>2. /\ streams' \in Seq(Streams \cup {Null}) /\ Len(streams') = n - 1
      /\ \A i \in 1 .. n - 1 : streams'[i] = IF i < it THEN streams[i] ELSE streams[i + 1]
  BY <1>1, ErasedSeq
<1>3. \A i \in 1 .. n : streams[i] # Null =>
        \E j \in 1 .. n - 1 : streams'[j] = streams[i] /\ (i >= it => j >= it)
  <2> SUFFICES ASSUME NEW i \in 1 .. n, streams[i] # Null
               PROVE  \E j \in 1 .. n - 1 : streams'[j] = streams[i] /\ (i >= it => j >= it)
    OBVIOUS
  <2>1. CASE i < it
    <3>1. i \in 1 .. n - 1 /\ ~(i >= it)
      BY <2>1, <1>1
    <3> QED
      BY <3>1, <2>1, <1>2
  <2>2. CASE ~(i < it)
    <3>1. i # it
      BY <1>1
    <3>2. i - 1 \in 1 .. n - 1 /\ i - 1 >= it /\ (i - 1) + 1 = i /\ ~(i - 1 < it)
      BY <2>2, <3>1, <1>1
    <3> QED
      BY <3>2, <1>2
  <2> QED
    BY <2>1, <2>2
<1>4. \A j \in 1 .. n - 1 : \E i \in 1 .. n : streams'[j] = streams[i]
  <2> TAKE j \in 1 .. n - 1
  <2>1. j \in 1 .. n /\ j + 1 \in 1 .. n
    BY <1>1
  <2> QED
    BY <2>1, <1>2
<1>5. Listed(streams', conn')
  <2>1. \A j \in 1 .. Len(streams') :
          streams'[j] # Null => streams'[j] \in Streams /\ conn'[streams'[j]] = "open"
    BY <1>1, <1>2, <1>4 DEF TypeInv, Listed
  <2>2. \A s \in Streams : conn'[s] = "open" => \E j \in 1 .. Len(streams') : streams'[j] = s
    <3> SUFFICES ASSUME NEW s \in Streams, conn'[s] = "open"
                 PROVE  \E j \in 1 .. Len(streams') : streams'[j] = s
      OBVIOUS
    <3>1. PICK i \in 1 .. n : streams[i] = s
      BY <1>1 DEF TypeInv, Listed
    <3> QED
      BY <3>1, <1>2, <1>3, StreamNotNull
  <2> QED
    BY <2>1, <2>2 DEF Listed
<1>6. TypeInv'
  BY <1>1, <1>2, <1>5 DEF TypeInv, StreamTypes, CtlTypes, SocketInv, ctlVars
<1>7. AwaitedInv'
  <2> SUFFICES ASSUME NEW s \in Patient, conn'[s] = "open"
               PROVE  /\ stopped'[s] => used'[s] = 0 /\ (inner'[s] # "reading" \/ eof'[s])
                      /\ ~stopped'[s] /\ used'[s] > 0 => Coming(s)'
    BY DEF AwaitedInv, Patient
  <2>1. s \in Streams /\ conn[s] = "open"
    BY <1>1 DEF Patient
  <2>2. ASSUME Coming(s) PROVE Coming(s)'
    <3>1. CASE pending > 0
      BY <3>1, <1>1 DEF Coming, ctlVars
    <3>2. CASE \E i \in it .. n : streams[i] = s
      <4>1. PICK i \in it .. n : streams[i] = s
        BY <3>2
      <4>2. i \in 1 .. n /\ i >= it
        BY <1>1
      <4>3. PICK j \in 1 .. n - 1 : streams'[j] = s /\ j >= it
        BY <4>1, <4>2, <2>1, <1>3, StreamNotNull
      <4>4. j \in it' .. Len(streams') /\ ctl' # "idle"
        BY <4>3, <1>1, <1>2 DEF ctlVars
      <4> QED
        BY <4>3, <4>4 DEF Coming
    <3> QED
      BY <2>2, <3>1, <3>2, <1>1 DEF Coming
  <2> QED
    BY <2>1, <2>2, <1>1 DEF AwaitedInv
<1> QED
  BY <1>6, <1>7

LEMMA EndPassStep ==
  ASSUME TypeInv, AwaitedInv, EndPass
  PROVE  TypeInv' /\ AwaitedInv'
<1>1. /\ UNCHANGED streamVars /\ ctl = "pass" /\ it > Len(streams) /\ it \in Nat
      /\ Len(streams) \in Nat
  BY LenProperties DEF EndPass, TypeInv, CtlTypes, StreamTypes
<1>2. /\ CtlTypes'
      /\ ctl' = "idle" => sheduled' = (pending > 0)
      /\ ctl' = "pass" => it' = 1
  BY EndPassTypes DEF TypeInv
<1>3. StreamTypes' /\ SocketInv' /\ Listed(streams', conn')
  BY <1>1 DEF TypeInv, StreamTypes, SocketInv, streamVars
<1>4. TypeInv'
  BY <1>2, <1>3 DEF TypeInv
<1>5. AwaitedInv'
  <2> SUFFICES ASSUME NEW s \in Patient, conn'[s] = "open"
               PROVE  /\ stopped'[s] => used'[s] = 0 /\ (inner'[s] # "reading" \/ eof'[s])
                      /\ ~stopped'[s] /\ used'[s] > 0 => Coming(s)'
    BY DEF AwaitedInv, Patient
  <2>1. /\ s \in Streams /\ conn[s] = "open" /\ stopped'[s] = stopped[s]
        /\ used'[s] = used[s] /\ inner'[s] = inner[s] /\ eof'[s] = eof[s]
    BY <1>1 DEF Patient, streamVars
  <2>2. ASSUME Coming(s) PROVE Coming(s)'
    <3>1. pending > 0
      BY <2>2, <1>1 DEF Coming
    <3>2. CASE ctl' = "idle"
      BY <3>1, <3>2, <1>2 DEF Coming
    <3>3. CASE ctl' # "idle"
      BY <3>3, <2>1, <1>2, <1>3, FromTheStart DEF CtlTypes
    <3> QED
      BY <3>2, <3>3
  <2> QED
    BY <2>1, <2>2 DEF AwaitedInv
<1> QED
  BY <1>4, <1>5

LEMMA TimerStep ==
  ASSUME TypeInv, AwaitedInv, TimerFires
  PROVE  TypeInv' /\ AwaitedInv'
<1>1. PICK e \in Elapsed : BeginTransfer(e)
  BY DEF TimerFires
<1>2. UNCHANGED streamVars
  BY DEF TimerFires
<1>3. /\ CtlTypes'
      /\ ctl' = "idle" => streams' = <<>> \/ sheduled'
      /\ ctl' = "pass" => it' = 1
  BY <1>1, <1>2, BeginTypes DEF TypeInv, StreamTypes, streamVars
<1>4. StreamTypes' /\ SocketInv' /\ Listed(streams', conn')
  BY <1>2 DEF TypeInv, StreamTypes, SocketInv, streamVars
<1>5. AwaitedInv'
  <2>1. \A s \in Patient : conn'[s] = "open" => Coming(s)'
    BY <1>3, <1>4, FromTheStart DEF CtlTypes, Patient
  <2> QED
    BY <1>2, <2>1 DEF AwaitedInv, streamVars, Patient
<1> QED
  BY <1>3, <1>4, <1>5 DEF TypeInv

(* Removing stream s, and closing it, keeps the list right, and the places of the others. *)
LEMMA RemoveListed ==
  ASSUME StreamTypes, Listed(streams, conn), NEW s \in Streams,
         streams' = Removed(s), conn'[s] = "closed",
         \A t \in Streams : t # s => conn'[t] = conn[t]
  PROVE  /\ Listed(streams', conn') /\ Len(streams') = Len(streams)
         /\ \A t \in Streams, i \in 1 .. Len(streams) :
              t # s /\ streams[i] = t => streams'[i] = t
<1>1. /\ Len(streams') = Len(streams)
      /\ \A i \in 1 .. Len(streams) : streams'[i] = IF streams[i] = s THEN Null ELSE streams[i]
  BY RemovedSeq DEF StreamTypes
<1>2. \A i \in 1 .. Len(streams') :
        streams'[i] # Null => streams'[i] \in Streams /\ conn'[streams'[i]] = "open"
  BY <1>1 DEF Listed
<1>3. \A t \in Streams, i \in 1 .. Len(streams) : t # s /\ streams[i] = t => streams'[i] = t
  BY <1>1
<1>4. \A t \in Streams : conn'[t] = "open" => \E i \in 1 .. Len(streams') : streams'[i] = t
  <2> SUFFICES ASSUME NEW t \in Streams, conn'[t] = "open"
               PROVE  \E i \in 1 .. Len(streams') : streams'[i] = t
    OBVIOUS
  <2>1. t # s /\ conn[t] = "open"
    OBVIOUS
  <2>2. PICK i \in 1 .. Len(streams) : streams[i] = t
    BY <2>1 DEF Listed
  <2> QED
    BY <1>1, <1>3, <2>1, <2>2
<1> QED
  BY <1>1, <1>2, <1>3, <1>4 DEF Listed

(* A visit: what a stream keeps in its buffer is counted as pending. *)
LEMMA VisitStep ==
  ASSUME TypeInv, AwaitedInv, VisitAny
  PROVE  TypeInv' /\ AwaitedInv'
<1> DEFINE s == streams[it]
           n == Len(streams)
<1>1. /\ ctl = "pass" /\ it \in 1 .. n /\ n \in Nat /\ s # Null /\ chunk \in Nat /\ chunk > 0
      /\ pending \in Nat /\ spent \in Nat
  BY LenProperties DEF VisitAny, Visiting, TypeInv, CtlTypes, StreamTypes
<1>2. s \in Streams /\ conn[s] = "open" /\ used[s] \in Nat
  BY <1>1 DEF TypeInv, Listed, StreamTypes
<1>3. PICK r \in Reactions[s], r2 \in {"none", "stop", "close"} : Visit(r, r2)
  BY DEF VisitAny
<1>4. r \in {"none", "stop", "close"} /\ (s \in Patient => r # "stop")
  BY <1>2, LimitAssumption DEF Patient
<1>5. Offer \in Nat /\ Offer <= used[s] /\ (used[s] > 0 => Offer > 0)
  BY <1>1, <1>2 DEF Offer, Least
<1>6. /\ it' = it + 1 /\ left' = (left - Offer) % SizeMod
      /\ pending' = pending + (IF Offer > 0 /\ used[s] > Offer THEN 1 ELSE 0)
      /\ UNCHANGED <<sheduled, ctl, chunk, budget>>
      /\ IF Publishes(s, Offer) THEN transfer(s, Offer, r, r2)
         ELSE UNCHANGED <<streamVars, spent>>
  BY <1>3 DEF Visit, Unsatisfied
<1>7. left' \in 0 .. SizeMod - 1
  <2>1. left \in Int /\ Offer \in Int /\ left - Offer \in Int
    BY <1>5, LimitAssumption DEF TypeInv, CtlTypes
  <2>2. SizeMod \in Nat \ {0}
    BY LimitAssumption
  <2> QED
    BY <1>6, <2>1, <2>2, ModBounds
<1>8. pending' \in Nat /\ pending' >= pending /\ (used[s] > Offer => pending' > 0)
  BY <1>1, <1>2, <1>5, <1>6
<1>9. ASSUME spent' \in Nat PROVE CtlTypes'
  BY <1>1, <1>6, <1>7, <1>8, <1>9 DEF TypeInv, CtlTypes
\* the streams that are not visited
<1>10. ASSUME NEW t \in Streams, t # s, Coming(t),
              \A i \in 1 .. n : streams[i] = t => streams'[i] = t, Len(streams') = n
       PROVE  Coming(t)'
  <2>1. CASE pending > 0
    BY <2>1, <1>1, <1>6, <1>8 DEF Coming
  <2>2. CASE \E i \in it .. n : streams[i] = t
    <3>1. PICK i \in it .. n : streams[i] = t
      BY <2>2
    <3>2. i \in it' .. Len(streams') /\ streams'[i] = t
      BY <3>1, <1>1, <1>6, <1>10
    <3> QED
      BY <3>2, <1>1, <1>6 DEF Coming
  <2> QED
    BY <2>1, <2>2, <1>1, <1>10 DEF Coming
<1> HIDE DEF s, n
<1>11. CASE Publishes(s, Offer)
  <2>1. transfer(s, Offer, r, r2) /\ Offer > 0 /\ ~stopped[s]
    BY <1>6, <1>11 DEF Publishes
  <2>2. /\ StreamTypes' /\ SocketInv' /\ spent' \in Nat
        /\ used'[s] = used[s] - Offer /\ used'[s] \in Nat
        /\ stopped'[s] => r # "none" \/ (used'[s] = 0 /\ eof'[s])
        /\ \A t \in Streams : t # s =>
             /\ conn'[t] = conn[t] /\ used'[t] = used[t] /\ paused'[t] = paused[t]
             /\ stopped'[t] = stopped[t] /\ eof'[t] = eof[t] /\ inner'[t] = inner[t]
             /\ ended'[t] = ended[t]
        /\ \/ streams' = streams /\ conn'[s] = "open" /\ r # "close"
           \/ streams' = Removed(s) /\ conn'[s] = "closed"
    BY <2>1, <1>1, <1>2, <1>4, <1>5, TransferSocket DEF TypeInv
  <2>3. /\ Listed(streams', conn') /\ Len(streams') = n
        /\ \A t \in Streams, i \in 1 .. n : t # s /\ streams[i] = t => streams'[i] = t
    <3>1. CASE streams' = streams /\ conn'[s] = "open"
      BY <3>1, <1>2, <2>2 DEF TypeInv, Listed, n
    <3>2. CASE streams' = Removed(s) /\ conn'[s] = "closed"
      BY <3>2, <1>2, <2>2, RemoveListed DEF TypeInv, n
    <3> QED
      BY <2>2, <3>1, <3>2
  <2>4. TypeInv'
    BY <2>2, <2>3, <1>9 DEF TypeInv
  <2>5. ASSUME NEW t \in Patient, conn'[t] = "open"
        PROVE  /\ stopped'[t] => used'[t] = 0 /\ (inner'[t] # "reading" \/ eof'[t])
               /\ ~stopped'[t] /\ used'[t] > 0 => Coming(t)'
    <3>1. t \in Streams
      BY DEF Patient
    <3>2. CASE t = s
      <4>1. r = "none"
        BY <3>2, <2>2, <2>5, <1>4
      <4>2. used'[s] > 0 => used[s] > Offer
        BY <2>2, <1>2, <1>5
      <4>3. used'[t] > 0 => Coming(t)'
        BY <3>2, <4>2, <1>1, <1>6, <1>8 DEF Coming
      <4> QED
        BY <3>2, <4>1, <4>3, <2>2, <2>5
    <3>3. CASE t # s
      BY <3>1, <3>3, <2>2, <2>3, <2>5, <1>10 DEF AwaitedInv
    <3> QED
      BY <3>2, <3>3
  <2> QED
    BY <2>4, <2>5 DEF AwaitedInv, Patient
<1>12. CASE ~Publishes(s, Offer)
  <2>1. UNCHANGED <<streamVars, spent>>
    BY <1>6, <1>12
  <2>2. TypeInv'
    BY <2>1, <1>1, <1>9 DEF TypeInv, StreamTypes, SocketInv, streamVars
  <2>3. ASSUME NEW t \in Patient, conn'[t] = "open"
        PROVE  /\ stopped'[t] => used'[t] = 0 /\ (inner'[t] # "reading" \/ eof'[t])
               /\ ~stopped'[t] /\ used'[t] > 0 => Coming(t)'
    <3>1. /\ t \in Streams /\ conn[t] = "open" /\ stopped'[t] = stopped[t]
          /\ used'[t] = used[t] /\ inner'[t] = inner[t] /\ eof'[t] = eof[t]
      BY <2>1, <2>3 DEF Patient, streamVars
    <3>2. ~stopped[t] /\ used[t] > 0 => t # s
      BY <1>5, <1>12 DEF Publishes
    <3>3. streams' = streams
      BY <2>1 DEF streamVars
    <3> QED
      BY <3>1, <3>2, <3>3, <1>10 DEF AwaitedInv, n
  <2> QED
    BY <2>2, <2>3 DEF AwaitedInv, Patient
<1> QED
  BY <1>11, <1>12

-------------------------------------------------------------------------------
(* The events between two transfers, or behind a visit. *)

LEMMA CreateStep ==
  ASSUME TypeInv, AwaitedInv, NEW s \in Streams, Create(s)
  PROVE  TypeInv' /\ AwaitedInv'
<1> DEFINE n == Len(streams)
<1>1. /\ conn[s] = "new" /\ conn' = [conn EXCEPT ![s] = "open"]
      /\ streams' = Append(streams, s) /\ streams \in Seq(Streams \cup {Null})
      /\ n \in Nat /\ it \in Nat /\ it' = IF it > n THEN it + 1 ELSE it
      /\ UNCHANGED <<used, paused, stopped, eof, inner, got, ended,
                     sheduled, ctl, left, chunk, pending, budget, spent>>
  BY LenProperties DEF Create, TypeInv, StreamTypes, CtlTypes
<1>2. /\ streams' \in Seq(Streams \cup {Null}) /\ Len(streams') = n + 1
      /\ streams'[n + 1] = s /\ \A i \in 1 .. n : streams'[i] = streams[i]
  BY <1>1, AppendProperties
<1>3. /\ conn' \in [Streams -> {"new", "open", "closed"}] /\ conn'[s] = "open"
      /\ \A t \in Streams : t # s => conn'[t] = conn[t]
  BY <1>1 DEF TypeInv, StreamTypes
<1>4. StreamTypes' /\ CtlTypes'
  BY <1>1, <1>2, <1>3 DEF TypeInv, StreamTypes, CtlTypes
<1>5. used[s] = 0 /\ inner[s] = "idle" /\ ~paused[s] /\ BufferMax > 0
  BY <1>1, BufferPositive DEF TypeInv, SocketInv, Socket
<1>6. SocketInv'
  <2>1. Socket("new", used[s], paused[s], eof[s], inner[s], ended[s])
    BY <1>1 DEF TypeInv, SocketInv
  <2>2. Socket("open", used[s], paused[s], eof[s], inner[s], ended[s])
    BY <1>5, <2>1, BufferPositive DEF Socket
  <2> QED
    BY <1>1, <1>3, <2>2 DEF TypeInv, SocketInv
<1>7. Listed(streams', conn')
  <2>1. \A i \in 1 .. n + 1 : i \in 1 .. n \/ i = n + 1
    BY <1>1
  <2>2. n + 1 \in 1 .. n + 1 /\ \A i \in 1 .. n : i \in 1 .. n + 1
    BY <1>1
  <2>3. \A i \in 1 .. n + 1 :
          streams'[i] # Null => streams'[i] \in Streams /\ conn'[streams'[i]] = "open"
    BY <1>2, <1>3, <2>1 DEF TypeInv, Listed
  <2>4. \A t \in Streams : conn'[t] = "open" => \E i \in 1 .. n + 1 : streams'[i] = t
    BY <1>2, <1>3, <2>2 DEF TypeInv, Listed
  <2> QED
    BY <1>2, <2>3, <2>4 DEF Listed
<1>8. AwaitedInv'
  <2> SUFFICES ASSUME NEW t \in Patient, conn'[t] = "open"
               PROVE  /\ stopped'[t] => used'[t] = 0 /\ (inner'[t] # "reading" \/ eof'[t])
                      /\ ~stopped'[t] /\ used'[t] > 0 => Coming(t)'
    BY DEF AwaitedInv, Patient
  <2>1. CASE t = s
    BY <2>1, <1>1, <1>5
  <2>2. CASE t # s
    <3>1. Coming(t) => Coming(t)'
      <4>1. ASSUME ctl = "pass", NEW i \in it .. n, streams[i] = t
            PROVE  \E j \in it' .. Len(streams') : streams'[j] = t
        <5>1. i \in 1 .. n /\ it' = it /\ i \in it' .. Len(streams')
          BY <4>1, <1>1, <1>2 DEF TypeInv, CtlTypes
        <5> QED
          BY <4>1, <5>1, <1>2
      <4>2. ctl' = ctl /\ sheduled' = sheduled /\ pending' = pending /\ ctl \in {"idle", "pass"}
        BY <1>1 DEF TypeInv, CtlTypes
      <4> QED
        BY <4>1, <4>2 DEF Coming, n
    <3> QED
      BY <2>2, <3>1, <1>1, <1>3 DEF AwaitedInv, Patient
  <2> QED
    BY <2>1, <2>2
<1> QED
  BY <1>4, <1>6, <1>7, <1>8 DEF TypeInv

LEMMA ReadStep ==
  ASSUME TypeInv, AwaitedInv, NEW s \in Streams, Read(s)
  PROVE  TypeInv' /\ AwaitedInv'
<1>1. /\ ctl = "idle" /\ conn[s] = "open" /\ stopped[s] /\ inner[s] # "reading"
      /\ stopped' = [stopped EXCEPT ![s] = FALSE]
      /\ inner' = IF paused[s] THEN inner ELSE [inner EXCEPT ![s] = "reading"]
      /\ UNCHANGED <<conn, used, paused, eof, got, ended, streams, ctlVars>>
  BY DEF Read, active
<1>2. /\ stopped' \in [Streams -> BOOLEAN]
      /\ inner' \in [Streams -> {"idle", "reading", "closed"}]
      /\ \A t \in Streams : t # s => stopped'[t] = stopped[t] /\ inner'[t] = inner[t]
      /\ inner'[s] = IF paused[s] THEN inner[s] ELSE "reading"
  BY <1>1 DEF TypeInv, StreamTypes
<1>3. StreamTypes' /\ CtlTypes'
  BY <1>1, <1>2 DEF TypeInv, StreamTypes, CtlTypes, ctlVars
<1>4. SocketInv'
  <2>1. Socket("open", used[s], paused[s], eof[s], inner[s], ended[s])
    BY <1>1 DEF TypeInv, SocketInv
  <2>2. Socket("open", used[s], paused[s], eof[s], inner'[s], ended[s])
    BY <1>2, <2>1 DEF Socket
  <2> QED
    BY <1>1, <1>2, <2>2 DEF TypeInv, SocketInv
<1>5. Listed(streams', conn')
  BY <1>1 DEF TypeInv
<1>6. AwaitedInv'
  <2> SUFFICES ASSUME NEW t \in Patient, conn'[t] = "open"
               PROVE  /\ stopped'[t] => used'[t] = 0 /\ (inner'[t] # "reading" \/ eof'[t])
                      /\ ~stopped'[t] /\ used'[t] > 0 => Coming(t)'
    BY DEF AwaitedInv, Patient
  <2>1. CASE t = s
    <3>1. ~stopped'[s] /\ used'[s] = 0
      BY <2>1, <1>1 DEF AwaitedInv, TypeInv, StreamTypes
    <3> QED
      BY <2>1, <3>1
  <2>2. CASE t # s
    BY <2>2, <1>1, <1>2 DEF AwaitedInv, Coming, ctlVars, Patient
  <2> QED
    BY <2>1, <2>2
<1> QED
  BY <1>3, <1>4, <1>5, <1>6 DEF TypeInv

LEMMA CloseStep ==
  ASSUME TypeInv, AwaitedInv, NEW s \in Streams, Close(s)
  PROVE  TypeInv' /\ AwaitedInv'
<1>1. /\ conn[s] = "open" /\ streams' = Removed(s)
      /\ conn' = [conn EXCEPT ![s] = "closed"]
      /\ stopped' = [stopped EXCEPT ![s] = TRUE]
      /\ inner' = [inner EXCEPT ![s] = "closed"]
      /\ UNCHANGED <<used, paused, eof, got, ended, ctlVars>>
  BY DEF Close
<1>2. /\ conn' \in [Streams -> {"new", "open", "closed"}]
      /\ stopped' \in [Streams -> BOOLEAN]
      /\ inner' \in [Streams -> {"idle", "reading", "closed"}]
      /\ \A t \in Streams : t # s => /\ stopped'[t] = stopped[t] /\ inner'[t] = inner[t]
                                     /\ conn'[t] = conn[t]
      /\ inner'[s] = "closed" /\ conn'[s] = "closed"
  BY <1>1 DEF TypeInv, StreamTypes
<1>3. streams' \in Seq(Streams \cup {Null})
  BY <1>1, RemovedSeq DEF TypeInv, StreamTypes
<1>4. StreamTypes' /\ CtlTypes'
  BY <1>1, <1>2, <1>3 DEF TypeInv, StreamTypes, CtlTypes, ctlVars
<1>5. SocketInv'
  <2>1. Socket("open", used[s], paused[s], eof[s], inner[s], ended[s])
    BY <1>1 DEF TypeInv, SocketInv
  <2>2. Socket("closed", used[s], paused[s], eof[s], "closed", ended[s])
    BY <2>1 DEF Socket
  <2> QED
    BY <1>1, <1>2, <2>2 DEF TypeInv, SocketInv
<1>6. Listed(streams', conn')
  BY <1>1, <1>2, RemoveListed DEF TypeInv
<1>7. AwaitedInv'
  <2> SUFFICES ASSUME NEW t \in Patient, conn'[t] = "open"
               PROVE  /\ stopped'[t] => used'[t] = 0 /\ (inner'[t] # "reading" \/ eof'[t])
                      /\ ~stopped'[t] /\ used'[t] > 0 => Coming(t)'
    BY DEF AwaitedInv, Patient
  <2>1. t # s
    BY <1>2
  <2>2. Coming(t) => Coming(t)'
    <3>1. ASSUME ctl = "pass", NEW i \in it .. Len(streams), streams[i] = t
          PROVE  i \in it' .. Len(streams') /\ streams'[i] = t
      <4>1. /\ streams \in Seq(Streams \cup {Null}) /\ Len(streams) \in Nat
            /\ it \in Nat /\ it > 0 /\ it' = it
        BY <3>1, <1>1, LenProperties DEF TypeInv, StreamTypes, CtlTypes, ctlVars
      <4>2. i \in 1 .. Len(streams)
        BY <4>1
      <4> QED
        BY <2>1, <3>1, <4>1, <4>2, <1>1, RemovedSeq
    <3>2. ctl' = ctl /\ sheduled' = sheduled /\ pending' = pending /\ ctl \in {"idle", "pass"}
      BY <1>1 DEF TypeInv, CtlTypes, ctlVars
    <3> QED
      BY <3>1, <3>2 DEF Coming
  <2> QED
    BY <2>1, <2>2, <1>1, <1>2 DEF AwaitedInv, Patient
<1> QED
  BY <1>4, <1>5, <1>6, <1>7 DEF TypeInv

LEMMA EndStep ==
  ASSUME TypeInv, AwaitedInv, NEW s \in Streams, InnerEnd(s)
  PROVE  TypeInv' /\ AwaitedInv'
<1>1. /\ ctl = "idle" /\ inner[s] = "reading" /\ ~eof[s]
      /\ eof' = [eof EXCEPT ![s] = TRUE] /\ inner' = [inner EXCEPT ![s] = "idle"]
      /\ UNCHANGED <<conn, used, paused, stopped, got, ended, streams, ctlVars>>
  BY DEF InnerEnd
<1>2. /\ eof' \in [Streams -> BOOLEAN] /\ inner' \in [Streams -> {"idle", "reading", "closed"}]
      /\ \A t \in Streams : t # s => eof'[t] = eof[t] /\ inner'[t] = inner[t]
      /\ inner'[s] = "idle" /\ eof'[s]
  BY <1>1 DEF TypeInv, StreamTypes
<1>3. StreamTypes' /\ CtlTypes'
  BY <1>1, <1>2 DEF TypeInv, StreamTypes, CtlTypes, ctlVars
<1>4. SocketInv'
  <2>1. Socket(conn[s], used[s], paused[s], eof[s], "reading", ended[s])
    BY <1>1 DEF TypeInv, SocketInv
  <2>2. Socket(conn[s], used[s], paused[s], TRUE, "idle", ended[s])
    BY <2>1 DEF Socket
  <2> QED
    BY <1>1, <1>2, <2>2 DEF TypeInv, SocketInv
<1>5. Listed(streams', conn')
  BY <1>1 DEF TypeInv
<1>6. AwaitedInv'
  BY <1>1, <1>2 DEF AwaitedInv, Coming, ctlVars, Patient
<1> QED
  BY <1>3, <1>4, <1>5, <1>6 DEF TypeInv

(* The network delivers: a transfer comes to every stream that has data, since one is
   deferred already or begins. *)
LEMMA DataStep ==
  ASSUME TypeInv, AwaitedInv, NEW s \in Streams, on_data(s)
  PROVE  TypeInv' /\ AwaitedInv'
<1>1. PICK n \in Packets :
        /\ got' = [got EXCEPT ![s] = @ + n] /\ used' = [used EXCEPT ![s] = @ + n]
        /\ IF Full(used[s] + n)
           THEN /\ paused' = [paused EXCEPT ![s] = TRUE]
                /\ inner' = [inner EXCEPT ![s] = "idle"]
           ELSE UNCHANGED <<paused, inner>>
  BY DEF on_data
<1>2. /\ ctl = "idle" /\ inner[s] = "reading" /\ ~eof[s] /\ shedule_transfer
      /\ UNCHANGED <<conn, stopped, eof, ended, streams>>
  BY DEF on_data
<1>3. n \in Nat /\ n > 0
  <2>1. Packets \subseteq Nat \ {0}
    BY LimitAssumption
  <2> QED
    BY <2>1
<1>4. /\ used[s] \in Nat /\ used' \in [Streams -> Nat] /\ used'[s] = used[s] + n
      /\ got' \in [Streams -> Nat]
      /\ \A t \in Streams : t # s => used'[t] = used[t]
  BY <1>1, <1>3 DEF TypeInv, StreamTypes
<1>5. /\ paused' \in [Streams -> BOOLEAN] /\ inner' \in [Streams -> {"idle", "reading", "closed"}]
      /\ \A t \in Streams : t # s => paused'[t] = paused[t] /\ inner'[t] = inner[t]
      /\ used[s] + n >= BufferMax => paused'[s] /\ inner'[s] = "idle"
      /\ ~(used[s] + n >= BufferMax) => paused'[s] = paused[s] /\ inner'[s] = "reading"
  <2>1. CASE Full(used[s] + n)
    BY <2>1, <1>1 DEF TypeInv, StreamTypes, Full
  <2>2. CASE ~Full(used[s] + n)
    BY <2>2, <1>1, <1>2 DEF TypeInv, StreamTypes, Full
  <2> QED
    BY <2>1, <2>2
<1>6. /\ CtlTypes'
      /\ ctl' = "idle" => streams' = <<>> \/ sheduled'
      /\ ctl' = "pass" => it' = 1
  BY <1>2, ShedulesTypes DEF TypeInv, StreamTypes
<1>7. StreamTypes'
  BY <1>2, <1>4, <1>5 DEF TypeInv, StreamTypes
<1>8. Socket(conn[s], used[s], paused[s], eof[s], "reading", ended[s]) /\ BufferMax \in Nat
  BY <1>2, BufferPositive DEF TypeInv, SocketInv
<1>9. conn[s] = "open"
  BY <1>8 DEF Socket, TypeInv, StreamTypes
<1>10. SocketInv'
  <2>1. ~paused[s] /\ used[s] < BufferMax /\ ~ended[s]
    BY <1>2, <1>4, <1>8, <1>9 DEF Socket
  <2>2. \E k \in Packets \cup {1} : used'[s] < BufferMax + k
    BY <2>1, <1>3, <1>4, <1>8
  <2>3. Socket("open", used'[s], paused'[s], eof[s], inner'[s], ended[s])
    BY <2>1, <2>2, <1>3, <1>4, <1>5, <1>8 DEF Socket
  <2> QED
    BY <1>2, <1>4, <1>5, <1>9, <2>3 DEF TypeInv, SocketInv
<1>11. Listed(streams', conn')
  BY <1>2 DEF TypeInv
<1>12. AwaitedInv'
  <2> SUFFICES ASSUME NEW t \in Patient, conn'[t] = "open"
               PROVE  /\ stopped'[t] => used'[t] = 0 /\ (inner'[t] # "reading" \/ eof'[t])
                      /\ ~stopped'[t] /\ used'[t] > 0 => Coming(t)'
    BY DEF AwaitedInv, Patient
  <2>1. Coming(t)'
    BY <1>6, <1>7, <1>11, FromTheStart DEF CtlTypes, Patient
  <2>2. CASE t = s
    BY <2>1, <2>2, <1>2, <1>9 DEF AwaitedInv
  <2>3. CASE t # s
    BY <2>1, <2>3, <1>2, <1>4, <1>5 DEF AwaitedInv, Patient
  <2> QED
    BY <2>2, <2>3
<1> QED
  BY <1>6, <1>7, <1>10, <1>11, <1>12 DEF TypeInv

-------------------------------------------------------------------------------
(* The theorems. *)

LEMMA ThrottleInit == Init => TypeInv /\ AwaitedInv
<1> SUFFICES ASSUME Init PROVE TypeInv /\ AwaitedInv
  OBVIOUS
<1>1. 0 \in 0 .. SizeMod - 1
  BY LimitAssumption
<1>2. StreamTypes /\ CtlTypes
  <2>1. StreamTypes
    BY DEF Init, StreamTypes
  <2>2. CtlTypes
    BY <1>1 DEF Init, CtlTypes
  <2> QED
    BY <2>1, <2>2
<1>3. SocketInv
  <2>1. \E k \in Packets \cup {1} : 0 < BufferMax + k
    <3>1. 1 \in Packets \cup {1} /\ 0 < BufferMax + 1
      BY BufferPositive
    <3> QED
      BY <3>1
  <2>2. Socket("new", 0, FALSE, FALSE, "idle", FALSE)
    BY <2>1 DEF Socket
  <2> QED
    BY <2>2 DEF Init, SocketInv
<1>4. Listed(streams, conn) /\ AwaitedInv
  BY DEF Init, Listed, AwaitedInv, Patient
<1> QED
  BY <1>2, <1>3, <1>4 DEF TypeInv

LEMMA ThrottleNext == TypeInv /\ AwaitedInv /\ [Next]_vars => TypeInv' /\ AwaitedInv'
<1> SUFFICES ASSUME TypeInv, AwaitedInv, [Next]_vars PROVE TypeInv' /\ AwaitedInv'
  OBVIOUS
<1>1. CASE Transferring
  BY <1>1, EraseStep, VisitStep, EndPassStep DEF Transferring
<1>2. CASE TimerFires
  BY <1>2, TimerStep
<1>3. ASSUME NEW s \in Streams, Create(s) \/ Read(s) \/ Close(s) \/ on_data(s) \/ InnerEnd(s)
      PROVE  TypeInv' /\ AwaitedInv'
  BY <1>3, CreateStep, ReadStep, CloseStep, DataStep, EndStep
<1>4. CASE UNCHANGED vars
  BY <1>4 DEF vars, streamVars, ctlVars, TypeInv, StreamTypes, CtlTypes, SocketInv,
              AwaitedInv, Coming, Patient
<1> QED
  BY <1>1, <1>2, <1>3, <1>4 DEF Next

LEMMA ThrottleCorrect == Safe => [](TypeInv /\ AwaitedInv)
<1> QED
  BY ThrottleInit, ThrottleNext, PTL DEF Safe

(* Every variable of the sockets and of the controller keeps its type: the budget wraps
   but stays a size_t, no buffer becomes negative, and none exceeds its bound by a whole
   packet. *)
THEOREM TypeCorrect == Spec => []TypeOK
<1>1. TypeInv => TypeOK
  BY DEF TypeInv, TypeOK, StreamTypes, CtlTypes, SocketInv, Socket
<1> QED
  BY <1>1, ThrottleCorrect, PTL DEF Spec

(* The network is paused exactly while the buffer is full, whenever the reader stops,
   reads again or closes (tcp_bandwidth.cpp:58, 124, 180). *)
THEOREM PauseCorrect == Spec => []PauseTracksBuffer
<1>1. TypeInv => PauseTracksBuffer
  BY DEF TypeInv, SocketInv, Socket, PauseTracksBuffer
<1> QED
  BY <1>1, ThrottleCorrect, PTL DEF Spec

(* A reader is told the end only when it has got every buffered byte. *)
THEOREM EndComesLast == Spec => []EndAfterData
<1>1. TypeInv => EndAfterData
  BY DEF TypeInv, SocketInv, Socket, EndAfterData
<1> QED
  BY <1>1, ThrottleCorrect, PTL DEF Spec

(* Between two transfers, data buffered for a reader that never stops have a transfer
   scheduled, for any number of streams that are added, stopped and removed around it. *)
THEOREM NothingForgotten == Spec => []NoForgottenData
<1>1. TypeInv /\ AwaitedInv => NoForgottenData
  BY DEF AwaitedInv, Coming, NoForgottenData
<1> QED
  BY <1>1, ThrottleCorrect, PTL DEF Spec

-------------------------------------------------------------------------------
(* One stream at a time keeps to the limit. *)

LEMMA ShareAtMost ==
  ASSUME NEW total \in Nat \ {0}, NEW n \in Nat \ {0}
  PROVE  Share(total, n) <= total
<1>1. total \div n \in Nat /\ total \div n <= total
  BY DivBounds
<1> QED
  BY <1>1 DEF Share, Greatest

\* a stream is listed once
Once == \A i, j \in 1 .. Len(streams) : streams[i] # Null /\ streams[i] = streams[j] => i = j

\* what was published came out of the budget, and a stream with data still to be visited is
\* offered no more than is left
BudgetInv ==
  /\ spent + left <= budget
  /\ ctl = "pass" => \A i \in it .. Len(streams) :
       streams[i] # Null /\ used[streams[i]] > 0 => chunk <= left

LEMMA IdleBudget ==
  ASSUME IdlePass
  PROVE  BudgetInv'
  BY DEF IdlePass, BudgetInv

LEMMA BeginBudget ==
  ASSUME streams \in Seq(Streams \cup {Null}), NEW e \in Elapsed, BeginTransfer(e)
  PROVE  BudgetInv'
<1> DEFINE total == (Limit * e) \div Millis
<1>1. total \in 0 .. SizeMod - 1
  BY BudgetBounds
<1> HIDE DEF total
<1>2. CASE streams = <<>> \/ total = 0
  BY <1>2, IdleBudget DEF BeginTransfer, Postpone, total
<1>3. CASE streams # <<>> /\ total # 0
  <2>1. Len(streams) \in Nat \ {0}
    BY <1>3, EmptySeq, LenProperties
  <2>2. total \in Nat \ {0}
    BY <1>1, <1>3, LimitAssumption
  <2>3. left' = total /\ chunk' = Share(total, Len(streams)) /\ budget' = total /\ spent' = 0
    BY <1>3 DEF BeginTransfer, Postpone, total
  <2>4. Share(total, Len(streams)) <= total
    BY <2>1, <2>2, ShareAtMost
  <2> QED
    BY <2>2, <2>3, <2>4 DEF BudgetInv
<1> QED
  BY <1>2, <1>3

LEMMA EraseBudget ==
  ASSUME TypeInv, Once, BudgetInv, EraseRemoved
  PROVE  Once' /\ BudgetInv'
<1> DEFINE n == Len(streams)
<1>1. /\ it \in 1 .. n /\ n \in Nat /\ ctl = "pass"
      /\ streams' = Erased(it) /\ streams \in Seq(Streams \cup {Null})
      /\ UNCHANGED <<used, ctlVars>>
  BY LenProperties DEF EraseRemoved, Erased, TypeInv, CtlTypes, StreamTypes
<1>2. /\ Len(streams') = n - 1
      /\ \A i \in 1 .. n - 1 : streams'[i] = IF i < it THEN streams[i] ELSE streams[i + 1]
  BY <1>1, ErasedSeq
<1>3. Once'
  <2> SUFFICES ASSUME NEW i \in 1 .. n - 1, NEW j \in 1 .. n - 1,
                      streams'[i] # Null, streams'[i] = streams'[j]
               PROVE  i = j
    BY <1>2 DEF Once
  <2> DEFINE old(x) == IF x < it THEN x ELSE x + 1
  <2>1. old(i) \in 1 .. n /\ old(j) \in 1 .. n
    BY <1>1
  <2>2. streams'[i] = streams[old(i)] /\ streams'[j] = streams[old(j)]
    BY <1>2
  <2> HIDE DEF old
  <2>3. old(i) = old(j)
    BY <2>1, <2>2 DEF Once
  <2> QED
    BY <2>3, <1>1 DEF old
<1>4. BudgetInv'
  <2> SUFFICES ASSUME NEW i \in it .. n - 1, streams'[i] # Null, used[streams'[i]] > 0
               PROVE  chunk <= left
    BY <1>1, <1>2 DEF BudgetInv, ctlVars
  <2>1. i \in 1 .. n - 1 /\ i + 1 \in it .. n /\ ~(i < it)
    BY <1>1
  <2>2. streams'[i] = streams[i + 1]
    BY <2>1, <1>2
  <2> QED
    BY <2>1, <2>2, <1>1 DEF BudgetInv
<1> QED
  BY <1>3, <1>4

LEMMA EndPassBudget ==
  ASSUME TypeInv, BudgetInv, EndPass
  PROVE  BudgetInv'
<1>1. CASE left > 0 /\ pending > 0
  <2>1. chunk' = Share(left, pending) /\ UNCHANGED <<left, budget, spent>>
    BY <1>1 DEF EndPass
  <2>2. left \in Nat \ {0} /\ pending \in Nat \ {0}
    BY <1>1, LimitAssumption DEF TypeInv, CtlTypes
  <2>3. chunk' <= left
    BY <2>1, <2>2, ShareAtMost
  <2> QED
    BY <2>1, <2>3 DEF BudgetInv
<1>2. CASE ~(left > 0 /\ pending > 0)
  BY <1>2, IdleBudget DEF EndPass
<1> QED
  BY <1>1, <1>2

(* Removing a stream leaves the others listed once. *)
LEMMA RemoveOnce ==
  ASSUME streams \in Seq(Streams \cup {Null}), Once, NEW s, streams' = Removed(s)
  PROVE  /\ Once' /\ Len(streams') = Len(streams)
         /\ \A i \in 1 .. Len(streams) : streams'[i] # Null => streams'[i] = streams[i]
<1>1. /\ Len(streams') = Len(streams)
      /\ \A i \in 1 .. Len(streams) : streams'[i] = IF streams[i] = s THEN Null ELSE streams[i]
  BY RemovedSeq
<1> QED
  BY <1>1 DEF Once

(* The visit of the only open stream: no other is left to be visited. *)
LEMMA VisitBudget ==
  ASSUME TypeInv, OneAtATime, Once, BudgetInv, VisitAny
  PROVE  Once' /\ BudgetInv'
<1> DEFINE s == streams[it]
           n == Len(streams)
<1>1. /\ ctl = "pass" /\ it \in 1 .. n /\ n \in Nat /\ s # Null /\ chunk \in Nat
      /\ spent \in Nat /\ budget \in Nat /\ streams \in Seq(Streams \cup {Null})
  BY LenProperties DEF VisitAny, Visiting, TypeInv, CtlTypes, StreamTypes
<1>2. s \in Streams /\ conn[s] = "open" /\ used[s] \in Nat
  BY <1>1 DEF TypeInv, Listed, StreamTypes
<1>3. PICK r \in Reactions[s], r2 \in {"none", "stop", "close"} : Visit(r, r2)
  BY DEF VisitAny
<1>4. /\ it' = it + 1 /\ left' = (left - Offer) % SizeMod
      /\ UNCHANGED <<sheduled, ctl, chunk, budget>>
      /\ IF Publishes(s, Offer) THEN transfer(s, Offer, r, r2)
         ELSE UNCHANGED <<streamVars, spent>>
  BY <1>3 DEF Visit
<1>5. left \in Nat /\ left < SizeMod /\ SizeMod \in Nat \ {0}
  BY LimitAssumption DEF TypeInv, CtlTypes
<1>6. Offer \in Nat /\ Offer <= chunk /\ Offer <= used[s]
  BY <1>1, <1>2 DEF Offer, Least
<1>7. Offer <= left
  <2>1. CASE used[s] > 0
    <3>1. chunk <= left
      BY <2>1, <1>1 DEF BudgetInv
    <3> QED
      BY <3>1, <1>1, <1>5, <1>6
  <2>2. CASE used[s] = 0
    BY <2>2, <1>5, <1>6
  <2> QED
    BY <2>1, <2>2, <1>2
<1>8. left' = left - Offer
  <2>1. left - Offer \in 0 .. SizeMod - 1
    BY <1>1, <1>5, <1>6, <1>7
  <2> QED
    BY <2>1, <1>4, <1>5
<1>9. \A i \in it + 1 .. n : streams[i] = Null
  <2> SUFFICES ASSUME NEW i \in it + 1 .. n, streams[i] # Null
               PROVE  FALSE
    OBVIOUS
  <2>1. i \in 1 .. n /\ i # it
    BY <1>1
  <2>2. streams[i] \in Streams /\ conn[streams[i]] = "open"
    BY <2>1 DEF TypeInv, Listed
  <2>3. streams[i] = s
    BY <2>2, <1>2 DEF OneAtATime
  <2> QED
    BY <2>1, <2>3, <1>1 DEF Once
<1> HIDE DEF s, n
<1>10. /\ spent' \in Nat /\ spent' <= spent + Offer
       /\ \/ streams' = streams
          \/ streams' = Removed(s)
  <2>1. CASE Publishes(s, Offer)
    <3>1. spent' = spent + Offer
      BY <2>1, <1>2, <1>4, <1>6 DEF transfer, Least
    <3>2. streams' = streams \/ streams' = Removed(s)
      BY <2>1, <1>4 DEF transfer, Handled
    <3> QED
      BY <3>1, <3>2, <1>1, <1>6
  <2>2. CASE ~Publishes(s, Offer)
    BY <2>2, <1>1, <1>4, <1>6 DEF streamVars
  <2> QED
    BY <2>1, <2>2
<1>11. /\ Once' /\ Len(streams') = n
       /\ \A i \in 1 .. n : streams'[i] # Null => streams'[i] = streams[i]
  BY <1>1, <1>10, RemoveOnce DEF n, Once
<1>12. spent' + left' <= budget'
  <2>1. spent + left <= budget /\ budget' = budget
    BY <1>4 DEF BudgetInv
  <2> QED
    BY <2>1, <1>1, <1>5, <1>6, <1>8, <1>10
<1>13. \A i \in it' .. Len(streams') : streams'[i] = Null
  <2> SUFFICES ASSUME NEW i \in it + 1 .. n, streams'[i] # Null PROVE FALSE
    BY <1>4, <1>11
  <2>1. i \in 1 .. n
    BY <1>1
  <2> QED
    BY <2>1, <1>9, <1>11
<1> QED
  BY <1>11, <1>12, <1>13 DEF BudgetInv

LEMMA CreateOnce ==
  ASSUME TypeInv, Once, NEW s \in Streams, Create(s)
  PROVE  Once'
<1> DEFINE n == Len(streams)
<1>1. /\ conn[s] = "new" /\ streams' = Append(streams, s)
      /\ streams \in Seq(Streams \cup {Null}) /\ n \in Nat
  BY LenProperties DEF Create, TypeInv, StreamTypes
<1>2. /\ Len(streams') = n + 1 /\ streams'[n + 1] = s
      /\ \A i \in 1 .. n : streams'[i] = streams[i]
  BY <1>1, AppendProperties
<1>3. \A i \in 1 .. n : streams[i] # s
  BY <1>1, StreamNotNull DEF TypeInv, Listed
<1>4. \A i \in 1 .. n + 1 : i \in 1 .. n \/ i = n + 1
  BY <1>1
<1> QED
  BY <1>2, <1>3, <1>4 DEF Once

LEMMA AloneNext ==
  TypeInv /\ OneAtATime /\ Once /\ BudgetInv /\ [Next]_vars => Once' /\ BudgetInv'
<1> SUFFICES ASSUME TypeInv, OneAtATime, Once, BudgetInv, [Next]_vars
             PROVE  Once' /\ BudgetInv'
  OBVIOUS
<1>1. CASE EraseRemoved
  BY <1>1, EraseBudget
<1>2. CASE VisitAny
  BY <1>2, VisitBudget
<1>3. CASE EndPass
  <2>1. Once'
    BY <1>3 DEF EndPass, streamVars, Once
  <2> QED
    BY <2>1, <1>3, EndPassBudget
<1>4. CASE TimerFires
  <2>1. Once'
    BY <1>4 DEF TimerFires, streamVars, Once
  <2>2. PICK e \in Elapsed : BeginTransfer(e)
    BY <1>4 DEF TimerFires
  <2> QED
    BY <2>1, <2>2, BeginBudget DEF TypeInv, StreamTypes
<1>5. ASSUME NEW s \in Streams, on_data(s) PROVE Once' /\ BudgetInv'
  <2>1. UNCHANGED streams /\ shedule_transfer /\ ctl = "idle"
    BY <1>5 DEF on_data
  <2>2. CASE sheduled
    BY <2>1, <2>2 DEF shedule_transfer, ctlVars, Once, BudgetInv
  <2>3. CASE ~sheduled
    <3>1. PICK e \in Elapsed : BeginTransfer(e)
      BY <2>1, <2>3 DEF shedule_transfer
    <3>2. Once'
      BY <2>1 DEF Once
    <3> QED
      BY <3>1, <3>2, BeginBudget DEF TypeInv, StreamTypes
  <2> QED
    BY <2>2, <2>3
<1>6. ASSUME NEW s \in Streams, Create(s) PROVE Once' /\ BudgetInv'
  <2> DEFINE n == Len(streams)
  <2>1. /\ it \in Nat /\ n \in Nat /\ it' = IF it > n THEN it + 1 ELSE it
        /\ streams \in Seq(Streams \cup {Null}) /\ streams' = Append(streams, s)
        /\ UNCHANGED <<used, ctl, left, chunk, budget, spent>> /\ conn[s] = "new"
    BY <1>6, LenProperties DEF Create, TypeInv, StreamTypes, CtlTypes
  <2>2. /\ Len(streams') = n + 1 /\ streams'[n + 1] = s
        /\ \A i \in 1 .. n : streams'[i] = streams[i]
    BY <2>1, AppendProperties
  <2>3. used[s] = 0
    BY <2>1 DEF TypeInv, SocketInv, Socket
  <2>4. ASSUME ctl = "pass", NEW i \in it' .. Len(streams'),
               streams'[i] # Null, used'[streams'[i]] > 0
        PROVE  chunk' <= left'
    <3>1. i # n + 1
      BY <2>1, <2>2, <2>3, <2>4
    <3>2. i \in 1 .. n /\ i \in it .. n
      BY <2>1, <2>2, <2>4, <3>1 DEF TypeInv, CtlTypes
    <3> QED
      BY <2>1, <2>2, <2>4, <3>2 DEF BudgetInv
  <2>5. BudgetInv'
    BY <2>1, <2>4 DEF BudgetInv
  <2> QED
    BY <2>5, <1>6, CreateOnce
<1>7. ASSUME NEW s \in Streams, Close(s) PROVE Once' /\ BudgetInv'
  <2>1. streams \in Seq(Streams \cup {Null}) /\ streams' = Removed(s)
    BY <1>7 DEF Close, TypeInv, StreamTypes
  <2>2. /\ Once' /\ Len(streams') = Len(streams)
        /\ \A i \in 1 .. Len(streams) : streams'[i] # Null => streams'[i] = streams[i]
    BY <2>1, RemoveOnce
  <2>3. UNCHANGED <<used, ctl, it, left, chunk, budget, spent>>
    BY <1>7 DEF Close, ctlVars
  <2>4. ASSUME ctl = "pass", NEW i \in it .. Len(streams),
               streams'[i] # Null, used[streams'[i]] > 0
        PROVE  chunk <= left
    <3>1. i \in 1 .. Len(streams)
      BY <2>1, <2>4, LenProperties DEF TypeInv, CtlTypes
    <3> QED
      BY <2>2, <2>4, <3>1 DEF BudgetInv
  <2> QED
    BY <2>2, <2>3, <2>4 DEF BudgetInv
<1>8. ASSUME NEW s \in Streams, Read(s) \/ InnerEnd(s) PROVE Once' /\ BudgetInv'
  BY <1>8 DEF Read, InnerEnd, ctlVars, Once, BudgetInv
<1>9. CASE UNCHANGED vars
  BY <1>9 DEF vars, streamVars, ctlVars, Once, BudgetInv
<1> QED
  BY <1>1, <1>2, <1>3, <1>4, <1>5, <1>6, <1>7, <1>8, <1>9 DEF Next, Transferring

(* A transfer keeps to the limit as long as no two streams are open at once: the only
   stream is visited once in a round and its share is at most what is left
   (bandwidth_controller.h:93, 113), so the unsigned budget cannot wrap. *)
THEOREM AloneKeepsLimit == Safe => AloneWithinBudget
<1>1. Init => Once /\ BudgetInv
  BY DEF Init, Once, BudgetInv
<1>2. BudgetInv /\ TypeInv => WithinBudget
  BY LimitAssumption DEF BudgetInv, TypeInv, CtlTypes, WithinBudget
<1>3. TypeInv /\ OneAtATime /\ Once /\ BudgetInv /\ [Next]_vars => Once' /\ BudgetInv'
  BY AloneNext
<1> QED
  BY <1>1, <1>2, <1>3, ThrottleCorrect, PTL DEF Safe, AloneWithinBudget

-------------------------------------------------------------------------------
(* The contract of a socket. *)

LEMMA ElsewhereTheSame ==
  ASSUME NEW S, NEW T, NEW f \in [S -> T], NEW g \in [S -> T], NEW s \in S,
         \A t \in S : t # s => g[t] = f[t]
  PROVE  g = [f EXCEPT ![s] = g[s]]
  OBVIOUS

\* no byte is handed on before it came
HandedInv == \A s \in Streams : used[s] <= got[s]

\* the abstract counts: of the bytes handed on, and of whether data is wanted
Handed == [s \in Streams |-> got[s] - used[s]]
Asked  == [s \in Streams |-> ~stopped[s]]

(* What a transfer does to the socket of stream s, in the terms of the contract. *)
LEMMA TransferHandsOn ==
  ASSUME TypeInv, HandedInv, NEW s \in Streams, conn[s] = "open", ~stopped[s],
         NEW n \in Nat, n > 0, n <= used[s],
         NEW r \in {"none", "stop", "close"}, NEW r2 \in {"none", "stop", "close"},
         transfer(s, n, r, r2)
  PROVE  Contract!HandOn(s) /\ HandedInv'
<1> DEFINE rest == used[s] - n
           end == eof[s] /\ rest = 0
<1>1. used[s] \in Nat /\ got[s] \in Nat /\ used[s] <= got[s] /\ Least(n, used[s]) = n
  BY DEF TypeInv, StreamTypes, HandedInv, Least
<1>2. ~ended[s]
  BY <1>1 DEF TypeInv, SocketInv, Socket
<1>3. /\ used' = [used EXCEPT ![s] = rest] /\ UNCHANGED <<eof, got>>
      /\ conn' = conn \/ conn' = [conn EXCEPT ![s] = "closed"]
  BY <1>1 DEF transfer, Handled
<1>4. /\ used'[s] = rest /\ \A t \in Streams : t # s => used'[t] = used[t]
      /\ used' \in [Streams -> Int] /\ got \in [Streams -> Nat]
  BY <1>1, <1>3 DEF TypeInv, StreamTypes
<1>5. HandedInv'
  BY <1>1, <1>3, <1>4 DEF HandedInv
<1>6. Handed' = [Handed EXCEPT ![s] = @ + n] /\ n \in 1 .. got[s] - Handed[s]
  <2>1. Handed'[s] = Handed[s] + n /\ Handed[s] \in Nat /\ got[s] - Handed[s] = used[s]
    BY <1>1, <1>3, <1>4 DEF Handed
  <2>2. \A t \in Streams : t # s => Handed'[t] = Handed[t]
    BY <1>3, <1>4 DEF Handed
  <2>3. Handed \in [Streams -> Int] /\ Handed' \in [Streams -> Int]
    BY <1>3, <1>4 DEF Handed, TypeInv, StreamTypes
  <2> QED
    BY <1>1, <2>1, <2>2, <2>3
<1>7. \/ /\ end /\ stopped' = [stopped EXCEPT ![s] = TRUE]
         /\ ended' = [ended EXCEPT ![s] = TRUE]
      \/ /\ ~end /\ stopped' = [stopped EXCEPT ![s] = r # "none"] /\ ended' = ended
         /\ conn' = [conn EXCEPT ![s] = "closed"] => r = "close" \/ conn[s] = "closed"
  <2>1. CASE end
    BY <1>1, <2>1 DEF transfer, AllPublished
  <2>2. CASE ~end
    BY <1>1, <2>2 DEF transfer, AllPublished, Handled, TypeInv, StreamTypes
  <2> QED
    BY <2>1, <2>2
<1>8. ended' = [ended EXCEPT ![s] = end]
  BY <1>2, <1>7 DEF TypeInv, StreamTypes
<1>9. end <=> eof[s] /\ Handed'[s] = got[s]
  BY <1>1, <1>3, <1>4 DEF Handed
<1>10. /\ Asked' \in {Asked, [Asked EXCEPT ![s] = FALSE]}
       /\ Asked'[s] => conn'[s] = "open" /\ ~ended'[s]
  BY <1>2, <1>3, <1>7 DEF TypeInv, StreamTypes, Asked
<1> HIDE DEF rest, end
<1>11. \E k \in 1 .. got[s] - Handed[s] : Handed' = [Handed EXCEPT ![s] = @ + k]
  BY <1>6
<1> QED
  BY <1>2, <1>3, <1>5, <1>8, <1>9, <1>10, <1>11 DEF Contract!HandOn, Handed, Asked

(* Steps that leave the sockets alone, or touch what the contract does not mention. *)
LEMMA ContractStutters ==
  ASSUME HandedInv, UNCHANGED <<conn, used, stopped, eof, got, ended>>
  PROVE  UNCHANGED Contract!vars /\ HandedInv'
<1>1. HandedInv'
  BY DEF HandedInv
<1>2. UNCHANGED Contract!vars
  BY DEF Contract!vars
<1> QED
  BY <1>1, <1>2

(* Data that arrive at a socket: its buffer is not full, or the network would be paused. *)
LEMMA DataArrives ==
  ASSUME TypeInv, HandedInv, NEW s \in Streams, on_data(s)
  PROVE  Contract!Arrive(s) /\ HandedInv'
<1>1. /\ inner[s] = "reading" /\ ~eof[s]
      /\ UNCHANGED <<conn, stopped, eof, ended>>
  BY DEF on_data
<1>2. PICK n \in Packets : got' = [got EXCEPT ![s] = @ + n] /\ used' = [used EXCEPT ![s] = @ + n]
  BY DEF on_data
<1>3. n \in Nat /\ n > 0
  <2>1. Packets \subseteq Nat \ {0}
    BY LimitAssumption
  <2> QED
    BY <2>1
<1>4. used[s] \in Nat /\ got[s] \in Nat /\ got \in [Streams -> Nat] /\ used \in [Streams -> Nat]
  BY DEF TypeInv, StreamTypes
<1>5. conn[s] = "open" /\ used[s] < BufferMax
  <2>1. Socket(conn[s], used[s], paused[s], eof[s], "reading", ended[s]) /\ BufferMax \in Nat
    BY <1>1, BufferPositive DEF TypeInv, SocketInv
  <2>2. conn[s] = "open"
    BY <2>1 DEF Socket, TypeInv, StreamTypes
  <2> QED
    BY <2>1, <2>2, <1>4 DEF Socket
<1>6. /\ got'[s] = got[s] + n /\ used'[s] = used[s] + n
      /\ \A t \in Streams : t # s => got'[t] = got[t] /\ used'[t] = used[t]
  BY <1>2, <1>4
<1>7. Handed' = Handed
  BY <1>3, <1>4, <1>6 DEF Handed
<1>8. HandedInv'
  BY <1>3, <1>4, <1>6 DEF HandedInv
<1>9. got'[s] > got[s] /\ got' = [got EXCEPT ![s] = got'[s]] /\ got[s] - Handed[s] < BufferMax
  BY <1>2, <1>3, <1>4, <1>5, <1>6 DEF Handed
<1> QED
  BY <1>1, <1>5, <1>7, <1>8, <1>9 DEF Contract!Arrive, Handed

LEMMA ContractInit == Init => Contract!Init /\ HandedInv
<1> SUFFICES ASSUME Init PROVE Contract!Init /\ HandedInv
  OBVIOUS
<1>1. HandedInv
  BY DEF Init, HandedInv
<1>2. \A s \in Streams : got[s] - used[s] = 0 /\ stopped[s] = TRUE
  BY DEF Init
<1>3. Handed = [s \in Streams |-> 0] /\ Asked = [s \in Streams |-> FALSE]
  BY <1>2 DEF Handed, Asked
<1> QED
  BY <1>1, <1>3 DEF Init, Contract!Init, Handed, Asked

LEMMA ContractNext ==
  TypeInv /\ HandedInv /\ [Next]_vars => [Contract!Next]_(Contract!vars) /\ HandedInv'
<1> SUFFICES ASSUME TypeInv, HandedInv, [Next]_vars
             PROVE  [Contract!Next]_(Contract!vars) /\ HandedInv'
  OBVIOUS
<1>1. CASE EraseRemoved \/ EndPass \/ TimerFires \/ UNCHANGED vars
  <2>1. UNCHANGED <<conn, used, stopped, eof, got, ended>>
    BY <1>1 DEF EraseRemoved, EndPass, TimerFires, vars, streamVars
  <2> QED
    BY <2>1, ContractStutters
<1>2. CASE VisitAny
  <2>1. /\ streams[it] \in Streams /\ conn[streams[it]] = "open"
        /\ used[streams[it]] \in Nat /\ chunk \in Nat
    BY <1>2, LenProperties DEF VisitAny, Visiting, TypeInv, CtlTypes, StreamTypes, Listed
  <2>2. PICK s \in Streams : s = streams[it]
    BY <2>1
  <2>3. PICK r \in Reactions[s], r2 \in {"none", "stop", "close"} : Visit(r, r2)
    BY <1>2, <2>2 DEF VisitAny
  <2>4. r \in {"none", "stop", "close"}
    BY LimitAssumption
  <2>5. Offer \in Nat /\ Offer <= used[s]
    BY <2>1, <2>2 DEF Offer, Least
  <2>6. CASE Publishes(s, Offer)
    <3>1. transfer(s, Offer, r, r2) /\ Offer > 0 /\ ~stopped[s]
      BY <2>2, <2>3, <2>6 DEF Visit, Publishes
    <3>2. PICK n \in Nat : n = Offer
      BY <2>5
    <3>3. transfer(s, n, r, r2) /\ n > 0 /\ n <= used[s]
      BY <2>5, <3>1, <3>2 DEF transfer
    <3>4. Contract!HandOn(s) /\ HandedInv'
      BY <2>1, <2>2, <2>4, <3>1, <3>3, TransferHandsOn
    <3> QED
      BY <3>4 DEF Contract!Next
  <2>7. CASE ~Publishes(s, Offer)
    <3>1. UNCHANGED <<conn, used, stopped, eof, got, ended>>
      BY <2>2, <2>3, <2>7 DEF Visit, streamVars
    <3> QED
      BY <3>1, ContractStutters
  <2> QED
    BY <2>6, <2>7
<1>3. ASSUME NEW s \in Streams, Create(s) PROVE Contract!Open(s) /\ HandedInv'
  BY <1>3 DEF Create, Contract!Open, HandedInv
<1>4. ASSUME NEW s \in Streams, Read(s) PROVE Contract!Ask(s) /\ HandedInv'
  <2>1. Asked' = [Asked EXCEPT ![s] = TRUE]
    BY <1>4 DEF Read, Asked, TypeInv, StreamTypes
  <2> QED
    BY <2>1, <1>4 DEF Read, Contract!Ask, HandedInv, Asked
<1>5. ASSUME NEW s \in Streams, Close(s) PROVE Contract!Close(s) /\ HandedInv'
  <2>1. Asked' = [Asked EXCEPT ![s] = FALSE]
    BY <1>5 DEF Close, Asked, TypeInv, StreamTypes
  <2> QED
    BY <2>1, <1>5 DEF Close, Contract!Close, HandedInv, Asked
<1>6. ASSUME NEW s \in Streams, on_data(s) PROVE Contract!Arrive(s) /\ HandedInv'
  BY <1>6, DataArrives
<1>7. ASSUME NEW s \in Streams, InnerEnd(s) PROVE Contract!NetworkEnds(s) /\ HandedInv'
  <2>1. inner[s] = "reading" /\ ~eof[s]
    BY <1>7 DEF InnerEnd
  <2>2. Socket(conn[s], used[s], paused[s], eof[s], "reading", ended[s])
    BY <2>1 DEF TypeInv, SocketInv
  <2>3. conn[s] = "open"
    BY <2>2 DEF Socket, TypeInv, StreamTypes
  <2> QED
    BY <2>1, <2>3, <1>7 DEF InnerEnd, Contract!NetworkEnds, HandedInv
<1> QED
  BY <1>1, <1>2, <1>3, <1>4, <1>5, <1>6, <1>7 DEF Next, Transferring, Contract!Next

(* The throttled socket implements the contract its reader relies on: it hands each byte
   on once, to an open socket that wants it, tells the end once and with the last byte,
   and leaves the network alone while its buffer is full. *)
THEOREM ContractKept == Safe => KeepsSocketContract
<1>1. Init => Contract!Init /\ HandedInv
  BY ContractInit
<1>2. TypeInv /\ HandedInv /\ [Next]_vars => [Contract!Next]_(Contract!vars) /\ HandedInv'
  BY ContractNext
<1> QED
  BY <1>1, <1>2, ThrottleCorrect, PTL DEF Safe, KeepsSocketContract, Contract!Spec

-------------------------------------------------------------------------------
(* A call of transfer returns. *)

\* the iterator stays within the list, and a share within its type
PassBounds == ctl = "pass" => it <= Len(streams) + 1 /\ chunk < SizeMod

LEMMA PassStep ==
  ASSUME TypeInv, PassBounds, Transferring, ctl' = "pass"
  PROVE  /\ PassBounds'
         /\ \/ /\ UNCHANGED <<it, left, pending>> /\ Len(streams') = Len(streams) - 1
               /\ it <= Len(streams)
            \/ /\ it' = it + 1 /\ Len(streams') = Len(streams) /\ it <= Len(streams)
               /\ pending' = pending
            \/ /\ it' = it + 1 /\ Len(streams') = Len(streams) /\ it <= Len(streams)
               /\ pending' = pending + 1 /\ (left' <= left => left' < left)
            \/ /\ it' = 1 /\ Len(streams') = Len(streams) /\ it = Len(streams) + 1
               /\ pending > 0 /\ pending' = 0 /\ left' = left
<1> DEFINE n == Len(streams)
<1>1. /\ streams \in Seq(Streams \cup {Null}) /\ n \in Nat /\ it \in Nat /\ left \in Nat
      /\ left < SizeMod /\ pending \in Nat /\ SizeMod \in Nat \ {0}
      /\ chunk \in Nat
  BY LenProperties, LimitAssumption DEF TypeInv, StreamTypes, CtlTypes
<1>2. CASE EraseRemoved
  <2>1. /\ it \in 1 .. n /\ streams' = Erased(it) /\ UNCHANGED <<it, left, pending, chunk, ctl>>
    BY <1>1, <1>2 DEF EraseRemoved, Erased, ctlVars, TypeInv, CtlTypes
  <2>2. Len(streams') = n - 1
    BY <1>1, <2>1, ErasedSeq
  <2> QED
    BY <1>1, <2>1, <2>2 DEF PassBounds
<1>3. CASE VisitAny
  <2>1. /\ it <= n /\ it \in 1 .. n /\ streams[it] \in Streams /\ used[streams[it]] \in Nat
    BY <1>1, <1>3 DEF VisitAny, Visiting, TypeInv, CtlTypes, StreamTypes, Listed
  <2>2. PICK s \in Streams : s = streams[it]
    BY <2>1
  <2>3. PICK r, r2 : Visit(r, r2)
    BY <1>3 DEF VisitAny
  <2>4. Len(streams') = n
    <3>1. streams' = streams \/ streams' = Removed(s)
      BY <2>2, <2>3 DEF Visit, transfer, Handled, streamVars
    <3> QED
      BY <1>1, <3>1, RemovedSeq
  <2>5. /\ it' = it + 1 /\ left' = (left - Offer) % SizeMod
        /\ pending' = pending + (IF Unsatisfied(s) THEN 1 ELSE 0) /\ chunk' = chunk
        /\ ctl = "pass"
    BY <1>3, <2>2, <2>3 DEF Visit, VisitAny, Visiting
  <2>6. CASE ~Unsatisfied(s)
    BY <1>1, <2>1, <2>4, <2>5, <2>6 DEF PassBounds
  <2>7. CASE Unsatisfied(s)
    <3>1. Offer \in Nat /\ Offer > 0 /\ Offer < SizeMod
      BY <1>1, <2>1, <2>5, <2>7 DEF Unsatisfied, Offer, Least, PassBounds
    <3>2. left' <= left => left' < left
      <4>1. CASE Offer <= left
        <5>1. left - Offer \in 0 .. SizeMod - 1
          BY <1>1, <3>1, <4>1
        <5>2. left' = left - Offer
          BY <1>1, <2>5, <5>1
        <5> QED
          BY <1>1, <3>1, <5>2
      <4>2. CASE Offer > left
        <5>1. left - Offer + SizeMod \in 0 .. SizeMod - 1
          BY <1>1, <3>1, <4>2
        <5>2. (left - Offer) % SizeMod = left - Offer + SizeMod
          BY <1>1, <3>1, <4>2, <5>1
        <5> QED
          BY <1>1, <2>5, <3>1, <5>2
      <4> QED
        BY <1>1, <3>1, <4>1, <4>2
    <3> QED
      BY <1>1, <2>1, <2>4, <2>5, <2>7, <3>2 DEF PassBounds
  <2> QED
    BY <2>6, <2>7
<1>4. CASE EndPass
  <2>1. it > n /\ ctl = "pass" /\ UNCHANGED streams
    BY <1>4 DEF EndPass, streamVars
  <2>2. left > 0 /\ pending > 0
    BY <1>4 DEF EndPass, IdlePass
  <2>3. it' = 1 /\ pending' = 0 /\ left' = left /\ chunk' = Share(left, pending)
    BY <1>4, <2>2 DEF EndPass
  <2>4. chunk' <= left /\ chunk' \in Nat
    BY <1>1, <2>2, <2>3, ShareAtMost, ShareBounds
  <2> QED
    BY <1>1, <2>1, <2>2, <2>3, <2>4 DEF PassBounds
<1> QED
  BY <1>2, <1>3, <1>4 DEF Transferring

LEMMA TimesMonotone ==
  ASSUME NEW a \in Nat, NEW b \in Nat, NEW m \in Nat, a <= b
  PROVE  a * m \in Nat /\ b * m \in Nat /\ a * m <= b * m
<1>1. PICK d \in Nat : b = a + d
  <2>1. b - a \in Nat /\ b = a + (b - a)
    OBVIOUS
  <2> QED
    BY <2>1
<1>2. b * m = a * m + d * m /\ a * m \in Nat /\ d * m \in Nat
  BY <1>1
<1> QED
  BY <1>2

\* what is still to be done, for r rounds, a list of length n, and the iterator at i
ToVisit(r, n, i) == r * (n + 1) + n + 1 - i

LEMMA NextVisit ==
  ASSUME NEW r \in Nat, NEW q \in Nat, q <= r, NEW n \in Nat, NEW i \in Nat, i <= n
  PROVE  ToVisit(q, n, i + 1) \in Nat /\ ToVisit(q, n, i + 1) < ToVisit(r, n, i)
<1>1. q * (n + 1) \in Nat /\ r * (n + 1) \in Nat /\ q * (n + 1) <= r * (n + 1)
  BY TimesMonotone
<1> QED
  BY <1>1 DEF ToVisit

LEMMA NextErased ==
  ASSUME NEW r \in Nat, NEW n \in Nat, NEW i \in Nat, i <= n, n > 0
  PROVE  ToVisit(r, n - 1, i) \in Nat /\ ToVisit(r, n - 1, i) < ToVisit(r, n, i)
<1>1. r * (n + 1) = r * n + r /\ r * n \in Nat
  OBVIOUS
<1>2. ToVisit(r, n - 1, i) = r * n + n - i
  BY DEF ToVisit
<1> QED
  BY <1>1, <1>2 DEF ToVisit

LEMMA NextRound ==
  ASSUME NEW r \in Nat, NEW n \in Nat, NEW i \in Nat, i <= n + 1
  PROVE  ToVisit(r, n, 1) \in Nat /\ ToVisit(r, n, 1) < ToVisit(r + 1, n, i)
<1>1. (r + 1) * (n + 1) = r * (n + 1) + n + 1 /\ r * (n + 1) \in Nat
  OBVIOUS
<1> QED
  BY <1>1 DEF ToVisit

LEMMA NoneNearer ==
  ASSUME NEW r \in Nat, NEW n \in Nat, NEW i \in Nat, NEW j \in Nat, i <= j, j <= n + 1
  PROVE  ToVisit(r, n, j) \in Nat /\ ToVisit(r, n, j) <= ToVisit(r, n, i)
<1>1. r * (n + 1) \in Nat
  OBVIOUS
<1> QED
  BY <1>1 DEF ToVisit

\* the streams that may still be added
NewStreams == {s \in Streams : conn[s] = "new"}

LEMMA NewFinite == IsFiniteSet(NewStreams) /\ Cardinality(NewStreams) \in Nat
<1>1. IsFiniteSet(Streams) /\ NewStreams \in SUBSET Streams
  BY LimitAssumption DEF NewStreams
<1>2. IsFiniteSet(NewStreams)
  BY ONLY <1>1, FS_Subset
<1> QED
  BY ONLY <1>2, FS_CardinalityType

LEMMA MeasureIs ==
  /\ MostStreams = Len(streams) + Cardinality(NewStreams)
  /\ VisitsLeft = ToVisit(RoundsLeft, MostStreams, it)
  /\ MostStreams' = Len(streams') + Cardinality(NewStreams')
  /\ VisitsLeft' = ToVisit(RoundsLeft', MostStreams', it')
  BY DEF MostStreams, NewStreams, VisitsLeft, ToVisit

(* A transfer neither makes a stream nor forgets that one was made. *)
LEMMA NewStay ==
  ASSUME TypeInv, Transferring
  PROVE  NewStreams' = NewStreams
<1>1. CASE EraseRemoved \/ EndPass
  BY <1>1 DEF EraseRemoved, EndPass, streamVars, NewStreams
<1>2. CASE VisitAny
  <2>1. PICK s \in Streams : s = streams[it] /\ conn[s] = "open"
    BY <1>2, LenProperties DEF VisitAny, Visiting, TypeInv, StreamTypes, CtlTypes, Listed
  <2>2. PICK r, r2 : Visit(r, r2)
    BY <1>2 DEF VisitAny
  <2>3. conn' = conn \/ conn' = [conn EXCEPT ![s] = "closed"]
    BY <2>1, <2>2 DEF Visit, transfer, Handled, streamVars
  <2>4. conn \in [Streams -> {"new", "open", "closed"}]
    BY DEF TypeInv, StreamTypes
  <2>5. \A t \in Streams : conn'[t] = "new" <=> conn[t] = "new"
    BY <2>1, <2>3, <2>4
  <2> QED
    BY <2>5 DEF NewStreams
<1> QED
  BY <1>1, <1>2 DEF Transferring

LEMMA NearerToEnd ==
  ASSUME TypeInv, PassBounds, Transferring, ctl = "pass", ctl' = "pass", left' <= left, CtlTypes'
  PROVE  VisitsLeft' \in Nat /\ VisitsLeft' < VisitsLeft
<1> DEFINE n == Len(streams)
           m == MostStreams
<1>1. VisitsLeft = ToVisit(RoundsLeft, m, it) /\ VisitsLeft' = ToVisit(RoundsLeft', m', it')
  BY MeasureIs
<1>2. /\ it \in Nat /\ n \in Nat /\ left \in Nat /\ left' \in Nat
      /\ pending \in Nat /\ pending' \in Nat /\ it <= n + 1
  BY LenProperties, LimitAssumption DEF TypeInv, StreamTypes, CtlTypes, PassBounds
<1>10. m \in Nat /\ n <= m /\ m' \in Int /\ m' - Len(streams') = m - n
  <2>1. PICK k \in Nat : k = Cardinality(NewStreams)
    BY NewFinite
  <2>2. m = n + k /\ m' = Len(streams') + k
    BY <2>1, MeasureIs, NewStay
  <2>3. Len(streams') \in Int
    BY <1>2, PassStep
  <2> QED
    BY <1>2, <2>2, <2>3
<1> HIDE DEF m
<1>3. /\ RoundsLeft \in Nat /\ RoundsLeft' \in Nat
      /\ pending > 0 => RoundsLeft = left + 1
      /\ pending = 0 => RoundsLeft = left
      /\ pending' > 0 => RoundsLeft' = left' + 1
      /\ pending' = 0 => RoundsLeft' = left'
  <2>1. pending > 0 => RoundsLeft = left + 1
    BY DEF RoundsLeft
  <2>2. ~(pending > 0) => RoundsLeft = left
    BY DEF RoundsLeft
  <2>3. pending' > 0 => RoundsLeft' = left' + 1
    BY DEF RoundsLeft
  <2>4. ~(pending' > 0) => RoundsLeft' = left'
    BY DEF RoundsLeft
  <2> QED
    BY <1>2, <2>1, <2>2, <2>3, <2>4
<1>4. CASE UNCHANGED <<it, left, pending>> /\ Len(streams') = n - 1 /\ it <= n
  <2>1. RoundsLeft' = RoundsLeft /\ m' = m - 1 /\ it <= m /\ m > 0
    <3>1. it > 0
      BY DEF TypeInv, CtlTypes
    <3>2. RoundsLeft' = RoundsLeft
      BY <1>4 DEF RoundsLeft
    <3> QED
      BY <3>1, <3>2, <1>2, <1>4, <1>10
  <2> HIDE DEF RoundsLeft
  <2> QED
    BY <2>1, <1>1, <1>2, <1>3, <1>4, <1>10, NextErased
<1>5. CASE it' = it + 1 /\ Len(streams') = n /\ it <= n /\ RoundsLeft' <= RoundsLeft
  <2>1. m' = m /\ it <= m
    BY <1>2, <1>5, <1>10
  <2> QED
    BY <2>1, <1>1, <1>2, <1>3, <1>5, <1>10, NextVisit
<1>6. CASE it' = 1 /\ Len(streams') = n /\ it = n + 1 /\ RoundsLeft = RoundsLeft' + 1
  <2>1. m' = m /\ it <= m + 1
    BY <1>2, <1>6, <1>10
  <2> QED
    BY <2>1, <1>1, <1>2, <1>3, <1>6, <1>10, NextRound
<1>7. \/ UNCHANGED <<it, left, pending>> /\ Len(streams') = n - 1 /\ it <= n
      \/ it' = it + 1 /\ Len(streams') = n /\ it <= n /\ RoundsLeft' <= RoundsLeft
      \/ it' = 1 /\ Len(streams') = n /\ it = n + 1 /\ RoundsLeft = RoundsLeft' + 1
  <2>1. PICK r \in Nat, q \in Nat, l \in Nat, k \in Nat, p \in Nat, d \in Nat :
          r = RoundsLeft /\ q = RoundsLeft' /\ l = left /\ k = left' /\ p = pending /\ d = pending'
    BY <1>2, <1>3
  <2>2. (p > 0 => r = l + 1) /\ (p = 0 => r = l) /\ (d > 0 => q = k + 1) /\ (d = 0 => q = k)
    BY <1>3, <2>1
  <2>3. k <= l /\ (d = p \/ (d = p + 1 /\ k < l) => q <= r)
        /\ (p > 0 /\ d = 0 /\ k = l => r = q + 1)
    <3>1. k <= l
      BY <2>1
    <3>2. ASSUME d = p PROVE q <= r
      BY <2>2, <3>1, <3>2
    <3>3. ASSUME d = p + 1, k < l PROVE q <= r
      BY <2>2, <3>3
    <3>4. ASSUME p > 0, d = 0, k = l PROVE r = q + 1
      BY <2>2, <3>4
    <3> QED
      BY <3>1, <3>2, <3>3, <3>4
  <2> HIDE DEF RoundsLeft
  <2> QED
    BY <2>1, <2>3, PassStep
<1> QED
  BY <1>4, <1>5, <1>6, <1>7

(* What a handler does to other streams does not put the end off. *)
LEMMA NoFurtherFromEnd ==
  ASSUME TypeInv, PassBounds, ctl = "pass", NEW s \in Streams, Create(s) \/ Close(s)
  PROVE  VisitsLeft' \in Nat /\ VisitsLeft' <= VisitsLeft
<1> DEFINE n == Len(streams)
           m == MostStreams
<1>1. /\ streams \in Seq(Streams \cup {Null}) /\ n \in Nat /\ it \in Nat /\ it <= n + 1
      /\ conn \in [Streams -> {"new", "open", "closed"}] /\ left \in Nat /\ pending \in Nat
  BY LenProperties, LimitAssumption DEF TypeInv, StreamTypes, CtlTypes, PassBounds
<1>2. UNCHANGED <<left, pending>>
  BY DEF Create, Close, ctlVars
<1>3. RoundsLeft \in Nat /\ RoundsLeft' = RoundsLeft
  BY <1>1, <1>2 DEF RoundsLeft
<1>4. PICK k \in Nat : k = Cardinality(NewStreams)
  BY NewFinite
<1>5. m = n + k /\ VisitsLeft = ToVisit(RoundsLeft, m, it) /\ VisitsLeft' = ToVisit(RoundsLeft', m', it')
  BY <1>4, MeasureIs
<1>6. m' = m /\ it' \in Nat /\ it <= it' /\ it' <= m + 1
  <2>1. CASE Create(s)
    <3>1. conn[s] = "new" /\ conn' = [conn EXCEPT ![s] = "open"] /\ streams' = Append(streams, s)
          /\ it' = IF it > n THEN it + 1 ELSE it
      BY <2>1 DEF Create
    <3>2. Len(streams') = n + 1
      BY <1>1, <3>1, AppendProperties
    <3>3. s \in NewStreams /\ NewStreams' = NewStreams \ {s}
      BY <1>1, <3>1 DEF NewStreams
    <3>4. Cardinality(NewStreams') = k - 1
      BY <1>4, <3>3, NewFinite, FS_RemoveElement
    <3>5. k > 0
      <4>1. NewStreams # {}
        BY <3>3
      <4>2. k # 0
        BY ONLY <1>4, <4>1, NewFinite, FS_EmptySet
      <4> QED
        BY <1>4, <4>2
    <3>6. m' = Len(streams') + Cardinality(NewStreams')
      BY MeasureIs
    <3> QED
      BY <1>1, <1>4, <1>5, <3>1, <3>2, <3>4, <3>5, <3>6
  <2>2. CASE Close(s)
    <3>1. conn[s] = "open" /\ conn' = [conn EXCEPT ![s] = "closed"] /\ streams' = Removed(s)
          /\ it' = it
      BY <2>2 DEF Close, ctlVars
    <3>2. Len(streams') = n
      BY <1>1, <3>1, RemovedSeq
    <3>3. NewStreams' = NewStreams
      BY <1>1, <3>1 DEF NewStreams
    <3>4. m' = Len(streams') + Cardinality(NewStreams')
      BY MeasureIs
    <3> QED
      BY <1>1, <1>4, <1>5, <3>1, <3>2, <3>3, <3>4
  <2> QED
    BY <2>1, <2>2
<1> HIDE DEF m
<1>7. m \in Nat
  BY <1>1, <1>4, <1>5
<1> QED
  BY <1>1, <1>3, <1>5, <1>6, <1>7, NoneNearer

LEMMA BoundsNext == TypeInv /\ PassBounds /\ [Next]_vars => PassBounds'
<1> SUFFICES ASSUME TypeInv, PassBounds, [Next]_vars PROVE PassBounds'
  OBVIOUS
<1>1. CASE Transferring
  BY <1>1, PassStep DEF PassBounds
<1>2. ASSUME NEW e \in Elapsed, BeginTransfer(e), streams' = streams PROVE PassBounds'
  <2> DEFINE total == (Limit * e) \div Millis
  <2>1. total \in 0 .. SizeMod - 1
    BY BudgetBounds
  <2> HIDE DEF total
  <2>2. CASE streams = <<>> \/ total = 0
    BY <1>2, <2>2 DEF BeginTransfer, Postpone, IdlePass, PassBounds, total
  <2>3. CASE streams # <<>> /\ total # 0
    <3>1. streams \in Seq(Streams \cup {Null}) /\ SizeMod \in Nat
      BY LimitAssumption DEF TypeInv, StreamTypes
    <3>2. Len(streams) \in Nat \ {0} /\ total \in Nat \ {0}
      BY <2>1, <2>3, <3>1, EmptySeq, LenProperties
    <3>3. it' = 1 /\ chunk' = Share(total, Len(streams))
      BY <1>2, <2>3 DEF BeginTransfer, Postpone, total
    <3>4. chunk' <= total /\ chunk' \in Nat
      BY <3>2, <3>3, ShareAtMost, ShareBounds
    <3> QED
      BY <1>2, <2>1, <3>1, <3>2, <3>3, <3>4 DEF PassBounds
  <2> QED
    BY <2>2, <2>3
<1>3. CASE TimerFires
  BY <1>2, <1>3 DEF TimerFires, streamVars
<1>4. ASSUME NEW s \in Streams, on_data(s) PROVE PassBounds'
  <2>1. UNCHANGED streams /\ shedule_transfer
    BY <1>4 DEF on_data
  <2>2. CASE sheduled
    BY <2>1, <2>2 DEF shedule_transfer, ctlVars, PassBounds
  <2>3. CASE ~sheduled
    BY <2>1, <2>3, <1>2 DEF shedule_transfer
  <2> QED
    BY <2>2, <2>3
<1>5. ASSUME NEW s \in Streams, Read(s) \/ InnerEnd(s) PROVE PassBounds'
  BY <1>5 DEF Read, InnerEnd, ctlVars, PassBounds
<1>7. ASSUME NEW s \in Streams, Create(s) \/ Close(s) PROVE PassBounds'
  <2>1. /\ streams \in Seq(Streams \cup {Null}) /\ Len(streams) \in Nat /\ it \in Nat
    BY LenProperties DEF TypeInv, StreamTypes, CtlTypes
  <2>2. CASE Create(s)
    <3>1. Len(streams') = Len(streams) + 1 /\ UNCHANGED <<ctl, chunk>>
          /\ it' = IF it > Len(streams) THEN it + 1 ELSE it
      BY <2>1, <2>2, AppendProperties DEF Create
    <3> QED
      BY <2>1, <3>1 DEF PassBounds
  <2>3. CASE Close(s)
    <3>1. Len(streams') = Len(streams)
      BY <2>1, <2>3, RemovedSeq DEF Close
    <3> QED
      BY <3>1, <2>3 DEF Close, ctlVars, PassBounds
  <2> QED
    BY <1>7, <2>2, <2>3
<1>6. CASE UNCHANGED vars
  BY <1>6 DEF vars, streamVars, ctlVars, PassBounds
<1> QED
  BY <1>1, <1>3, <1>4, <1>5, <1>6, <1>7 DEF Next

(* Every call of transfer returns, unless it wraps its budget: a natural number falls with
   each of its steps, because a further round is asked for only by a stream that took
   something of the budget (bandwidth_controller.h:114-120, 129), and it does not rise when
   a handler adds a stream to the list that is being iterated or closes one of it. *)
THEOREM TransferReturns == Safe => TransferComesToEnd
<1>1. Init => PassBounds
  BY DEF Init, PassBounds
<1>2. TypeInv /\ PassBounds /\ [Next]_vars => PassBounds'
  BY BoundsNext
<1>3. TypeInv /\ TypeInv' /\ PassBounds /\ [Next]_vars =>
        [ctl = "pass" /\ ctl' = "pass" /\ left' <= left =>
           /\ VisitsLeft' \in Nat /\ VisitsLeft' <= VisitsLeft
           /\ Transferring => VisitsLeft' < VisitsLeft]_vars
  <2> SUFFICES ASSUME TypeInv, CtlTypes', PassBounds, Next,
                      ctl = "pass", ctl' = "pass", left' <= left
               PROVE  /\ VisitsLeft' \in Nat /\ VisitsLeft' <= VisitsLeft
                      /\ Transferring => VisitsLeft' < VisitsLeft
    BY DEF TypeInv
  <2>1. VisitsLeft \in Int
    <3>1. /\ Len(streams) \in Nat /\ it \in Nat /\ left \in Nat /\ pending \in Nat
      BY LenProperties, LimitAssumption DEF TypeInv, StreamTypes, CtlTypes
    <3>2. RoundsLeft \in Nat
      BY <3>1 DEF RoundsLeft
    <3>3. PICK m \in Nat : m = MostStreams
      BY <3>1, NewFinite, MeasureIs
    <3>4. RoundsLeft * (m + 1) \in Nat
      BY <3>2
    <3> QED
      BY <3>1, <3>3, <3>4, MeasureIs DEF ToVisit
  <2>2. CASE Transferring
    <3>1. VisitsLeft' \in Nat /\ VisitsLeft' < VisitsLeft
      BY <2>2, NearerToEnd
    <3> QED
      BY <2>1, <3>1
  <2>3. ASSUME NEW s \in Streams, Create(s) \/ Close(s)
        PROVE  VisitsLeft' \in Nat /\ VisitsLeft' <= VisitsLeft
    BY <2>3, NoFurtherFromEnd
  <2> QED
    BY <2>2, <2>3 DEF Next, TimerFires, Read, on_data, InnerEnd
<1> QED
  BY <1>1, <1>2, <1>3, ThrottleCorrect, PTL DEF Safe, TransferComesToEnd

-------------------------------------------------------------------------------
(* Where the budget can be overrun. *)

(* A stream stays listed once, whatever the readers do. *)
LEMMA VisitOnce ==
  ASSUME TypeInv, Once, VisitAny
  PROVE  Once'
<1>1. streams \in Seq(Streams \cup {Null})
  BY DEF TypeInv, StreamTypes
<1>2. PICK r, r2 : Visit(r, r2)
  BY DEF VisitAny
<1>3. streams' = streams \/ streams' = Removed(streams[it])
  BY ONLY <1>2 DEF Visit, transfer, Handled, streamVars
<1>4. CASE streams' = streams
  BY ONLY <1>4, Once DEF Once
<1>5. CASE streams' = Removed(streams[it])
  BY ONLY <1>1, <1>5, Once, RemoveOnce
<1> QED
  BY <1>3, <1>4, <1>5

LEMMA OnceNext == TypeInv /\ Once /\ [Next]_vars => Once'
<1> SUFFICES ASSUME TypeInv, Once, [Next]_vars PROVE Once'
  OBVIOUS
<1>0. streams \in Seq(Streams \cup {Null})
  BY DEF TypeInv, StreamTypes
<1>1. CASE UNCHANGED streams
  BY ONLY Once, <1>1 DEF Once
<1>2. CASE EraseRemoved
  <2> DEFINE n == Len(streams)
  <2>1. /\ it \in 1 .. n /\ n \in Nat /\ streams' = Erased(it)
    BY <1>0, <1>2, LenProperties DEF EraseRemoved, Erased, TypeInv, CtlTypes
  <2>2. /\ Len(streams') = n - 1
        /\ \A i \in 1 .. n - 1 : streams'[i] = IF i < it THEN streams[i] ELSE streams[i + 1]
    BY ONLY <1>0, <2>1, ErasedSeq
  <2> SUFFICES ASSUME NEW i \in 1 .. n - 1, NEW j \in 1 .. n - 1,
                      streams'[i] # Null, streams'[i] = streams'[j]
               PROVE  i = j
    BY <2>2 DEF Once
  <2> DEFINE old(x) == IF x < it THEN x ELSE x + 1
  <2>3. old(i) \in 1 .. n /\ old(j) \in 1 .. n
    BY <2>1
  <2>4. streams'[i] = streams[old(i)] /\ streams'[j] = streams[old(j)]
    BY <2>2
  <2> HIDE DEF old
  <2>5. old(i) = old(j)
    BY <2>3, <2>4 DEF Once
  <2> QED
    BY <2>5, <2>1 DEF old
<1>3. CASE VisitAny
  BY <1>3, VisitOnce
<1>4. ASSUME NEW s \in Streams, Create(s) PROVE Once'
  BY <1>4, CreateOnce
<1>5. ASSUME NEW s \in Streams, Close(s) PROVE Once'
  BY <1>0, <1>5, RemoveOnce DEF Close
<1>6. CASE EndPass \/ TimerFires \/ UNCHANGED vars
  BY <1>1, <1>6 DEF EndPass, TimerFires, streamVars, vars
<1>7. ASSUME NEW s \in Streams, Read(s) \/ on_data(s) \/ InnerEnd(s) PROVE Once'
  BY <1>1, <1>7 DEF Read, on_data, InnerEnd
<1> QED
  BY <1>2, <1>3, <1>4, <1>5, <1>6, <1>7 DEF Next, Transferring

\* the streams with data that this round has still to visit, and those it has visited
Ahead  == { s \in Streams : used[s] > 0 /\ \E i \in it .. Len(streams) : streams[i] = s }
Behind == { s \in Streams : used[s] > 0 /\ \E i \in 1 .. it - 1 : streams[i] = s }

NothingHeld == \A s \in Streams : ~HeldBack(s)

\* unless a share had to be raised to a byte, what is left is enough for the streams ahead,
\* and the streams behind that have kept something are counted for the next round
ShareInv ==
  ctl = "pass" /\ NothingHeld => /\ chunk > 1 => chunk * Cardinality(Ahead) <= left
                                 /\ Cardinality(Behind) <= pending

(* There are no more streams with data than entries of the list. *)
LEMMA ListFinite ==
  ASSUME streams \in Seq(Streams \cup {Null}), NEW T,
         \A s \in T : \E i \in 1 .. Len(streams) : streams[i] = s
  PROVE  IsFiniteSet(T) /\ Cardinality(T) \in Nat /\ Cardinality(T) <= Len(streams)
<1> DEFINE n == Len(streams)
           R == { streams[i] : i \in 1 .. n }
<1>1. n \in Nat /\ streams \in [1 .. n -> Streams \cup {Null}]
  BY LenProperties
<1>2. streams \in Surjection(1 .. n, R)
  BY <1>1 DEF Surjection
<1>3. IsFiniteSet(1 .. n) /\ Cardinality(1 .. n) = n
  BY <1>1, FS_Interval
<1>4. T \in SUBSET R
  OBVIOUS
<1> HIDE DEF R, n
<1>5. IsFiniteSet(R) /\ Cardinality(R) <= n
  BY ONLY <1>2, <1>3, FS_Surjection
<1>6. Cardinality(R) \in Nat
  BY ONLY <1>5, FS_CardinalityType
<1>7. IsFiniteSet(T) /\ Cardinality(T) <= Cardinality(R)
  BY ONLY <1>4, <1>5, FS_Subset
<1>8. Cardinality(T) \in Nat
  BY ONLY <1>7, FS_CardinalityType
<1> QED
  BY ONLY <1>1, <1>5, <1>6, <1>7, <1>8 DEF n

LEMMA GroupsFinite ==
  ASSUME TypeInv, PassBounds, ctl = "pass"
  PROVE  /\ IsFiniteSet(Ahead) /\ Cardinality(Ahead) \in Nat
         /\ IsFiniteSet(Behind) /\ Cardinality(Behind) \in Nat
         /\ Cardinality(Ahead) <= Len(streams)
<1>1. /\ streams \in Seq(Streams \cup {Null}) /\ Len(streams) \in Nat
      /\ it \in 1 .. Len(streams) + 1
  BY LenProperties DEF TypeInv, StreamTypes, CtlTypes, PassBounds
<1>2. \A s \in Ahead : \E i \in 1 .. Len(streams) : streams[i] = s
  BY ONLY <1>1 DEF Ahead
<1>3. \A s \in Behind : \E i \in 1 .. Len(streams) : streams[i] = s
  BY ONLY <1>1 DEF Behind
<1> QED
  BY ONLY <1>1, <1>2, <1>3, ListFinite

(* Equal shares of a total do not exceed it. *)
LEMMA SharesFit ==
  ASSUME NEW total \in Nat, NEW n \in Nat \ {0}, NEW k \in Nat, k <= n,
         Share(total, n) > 1
  PROVE  Share(total, n) * k <= total
<1> DEFINE c == total \div n
<1>1. c \in Nat
  BY DivBounds
<1>2. c * n <= total
  BY <1>1
<1>3. Share(total, n) = c
  BY <1>1 DEF Share, Greatest
<1> HIDE DEF c
<1>4. k * c \in Nat /\ n * c \in Nat /\ k * c <= n * c
  BY ONLY <1>1, k \in Nat, n \in Nat \ {0}, k <= n, TimesMonotone
<1>5. k * c = c * k /\ n * c = c * n
  BY ONLY <1>1, k \in Nat, n \in Nat \ {0}
<1> QED
  BY ONLY <1>1, <1>2, <1>3, <1>4, <1>5, total \in Nat

LEMMA IdleShare ==
  ASSUME ctl' = "idle"
  PROVE  ShareInv'
  BY DEF ShareInv

(* The first round. *)
LEMMA BeginShare ==
  ASSUME TypeInv, NEW e \in Elapsed, BeginTransfer(e), streams' = streams
  PROVE  ShareInv'
<1> DEFINE total == (Limit * e) \div Millis
<1>1. total \in 0 .. SizeMod - 1
  BY BudgetBounds
<1> HIDE DEF total
<1>2. CASE streams = <<>> \/ total = 0
  <2>1. ctl' = "idle"
    BY <1>2 DEF BeginTransfer, Postpone, total, IdlePass
  <2> QED
    BY <2>1, IdleShare
<1>3. CASE streams # <<>> /\ total # 0
  <2>1. Len(streams) \in Nat \ {0} /\ total \in Nat
    BY <1>1, <1>3, EmptySeq, LenProperties, LimitAssumption DEF TypeInv, StreamTypes
  <2>2. /\ ctl' = "pass" /\ it' = 1 /\ pending' = 0 /\ left' = total
        /\ chunk' = Share(total, Len(streams))
    BY <1>3 DEF BeginTransfer, Postpone, total
  <2>3. PICK k \in Nat : k = Cardinality(Ahead') /\ k <= Len(streams)
    <3>1. PICK T : T = Ahead'
      OBVIOUS
    <3>2. \A s \in T : \E i \in 1 .. Len(streams) : streams[i] = s
      BY ONLY <2>2, <3>1, streams' = streams DEF Ahead
    <3>3. Cardinality(T) \in Nat /\ Cardinality(T) <= Len(streams)
      BY <3>2, ListFinite DEF TypeInv, StreamTypes
    <3> QED
      BY ONLY <3>1, <3>3
  <2>4. chunk' > 1 => chunk' * k <= left'
    BY ONLY <2>1, <2>2, <2>3, SharesFit
  <2>5. Behind' = {}
    BY ONLY <2>2 DEF Behind
  <2>6. Cardinality(Behind') = 0
    BY ONLY <2>5, FS_EmptySet
  <2> QED
    BY ONLY <2>2, <2>3, <2>4, <2>6 DEF ShareInv
<1> QED
  BY <1>2, <1>3

(* A further round: the streams it will come to are those that were behind. *)
LEMMA EndPassShare ==
  ASSUME TypeInv, PassBounds, ShareInv, EndPass
  PROVE  ShareInv'
<1>1. ctl = "pass" /\ it > Len(streams) /\ UNCHANGED streamVars
  BY DEF EndPass
<1>2. CASE left > 0 /\ pending > 0
  <2>1. it' = 1 /\ chunk' = Share(left, pending) /\ pending' = 0 /\ UNCHANGED <<ctl, left>>
    BY <1>2 DEF EndPass
  <2>2. left \in Nat /\ pending \in Nat \ {0} /\ it = Len(streams) + 1 /\ Len(streams) \in Nat
    <3>1. /\ left \in 0 .. SizeMod - 1 /\ SizeMod \in Nat /\ pending \in Nat /\ it \in Nat
          /\ it <= Len(streams) + 1 /\ streams \in Seq(Streams \cup {Null})
      BY <1>1, LimitAssumption DEF TypeInv, StreamTypes, CtlTypes, PassBounds
    <3>2. Len(streams) \in Nat
      BY ONLY <3>1, LenProperties
    <3> QED
      BY ONLY <1>1, <1>2, <3>1, <3>2
  <2>3. NothingHeld' <=> NothingHeld
    BY ONLY <1>1 DEF NothingHeld, HeldBack, streamVars
  <2>4. Ahead' = Behind
    BY ONLY <1>1, <2>1, <2>2 DEF Ahead, Behind, streamVars
  <2>5. Behind' = {}
    BY ONLY <2>1 DEF Behind
  <2>6. Cardinality(Behind') = 0
    BY ONLY <2>5, FS_EmptySet
  <2>7. ASSUME NothingHeld, chunk' > 1
        PROVE  chunk' * Cardinality(Behind) <= left
    <3>1. Cardinality(Behind) \in Nat /\ Cardinality(Behind) <= pending
      BY <1>1, <2>7, GroupsFinite DEF ShareInv
    <3> QED
      BY ONLY <2>1, <2>2, <2>7, <3>1, SharesFit
  <2>8. chunk' > 1 /\ NothingHeld => chunk' * Cardinality(Ahead') <= left'
    BY ONLY <2>1, <2>4, <2>7
  <2> QED
    BY ONLY <2>1, <2>3, <2>6, <2>8 DEF ShareInv
<1>3. CASE ~(left > 0 /\ pending > 0)
  BY <1>3, IdleShare DEF EndPass, IdlePass
<1> QED
  BY <1>2, <1>3

LEMMA EraseShare ==
  ASSUME TypeInv, ShareInv, EraseRemoved
  PROVE  ShareInv'
<1> DEFINE n == Len(streams)
<1>1. streams \in Seq(Streams \cup {Null}) /\ n \in Nat
  BY LenProperties DEF TypeInv, StreamTypes
<1>2. /\ it \in 1 .. n /\ streams' = Erased(it) /\ streams[it] = Null
      /\ UNCHANGED <<conn, used, stopped, ctl, it, left, chunk, pending>>
  BY <1>1 DEF EraseRemoved, Erased, ctlVars, TypeInv, CtlTypes
<1>3. /\ Len(streams') = n - 1
      /\ \A i \in 1 .. n - 1 : streams'[i] = IF i < it THEN streams[i] ELSE streams[i + 1]
  BY ONLY <1>1, <1>2, ErasedSeq
<1>4. Behind' = Behind
  <2>1. \A i \in 1 .. it - 1 : streams'[i] = streams[i]
    BY ONLY <1>1, <1>2, <1>3
  <2> QED
    BY ONLY <1>2, <2>1 DEF Behind
<1>5. Ahead' = Ahead
  <2>1. ASSUME NEW s \in Streams
        PROVE  (\E i \in it .. n - 1 : streams'[i] = s) <=> (\E i \in it .. n : streams[i] = s)
    <3>1. ASSUME NEW i \in it .. n - 1, streams'[i] = s
          PROVE  \E j \in it .. n : streams[j] = s
      <4>1. i \in 1 .. n - 1 /\ ~(i < it) /\ i + 1 \in it .. n
        BY ONLY <1>1, <1>2
      <4> QED
        BY ONLY <1>3, <3>1, <4>1
    <3>2. ASSUME NEW i \in it .. n, streams[i] = s
          PROVE  \E j \in it .. n - 1 : streams'[j] = s
      <4>1. i # it
        BY <1>2, <3>2, StreamNotNull
      <4>2. i - 1 \in it .. n - 1 /\ i - 1 \in 1 .. n - 1 /\ ~(i - 1 < it) /\ (i - 1) + 1 = i
        BY ONLY <1>1, <1>2, <4>1, i \in it .. n
      <4> QED
        BY ONLY <1>3, <3>2, <4>2
    <3> QED
      BY <3>1, <3>2
  <2> QED
    BY ONLY <1>2, <1>3, <2>1 DEF Ahead
<1>6. NothingHeld' <=> NothingHeld
  BY ONLY <1>2 DEF NothingHeld, HeldBack
<1> QED
  BY ONLY <1>2, <1>4, <1>5, <1>6, ShareInv DEF ShareInv

(* A visit takes its stream from those ahead, and if the stream keeps something, puts it
   behind and counts it. *)
LEMMA VisitShare ==
  ASSUME TypeInv, PassBounds, Once, ShareInv, VisitAny
  PROVE  ShareInv' /\ (NothingHeld /\ left' > left => left = 0 /\ chunk = 1)
<1> DEFINE n == Len(streams)
<1>1. /\ ctl = "pass" /\ it \in 1 .. n /\ n \in Nat /\ streams[it] # Null
      /\ chunk \in Nat \ {0} /\ pending \in Nat
      /\ streams \in Seq(Streams \cup {Null}) /\ used \in [Streams -> Nat]
  BY LenProperties DEF VisitAny, Visiting, TypeInv, CtlTypes, StreamTypes
<1>2. PICK s \in Streams : s = streams[it] /\ conn[s] = "open"
  BY <1>1 DEF TypeInv, Listed
<1>3. PICK r, r2 : Visit(r, r2)
  BY DEF VisitAny
<1>4. PICK o \in Nat : o = Offer /\ o <= chunk /\ o <= used[s] /\ (o = used[s] \/ o = chunk)
  BY <1>1, <1>2 DEF Offer, Least
<1>5. /\ it' = it + 1 /\ left' = (left - o) % SizeMod /\ UNCHANGED <<ctl, chunk>>
      /\ pending' = pending + (IF Unsatisfied(s) THEN 1 ELSE 0)
      /\ IF Publishes(s, o) THEN transfer(s, o, r, r2) ELSE UNCHANGED <<streamVars, spent>>
  BY ONLY <1>2, <1>3, <1>4 DEF Visit
<1>6. /\ left \in Nat /\ left < SizeMod /\ SizeMod \in Nat \ {0} /\ chunk < SizeMod
  BY <1>1, LimitAssumption DEF TypeInv, CtlTypes, PassBounds
<1>7. /\ \A t \in Streams : t # s => used'[t] = used[t]
      /\ used'[s] \in Nat /\ used'[s] = IF Publishes(s, o) THEN used[s] - o ELSE used[s]
  <2>1. CASE Publishes(s, o)
    <3>1. used' = [used EXCEPT ![s] = used[s] - Least(o, used[s])]
      BY ONLY <1>5, <2>1 DEF transfer
    <3>2. Least(o, used[s]) = o /\ used[s] \in Nat
      BY <1>1, <1>4 DEF Least
    <3> QED
      BY ONLY <1>1, <1>4, <2>1, <3>1, <3>2, s \in Streams, o \in Nat
  <2>2. CASE ~Publishes(s, o)
    BY ONLY <1>1, <1>5, <2>2, s \in Streams DEF streamVars
  <2> QED
    BY <2>1, <2>2
<1>8. Len(streams') = n /\ \A i \in 1 .. n : streams'[i] # Null => streams'[i] = streams[i]
  <2>1. streams' = streams \/ streams' = Removed(s)
    BY ONLY <1>5 DEF transfer, Handled, streamVars
  <2>2. CASE streams' = streams
    BY ONLY <2>2
  <2>3. CASE streams' = Removed(s)
    BY ONLY <1>1, <2>3, RemovedSeq
  <2> QED
    BY ONLY <2>1, <2>2, <2>3
<1>9. \A i \in 1 .. n : streams[i] = s => i = it
  BY <1>1, <1>2 DEF Once
<1>10. \A t \in Streams : HeldBack(t) => HeldBack(t)' 
  <2> TAKE t \in Streams
  <2>1. CASE Publishes(s, o)
    <3>1. HeldBack(t) => t # s
      BY ONLY <2>1 DEF Publishes, HeldBack
    <3>2. t # s => conn'[t] = conn[t] /\ stopped'[t] = stopped[t]
      BY <1>5, <2>1 DEF transfer, Handled, TypeInv, StreamTypes
    <3> QED
      BY ONLY <1>7, <3>1, <3>2, t \in Streams DEF HeldBack
  <2>2. CASE ~Publishes(s, o)
    BY ONLY <1>5, <2>2 DEF HeldBack, streamVars
  <2> QED
    BY <2>1, <2>2
<1>11. NothingHeld' => NothingHeld
  BY ONLY <1>10 DEF NothingHeld
<1>12. /\ IsFiniteSet(Ahead) /\ Cardinality(Ahead) \in Nat
       /\ IsFiniteSet(Behind) /\ Cardinality(Behind) \in Nat
  BY <1>1, GroupsFinite
<1>13. s \in Ahead <=> o > 0
  <2>1. used[s] > 0 <=> o > 0
    BY <1>1, <1>4
  <2> QED
    BY ONLY <1>1, <1>2, <2>1 DEF Ahead
<1>14. Ahead' \subseteq Ahead \ {s}
  <2> SUFFICES ASSUME NEW t \in Ahead' PROVE t \in Ahead \ {s}
    OBVIOUS
  <2>0. t \in Streams /\ used'[t] > 0 /\ \E i \in it + 1 .. n : streams'[i] = t
    BY ONLY <1>5, <1>8, t \in Ahead' DEF Ahead
  <2>4. PICK i \in it + 1 .. n : streams'[i] = t
    BY ONLY <2>0
  <2>1. i \in 1 .. n /\ i \in it .. n /\ i # it
    BY ONLY <1>1
  <2>2. streams[i] = t
    BY ONLY <1>8, <2>0, <2>1, <2>4, StreamNotNull
  <2>3. t # s
    BY ONLY <1>9, <2>1, <2>2
  <2> QED
    BY ONLY <1>7, <2>0, <2>1, <2>2, <2>3 DEF Ahead
<1>15. Behind' \subseteq Behind \cup {s}
  <2> SUFFICES ASSUME NEW t \in Streams, used'[t] > 0, t # s,
                      NEW i \in 1 .. it, streams'[i] = t
               PROVE  t \in Behind
    BY <1>1, <1>5 DEF Behind
  <2>1. i \in 1 .. n
    BY ONLY <1>1
  <2>2. streams[i] = t
    BY <1>8, <2>1, StreamNotNull
  <2>3. i \in 1 .. it - 1
    BY ONLY <1>1, <1>2, <2>2, i \in 1 .. it, t # s
  <2> QED
    BY ONLY <1>7, <2>2, <2>3, used'[t] > 0, t # s, t \in Streams DEF Behind
<1>16. ASSUME NothingHeld, s \in Behind'
       PROVE  Unsatisfied(s)
  <2>1. used'[s] > 0
    BY ONLY <1>16 DEF Behind
  <2>2. o > 0
    BY <1>1, <1>4, <1>7, <2>1
  <2>3. ~stopped[s]
    BY ONLY <1>1, <1>2, <1>4, <1>16, <2>2 DEF NothingHeld, HeldBack
  <2>4. used[s] > o
    BY <1>1, <1>7, <2>1, <2>2, <2>3 DEF Publishes
  <2> QED
    BY ONLY <1>4, <2>2, <2>4 DEF Unsatisfied
<1>17. ASSUME NothingHeld PROVE Cardinality(Behind') <= pending'
  <2>1. PICK B : B = Behind'
    OBVIOUS
  <2>2. Cardinality(Behind) <= pending
    BY ONLY <1>1, <1>17, ShareInv DEF ShareInv
  <2>3. CASE s \in B
    <3>1. pending' = pending + 1
      BY ONLY <1>5, <1>16, <1>17, <2>1, <2>3
    <3>2. IsFiniteSet(Behind \cup {s}) /\ Cardinality(Behind \cup {s}) <= Cardinality(Behind) + 1
      <4>1. /\ IsFiniteSet(Behind \cup {s})
            /\ Cardinality(Behind \cup {s}) \in {Cardinality(Behind), Cardinality(Behind) + 1}
        BY ONLY <1>12, FS_AddElement
      <4> QED
        BY ONLY <1>12, <4>1
    <3>3. B \in SUBSET (Behind \cup {s})
      BY ONLY <1>15, <2>1
    <3>4. IsFiniteSet(B) /\ Cardinality(B) <= Cardinality(Behind \cup {s})
      BY ONLY <3>2, <3>3, FS_Subset
    <3>5. Cardinality(B) \in Nat /\ Cardinality(Behind \cup {s}) \in Nat
      BY ONLY <3>2, <3>4, FS_CardinalityType
    <3> QED
      BY ONLY <1>1, <1>12, <2>1, <2>2, <3>1, <3>2, <3>4, <3>5
  <2>4. CASE s \notin B
    <3>1. B \in SUBSET Behind
      BY ONLY <1>15, <2>1, <2>4
    <3>2. IsFiniteSet(B) /\ Cardinality(B) <= Cardinality(Behind)
      BY ONLY <1>12, <3>1, FS_Subset
    <3>3. Cardinality(B) \in Nat
      BY ONLY <3>2, FS_CardinalityType
    <3>4. pending' \in Nat /\ pending' >= pending
      BY ONLY <1>1, <1>5
    <3> QED
      BY ONLY <1>1, <1>12, <2>1, <2>2, <3>2, <3>3, <3>4
  <2> QED
    BY ONLY <2>3, <2>4
<1>18. left >= o => left' = left - o
  <2> SUFFICES ASSUME left >= o PROVE left' = left - o
    OBVIOUS
  <2>1. left - o \in 0 .. SizeMod - 1
    BY ONLY <1>6, left >= o, o \in Nat
  <2> QED
    BY ONLY <1>5, <1>6, <2>1
<1>19. ASSUME NothingHeld, chunk > 1
       PROVE  o <= left /\ chunk * Cardinality(Ahead') <= left - o
  <2>1. PICK A : A = Ahead'
    OBVIOUS
  <2>2. PICK k \in Nat : k = Cardinality(Ahead) /\ chunk * k <= left
    BY ONLY <1>1, <1>12, <1>19, ShareInv DEF ShareInv
  <2>3. A \in SUBSET (Ahead \ {s})
    BY ONLY <1>14, <2>1
  <2>4. IsFiniteSet(Ahead \ {s})
    BY ONLY <1>12, FS_RemoveElement
  <2>5. IsFiniteSet(A) /\ Cardinality(A) <= Cardinality(Ahead \ {s})
    BY ONLY <2>3, <2>4, FS_Subset
  <2>6. PICK m \in Nat : m = Cardinality(A)
    BY ONLY <2>5, FS_CardinalityType
  <2>7. CASE o = 0
    <3>1. s \notin Ahead
      BY ONLY <1>13, <2>7
    <3>2. Cardinality(Ahead \ {s}) = k
      BY ONLY <1>12, <2>2, <3>1, FS_RemoveElement
    <3>3. m * chunk <= k * chunk /\ m * chunk = chunk * m /\ k * chunk = chunk * k
      BY ONLY <1>1, <2>5, <2>6, <3>2, k \in Nat, m \in Nat, TimesMonotone
    <3>4. chunk * m \in Nat /\ chunk * k \in Nat
      BY ONLY <1>1, k \in Nat, m \in Nat
    <3> QED
      BY ONLY <1>6, <2>1, <2>2, <2>6, <2>7, <3>3, <3>4
  <2>8. CASE o > 0
    <3>1. s \in Ahead
      BY ONLY <1>13, <2>8
    <3>2. Cardinality(Ahead \ {s}) = k - 1 /\ k # 0
      BY ONLY <1>12, <2>2, <3>1, FS_RemoveElement, FS_EmptySet
    <3>3. k - 1 \in Nat
      BY ONLY <3>2, k \in Nat
    <3>4. m * chunk <= (k - 1) * chunk /\ m * chunk = chunk * m
      BY ONLY <1>1, <2>5, <2>6, <3>2, <3>3, m \in Nat, TimesMonotone
    <3>5. (k - 1) * chunk = chunk * k - chunk /\ chunk * m \in Nat /\ chunk * k \in Nat
          /\ (k - 1) * chunk \in Nat
      BY ONLY <1>1, <3>3, k \in Nat, m \in Nat
    <3>6. chunk \in Nat /\ o <= chunk /\ o \in Nat /\ left \in Nat
      BY ONLY <1>1, <1>4, <1>6
    <3> QED
      BY ONLY <2>1, <2>2, <2>6, <3>4, <3>5, <3>6
  <2> QED
    BY ONLY <2>7, <2>8, o \in Nat
<1>20. ASSUME NothingHeld, left' > left PROVE left = 0 /\ chunk = 1
  <2>1. o > left
    BY ONLY <1>6, <1>18, <1>20, o \in Nat
  <2>2. ~(chunk > 1)
    BY ONLY <1>6, <1>19, <1>20, <2>1, o \in Nat
  <2> QED
    BY ONLY <1>1, <1>4, <1>6, <2>1, <2>2, o \in Nat
<1>21. ShareInv'
  <2>1. ASSUME NothingHeld, chunk' > 1 PROVE chunk' * Cardinality(Ahead') <= left'
    <3>1. chunk > 1 /\ chunk' = chunk
      BY ONLY <1>5, <2>1
    <3>2. o <= left /\ chunk * Cardinality(Ahead') <= left - o
      BY ONLY <1>19, <2>1, <3>1
    <3> QED
      BY ONLY <1>6, <1>18, <3>1, <3>2, o \in Nat
  <2> QED
    BY ONLY <1>11, <1>17, <2>1 DEF ShareInv
<1> QED
  BY ONLY <1>20, <1>21

(* A stream added behind a visit has no data: nothing changes for the others. *)
LEMMA CreateShare ==
  ASSUME TypeInv, PassBounds, ShareInv, NEW s \in Streams, Create(s)
  PROVE  ShareInv'
<1> DEFINE n == Len(streams)
<1>1. /\ streams \in Seq(Streams \cup {Null}) /\ n \in Nat /\ it \in Nat
      /\ streams' = Append(streams, s) /\ it' = IF it > n THEN it + 1 ELSE it
      /\ conn[s] = "new" /\ conn' = [conn EXCEPT ![s] = "open"]
      /\ conn \in [Streams -> {"new", "open", "closed"}]
      /\ UNCHANGED <<used, stopped, ctl, left, chunk, pending>>
  BY LenProperties DEF Create, TypeInv, StreamTypes, CtlTypes
<1>2. /\ Len(streams') = n + 1 /\ streams'[n + 1] = s
      /\ \A i \in 1 .. n : streams'[i] = streams[i]
  BY <1>1, AppendProperties
<1>3. ~(used[s] > 0)
  BY <1>1 DEF TypeInv, SocketInv, Socket
<1> SUFFICES ASSUME ctl = "pass", NothingHeld' PROVE ShareInv'
  BY <1>1 DEF ShareInv
<1>4. it \in 1 .. n + 1
  BY <1>1 DEF TypeInv, CtlTypes, PassBounds
<1>5. NothingHeld
  <2> SUFFICES ASSUME NEW t \in Streams, HeldBack(t) PROVE HeldBack(t)'
    BY DEF NothingHeld
  <2> QED
    BY ONLY <1>1, <1>3, t \in Streams, HeldBack(t) DEF HeldBack
<1>6. ASSUME NEW t \in Streams, used[t] > 0
      PROVE  /\ (\E i \in it' .. n + 1 : streams'[i] = t) <=> (\E i \in it .. n : streams[i] = t)
             /\ (\E i \in 1 .. it' - 1 : streams'[i] = t) <=> (\E i \in 1 .. it - 1 : streams[i] = t)
  <2>1. t # s
    BY <1>3, <1>6
  <2>2. CASE it > n
    <3>1. it = n + 1 /\ it' = n + 2
      BY <1>1, <1>4, <2>2
    <3>2. \A i \in 1 .. n + 1 : i \in 1 .. n \/ i = n + 1
      BY <1>1
    <3> QED
      BY <1>1, <1>2, <2>1, <3>1, <3>2
  <2>3. CASE it <= n
    <3>1. it' = it /\ 1 .. it - 1 \subseteq 1 .. n /\ it .. n \subseteq 1 .. n
      BY <1>1, <1>4, <2>3
    <3>2. \A i \in it .. n + 1 : i \in it .. n \/ i = n + 1
      BY <1>1
    <3>3. it .. n \subseteq it .. n + 1
      BY <1>1
    <3> QED
      BY <1>1, <1>2, <2>1, <3>1, <3>2, <3>3
  <2>4. it > n \/ it <= n
    BY <1>1
  <2> QED
    BY ONLY <2>2, <2>3, <2>4
<1>7. Ahead' = Ahead
  BY ONLY <1>1, <1>2, <1>6 DEF Ahead
<1>8. Behind' = Behind
  BY ONLY <1>1, <1>2, <1>6 DEF Behind
<1> QED
  BY ONLY <1>1, <1>5, <1>7, <1>8, ctl = "pass", ShareInv DEF ShareInv

(* A stream that another handler closes is held back if it has data. *)
LEMMA CloseShare ==
  ASSUME TypeInv, PassBounds, ShareInv, NEW s \in Streams, Close(s)
  PROVE  ShareInv'
<1> DEFINE n == Len(streams)
<1>1. /\ streams \in Seq(Streams \cup {Null}) /\ n \in Nat /\ it \in Nat
      /\ streams' = Removed(s) /\ conn[s] = "open" /\ conn' = [conn EXCEPT ![s] = "closed"]
      /\ stopped' = [stopped EXCEPT ![s] = TRUE]
      /\ conn \in [Streams -> {"new", "open", "closed"}] /\ stopped \in [Streams -> BOOLEAN]
      /\ UNCHANGED <<used, ctl, it, left, chunk, pending>>
      /\ ctl = "idle" \/ s \in Removable
  BY LenProperties DEF Close, ctlVars, TypeInv, StreamTypes, CtlTypes
<1>2. /\ Len(streams') = n
      /\ \A i \in 1 .. n : streams'[i] = IF streams[i] = s THEN Null ELSE streams[i]
  BY <1>1, RemovedSeq
<1> SUFFICES ASSUME ctl = "pass", NothingHeld' PROVE ShareInv'
  BY <1>1 DEF ShareInv
<1>3. it \in 1 .. n + 1 /\ s \in Removable
  BY <1>1 DEF TypeInv, CtlTypes, PassBounds
<1>4. ~(used[s] > 0)
  BY <1>1, <1>3 DEF NothingHeld, HeldBack
<1>5. NothingHeld
  <2> SUFFICES ASSUME NEW t \in Streams, HeldBack(t) PROVE HeldBack(t)'
    BY DEF NothingHeld
  <2> QED
    BY ONLY <1>1, <1>4, t \in Streams, HeldBack(t) DEF HeldBack
<1>6. ASSUME NEW t \in Streams, used[t] > 0, NEW i \in 1 .. n
      PROVE  streams'[i] = t <=> streams[i] = t
  BY <1>2, <1>4, <1>6, StreamNotNull
<1>7. it .. n \subseteq 1 .. n /\ 1 .. it - 1 \subseteq 1 .. n
  BY <1>1, <1>3
<1>8. Ahead' = Ahead
  BY ONLY <1>1, <1>2, <1>6, <1>7 DEF Ahead
<1>9. Behind' = Behind
  BY ONLY <1>1, <1>2, <1>6, <1>7 DEF Behind
<1> QED
  BY ONLY <1>1, <1>5, <1>8, <1>9, ctl = "pass", ShareInv DEF ShareInv

LEMMA ShareNext ==
  TypeInv /\ PassBounds /\ Once /\ ShareInv /\ [Next]_vars => ShareInv'
<1> SUFFICES ASSUME TypeInv, PassBounds, Once, ShareInv, [Next]_vars PROVE ShareInv'
  OBVIOUS
<1>1. CASE EraseRemoved
  BY <1>1, EraseShare
<1>2. CASE VisitAny
  BY <1>2, VisitShare
<1>3. CASE EndPass
  BY <1>3, EndPassShare
<1>4. CASE TimerFires
  BY <1>4, BeginShare DEF TimerFires, streamVars
<1>5. ASSUME NEW s \in Streams, on_data(s) PROVE ShareInv'
  <2>1. ctl = "idle" /\ UNCHANGED streams /\ shedule_transfer
    BY <1>5 DEF on_data
  <2>2. CASE sheduled
    BY <2>1, <2>2, IdleShare DEF shedule_transfer, ctlVars
  <2>3. CASE ~sheduled
    BY <2>1, <2>3, BeginShare DEF shedule_transfer
  <2> QED
    BY <2>2, <2>3
<1>6. ASSUME NEW s \in Streams, Read(s) \/ InnerEnd(s) PROVE ShareInv'
  <2>1. ctl' = "idle"
    BY <1>6 DEF Read, InnerEnd, ctlVars
  <2> QED
    BY <2>1, IdleShare
<1>8. ASSUME NEW s \in Streams, Create(s) PROVE ShareInv'
  BY <1>8, CreateShare
<1>9. ASSUME NEW s \in Streams, Close(s) PROVE ShareInv'
  BY <1>9, CloseShare
<1>7. CASE UNCHANGED vars
  BY <1>7 DEF vars, streamVars, ctlVars, ShareInv, NothingHeld, HeldBack, Ahead, Behind
<1> QED
  BY <1>1, <1>2, <1>3, <1>4, <1>5, <1>6, <1>7, <1>8, <1>9 DEF Next, Transferring

(* The budget wraps at one point only, for any number of streams: every round whose share
   was not raised to a byte (bandwidth_controller.h:100) shares out no more than is left,
   unless a stream is stopped with data in its buffer, which takes a share in every round
   without being counted for it (bandwidth_controller.h:112-120). *)
THEOREM OverrunsExplained == Safe => OverrunAtMinimum
<1>1. Init => PassBounds /\ Once /\ ShareInv
  BY DEF Init, PassBounds, Once, ShareInv
<1>2. TypeInv /\ PassBounds /\ [Next]_vars => PassBounds'
  BY BoundsNext
<1>3. TypeInv /\ Once /\ [Next]_vars => Once'
  BY OnceNext
<1>4. TypeInv /\ PassBounds /\ Once /\ ShareInv /\ [Next]_vars => ShareInv'
  BY ShareNext
<1>5. TypeInv /\ PassBounds /\ Once /\ ShareInv /\ [Next]_vars =>
        [ctl = "pass" /\ left' > left =>
           \/ left = 0 /\ chunk = 1
           \/ \E s \in Streams : HeldBack(s)]_vars
  <2> SUFFICES ASSUME TypeInv, PassBounds, Once, ShareInv, Next, ctl = "pass", left' > left
               PROVE  \/ left = 0 /\ chunk = 1
                      \/ \E s \in Streams : HeldBack(s)
    OBVIOUS
  <2>1. CASE VisitAny
    BY <2>1, VisitShare DEF NothingHeld
  <2>2. left \in Nat
    BY LimitAssumption DEF TypeInv, CtlTypes
  <2>3. CASE EraseRemoved \/ EndPass
    <3>1. left' = left \/ left' = 0
      BY <2>3 DEF EraseRemoved, EndPass, IdlePass, ctlVars
    <3> QED
      BY <2>2, <3>1
  <2>4. ASSUME NEW s \in Streams, Create(s) \/ Close(s) PROVE FALSE
    <3>1. left' = left
      BY <2>4 DEF Create, Close, ctlVars
    <3> QED
      BY <2>2, <3>1
  <2> QED
    BY <2>1, <2>3, <2>4 DEF Next, Transferring, TimerFires, Read, on_data, InnerEnd
<1> QED
  BY <1>1, <1>2, <1>3, <1>4, <1>5, ThrottleCorrect, PTL DEF Safe, OverrunAtMinimum
===============================================================================
