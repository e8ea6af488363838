--------------------------- MODULE PopBufferProofs ---------------------------
(***************************************************************************)
(* pop_buffer keeps the queue of a socket in step with buffer_used, for    *)
(* every queue and every length.  Its loop is a recursive function; what   *)
(* its turns do is shown by SetInduction of the set of turns for which it  *)
(* holds.                                                                  *)
(***************************************************************************)
EXTENDS ReceivingProofs, InductionLemmas

-------------------------------------------------------------------------------
(* The loop of pop_buffer. *)

\* f lists what the loop has left after each of its first m turns
Turns(f, q, n, m) ==
  f = [i \in 0 .. m |-> IF i = 0 THEN [chunks |-> q, left |-> n]
                        ELSE IF f[i - 1].left = 0 THEN f[i - 1]
                        ELSE PopOnce(f[i - 1])]

LEMMA TurnsExist ==
  ASSUME NEW q, NEW n
  PROVE  \A m \in Nat : \E f : Turns(f, q, n, m)
<1> DEFINE T == { m \in Nat : \E f : Turns(f, q, n, m) }
<1>1. 0 \in T
  <2> DEFINE f == [i \in 0 .. 0 |-> [chunks |-> q, left |-> n]]
  <2>1. Turns(f, q, n, 0)
    BY DEF Turns
  <2> QED
    BY <2>1
<1>2. ASSUME NEW m \in Nat, m \in T PROVE m + 1 \in T
  <2>1. PICK f : Turns(f, q, n, m)
    BY <1>2
  <2> DEFINE last == IF f[m].left = 0 THEN f[m] ELSE PopOnce(f[m])
             g == [i \in 0 .. m + 1 |-> IF i = m + 1 THEN last ELSE f[i]]
  <2>2. Turns(g, q, n, m + 1)
    <3>1. ASSUME NEW i \in 0 .. m + 1
          PROVE  g[i] = IF i = 0 THEN [chunks |-> q, left |-> n]
                        ELSE IF g[i - 1].left = 0 THEN g[i - 1]
                        ELSE PopOnce(g[i - 1])
      <4>1. CASE i = m + 1
        <5>1. g[i] = last /\ i - 1 \in 0 .. m /\ i - 1 = m /\ g[i - 1] = f[m] /\ i # 0
          BY <4>1
        <5> QED
          BY <5>1
      <4>2. CASE i \in 1 .. m
        <5>1. g[i] = f[i] /\ g[i - 1] = f[i - 1] /\ i # 0 /\ i \in 0 .. m
          BY <4>2
        <5>2. f[i] = IF f[i - 1].left = 0 THEN f[i - 1] ELSE PopOnce(f[i - 1])
          BY <2>1, <5>1 DEF Turns
        <5> QED
          BY <5>1, <5>2
      <4>3. CASE i = 0
        <5>1. g[0] = f[0] /\ 0 \in 0 .. m
          OBVIOUS
        <5> QED
          BY <2>1, <4>3, <5>1 DEF Turns
      <4> QED
        BY <4>1, <4>2, <4>3
    <3> QED
      BY <3>1 DEF Turns
  <2> HIDE DEF g
  <2> QED
    BY <2>2
<1> HIDE DEF T
<1>3. \A m \in Nat : m \in T
  BY <1>1, <1>2, SetInduction
<1> QED
  BY <1>3 DEF T

LEMMA PopBufferTurns ==
  ASSUME NEW q, Len(q) \in Nat, NEW n
  PROVE  \E f : Turns(f, q, n, Len(q)) /\ pop_buffer(q, n) = f[Len(q)].chunks
<1>1. \E f : Turns(f, q, n, Len(q))
  BY TurnsExist
<1> DEFINE turn == CHOOSE f : Turns(f, q, n, Len(q))
<1>2. Turns(turn, q, n, Len(q))
  BY <1>1
<1>3. pop_buffer(q, n) = turn[Len(q)].chunks
  BY DEF pop_buffer, Turns
<1> QED
  BY <1>2, <1>3

-------------------------------------------------------------------------------
(* What the loop keeps. *)

Chunk == [from : Int, to : Int]

\* q holds the positions from a to b, in order and without a gap
Holds(q, a, b) ==
  /\ q \in Seq(Chunk) /\ (q = <<>> => a = b)
  /\ \A i \in 1 .. Len(q) : /\ q[i].from < q[i].to
                            /\ q[i].from = IF i = 1 THEN a ELSE q[i - 1].to
                            /\ i = Len(q) => q[i].to = b

LEMMA HoldsBounds ==
  ASSUME NEW q, NEW a \in Int, NEW b \in Int, Holds(q, a, b)
  PROVE  a <= b /\ (q # <<>> => a < b)
<1>1. q \in Seq(Chunk) /\ Len(q) \in Nat
  BY LenProperties DEF Holds
<1> DEFINE T == { m \in Nat : m \in 1 .. Len(q) => a < q[m].to }
<1>2. 0 \in T
  OBVIOUS
<1>3. ASSUME NEW m \in Nat, m \in T PROVE m + 1 \in T
  <2> SUFFICES ASSUME m + 1 \in 1 .. Len(q) PROVE a < q[m + 1].to
    OBVIOUS
  <2>1. /\ q[m + 1].from < q[m + 1].to /\ q[m + 1].from \in Int /\ q[m + 1].to \in Int
        /\ q[m + 1].from = IF m + 1 = 1 THEN a ELSE q[m].to
    <3>1. q[m + 1] \in Chunk
      BY <1>1, ElementOfSeq
    <3> QED
      BY <3>1 DEF Holds, Chunk
  <2>2. CASE m = 0
    BY <2>1, <2>2
  <2>3. CASE m # 0
    <3>1. m \in 1 .. Len(q) /\ q[m] \in Chunk
      BY <1>1, <2>3, ElementOfSeq
    <3>2. a < q[m].to /\ q[m].to \in Int
      BY <1>3, <3>1 DEF Chunk
    <3> QED
      BY <2>1, <2>3, <3>2
  <2> QED
    BY <2>2, <2>3
<1> HIDE DEF T
<1>4. Len(q) \in T
  BY <1>1, <1>2, <1>3, SetInduction
<1>5. CASE q = <<>>
  BY <1>5 DEF Holds
<1>6. CASE q # <<>>
  <2>1. Len(q) \in 1 .. Len(q)
    BY <1>1, <1>6, EmptySeq
  <2>2. a < q[Len(q)].to
    BY <1>4, <2>1 DEF T
  <2>3. q[Len(q)].to = b
    BY <2>1 DEF Holds
  <2> QED
    BY <2>2, <2>3
<1> QED
  BY <1>5, <1>6

\* one turn with n bytes wanted, and what it leaves
Popped(q, n) == PopOnce([chunks |-> q, left |-> n])

(* A turn of the loop takes the front chunk, or what is still wanted of it. *)
LEMMA PopOnceHolds ==
  ASSUME NEW q, NEW a \in Int, NEW b \in Int, Holds(q, a, b),
         NEW n \in Nat, n # 0, n <= b - a
  PROVE  /\ Popped(q, n) = [chunks |-> Popped(q, n).chunks, left |-> Popped(q, n).left]
         /\ Popped(q, n).left \in Nat /\ Popped(q, n).left <= n
         /\ Holds(Popped(q, n).chunks, a + (n - Popped(q, n).left), b)
         /\ Popped(q, n).left = 0 \/ Len(Popped(q, n).chunks) = Len(q) - 1
<1> DEFINE front == q[1]
           size == front.to - front.from
           rest == Tail(q)
           cut == [front EXCEPT !.from = front.from + n]
           st == Popped(q, n)
<1>1. q \in Seq(Chunk) /\ q # <<>>
  BY DEF Holds
<1>2. Len(q) \in Nat /\ Len(q) >= 1 /\ Head(q) = front /\ 1 \in 1 .. Len(q)
  BY <1>1, EmptySeq
<1>3. front \in Chunk /\ front.from = a /\ a < front.to /\ front.to \in Int
  <2>1. front \in Chunk
    BY <1>1, <1>2, ElementOfSeq
  <2> QED
    BY <1>2, <2>1 DEF Holds, Chunk
<1>4. /\ rest \in Seq(Chunk) /\ Len(rest) = Len(q) - 1
      /\ \A i \in 1 .. Len(rest) : rest[i] = q[i + 1]
  BY <1>1, HeadTailProperties
<1> HIDE DEF rest
<1>5. size \in Nat /\ size = front.to - a
  BY <1>3
<1>6. Holds(rest, front.to, b)
  <2>1. ASSUME NEW i \in 1 .. Len(rest)
        PROVE  /\ rest[i].from < rest[i].to
               /\ rest[i].from = IF i = 1 THEN front.to ELSE rest[i - 1].to
               /\ i = Len(rest) => rest[i].to = b
    <3>1. /\ i + 1 \in 1 .. Len(q) /\ i + 1 # 1 /\ (i + 1) - 1 = i
          /\ i = Len(rest) => i + 1 = Len(q)
          /\ i # 1 => i - 1 \in 1 .. Len(rest) /\ (i - 1) + 1 = i
      BY <1>2, <1>4
    <3>2. /\ q[i + 1].from < q[i + 1].to /\ q[i + 1].from = q[i].to
          /\ i + 1 = Len(q) => q[i + 1].to = b
      BY <3>1 DEF Holds
    <3>3. rest[i] = q[i + 1] /\ (i # 1 => rest[i - 1] = q[i])
      BY <1>4, <3>1
    <3> QED
      BY <3>1, <3>2, <3>3
  <2>2. ASSUME rest = <<>> PROVE front.to = b
    <3>1. Len(rest) = 0
      BY <2>2
    <3>2. Len(q) = 1
      BY <1>2, <1>4, <3>1
    <3> QED
      BY <1>2, <3>2 DEF Holds
  <2> QED
    BY <1>4, <2>1, <2>2 DEF Holds
<1>7. front.to <= b
  BY <1>3, <1>6, HoldsBounds
<1>8. CASE n < size
  <2>1. st = [chunks |-> <<cut>> \o rest, left |-> 0]
    BY <1>2, <1>8 DEF Popped, PopOnce, rest
  <2>2. cut \in Chunk /\ cut.from = a + n /\ cut.to = front.to /\ cut.from < cut.to
    BY <1>3, <1>5, <1>8 DEF Chunk
  <2> DEFINE r == <<cut>> \o rest
  <2>3. /\ r \in Seq(Chunk) /\ Len(r) = Len(rest) + 1
        /\ r[1] = cut /\ \A i \in 2 .. Len(rest) + 1 : r[i] = rest[i - 1]
    <3>1. <<cut>> \in Seq(Chunk) /\ Len(<<cut>>) = 1 /\ <<cut>>[1] = cut
      BY <2>2
    <3> HIDE DEF cut
    <3>2. /\ r \in Seq(Chunk) /\ Len(r) = 1 + Len(rest)
          /\ \A i \in 1 .. 1 + Len(rest) : r[i] = IF i <= 1 THEN <<cut>>[i] ELSE rest[i - 1]
      BY <1>4, <3>1, ConcatProperties
    <3> HIDE DEF r
    <3> QED
      BY <1>2, <1>4, <3>1, <3>2
  <2> HIDE DEF r, cut
  <2>4. ASSUME NEW i \in 1 .. Len(r)
        PROVE  /\ r[i].from < r[i].to
               /\ r[i].from = IF i = 1 THEN a + n ELSE r[i - 1].to
               /\ i = Len(r) => r[i].to = b
    <3>1. CASE i = 1
      <4>1. Len(r) = 1 => rest = <<>>
        <5>1. Len(r) = 1 => Len(rest) = 0
          BY <1>2, <1>4, <2>3
        <5> QED
          BY <1>4, <5>1, EmptySeq
      <4>2. rest = <<>> => front.to = b
        BY <1>6 DEF Holds
      <4> QED
        BY <2>2, <2>3, <3>1, <4>1, <4>2
    <3>2. CASE i # 1
      <4>1. /\ i - 1 \in 1 .. Len(rest) /\ i \in 2 .. Len(rest) + 1
            /\ i = Len(r) => i - 1 = Len(rest)
            /\ i - 1 # 1 => i - 1 \in 2 .. Len(rest) + 1
        BY <1>2, <1>4, <2>3, <3>2
      <4>2. /\ rest[i - 1].from < rest[i - 1].to
            /\ rest[i - 1].from = IF i - 1 = 1 THEN front.to ELSE rest[(i - 1) - 1].to
            /\ i - 1 = Len(rest) => rest[i - 1].to = b
        BY <1>6, <4>1 DEF Holds
      <4>3. r[i] = rest[i - 1] /\ (i - 1 # 1 => r[i - 1] = rest[(i - 1) - 1])
        BY <2>3, <4>1
      <4>4. i - 1 = 1 => r[i - 1].to = front.to
        BY <2>2, <2>3
      <4> QED
        BY <3>2, <4>1, <4>2, <4>3, <4>4
    <3> QED
      BY <3>1, <3>2
  <2>5. r # <<>>
    BY <1>2, <1>4, <2>3, EmptySeq
  <2>6. Holds(r, a + n, b)
    BY <2>3, <2>4, <2>5 DEF Holds
  <2> HIDE DEF st
  <2>7. /\ st = [chunks |-> st.chunks, left |-> st.left]
        /\ st.chunks = r /\ st.left = 0
    BY <2>1 DEF r
  <2>8. a + (n - st.left) = a + n /\ st.left \in Nat /\ st.left <= n
    BY <2>7
  <2> QED
    BY <2>6, <2>7, <2>8 DEF st
<1>9. CASE ~(n < size)
  <2>1. st = [chunks |-> rest, left |-> n - size]
    BY <1>2, <1>9 DEF Popped, PopOnce, rest
  <2>2. /\ st = [chunks |-> st.chunks, left |-> st.left]
        /\ st.chunks = rest /\ st.left = n - size
    BY <2>1
  <2> HIDE DEF st
  <2>3. st.left \in Nat /\ st.left <= n /\ a + (n - st.left) = front.to
    BY <1>3, <1>5, <1>9, <2>2
  <2> QED
    BY <1>4, <1>6, <2>2, <2>3 DEF st
<1> QED
  BY <1>8, <1>9

(* pop_buffer takes exactly n bytes off the front, if there are so many. *)
LEMMA PopBufferHolds ==
  ASSUME NEW q, NEW a \in Int, NEW b \in Int, Holds(q, a, b),
         NEW n \in Nat, n <= b - a
  PROVE  Holds(pop_buffer(q, n), a + n, b)
<1>1. q \in Seq(Chunk) /\ Len(q) \in Nat
  BY LenProperties DEF Holds
<1>2. PICK f : Turns(f, q, n, Len(q)) /\ pop_buffer(q, n) = f[Len(q)].chunks
  BY <1>1, PopBufferTurns
<1> DEFINE Kept(i) == /\ f[i] = [chunks |-> f[i].chunks, left |-> f[i].left]
                      /\ f[i].left \in Nat /\ f[i].left <= n
                      /\ Holds(f[i].chunks, a + (n - f[i].left), b)
                      /\ f[i].left = 0 \/ Len(f[i].chunks) = Len(q) - i
           T == { m \in Nat : m <= Len(q) => Kept(m) }
<1>3. 0 \in T
  <2>1. f[0] = [chunks |-> q, left |-> n]
    BY <1>1, <1>2 DEF Turns
  <2>2. /\ f[0] = [chunks |-> f[0].chunks, left |-> f[0].left]
        /\ f[0].chunks = q /\ f[0].left = n /\ a + (n - n) = a /\ Len(q) - 0 = Len(q)
    BY <1>1, <2>1
  <2> QED
    BY <1>1, <2>2
<1>4. ASSUME NEW m \in Nat, m \in T PROVE m + 1 \in T
  <2> SUFFICES ASSUME m + 1 <= Len(q) PROVE Kept(m + 1)
    OBVIOUS
  <2>1. Kept(m)
    BY <1>1, <1>4
  <2>2. f[m + 1] = IF f[m].left = 0 THEN f[m] ELSE PopOnce(f[m])
    <3>1. m + 1 \in 0 .. Len(q) /\ m + 1 # 0 /\ (m + 1) - 1 = m
      BY <1>1
    <3> QED
      BY <1>2, <3>1 DEF Turns
  <2>3. CASE f[m].left = 0
    BY <2>1, <2>2, <2>3
  <2>4. CASE f[m].left # 0
    <3> DEFINE c == f[m].chunks
               l == f[m].left
               st == Popped(c, l)
    <3>1. f[m] = [chunks |-> c, left |-> l]
      BY <2>1
    <3>2. /\ st = [chunks |-> st.chunks, left |-> st.left]
          /\ st.left \in Nat /\ st.left <= l
          /\ Holds(st.chunks, (a + (n - l)) + (l - st.left), b)
          /\ st.left = 0 \/ Len(st.chunks) = Len(c) - 1
      <4> DEFINE d == a + (n - l)
      <4>1. d \in Int /\ l \in Nat /\ l # 0 /\ l <= b - d /\ Holds(c, d, b)
        BY <2>1, <2>4
      <4> HIDE DEF c, l, d
      <4>2. /\ st = [chunks |-> st.chunks, left |-> st.left]
            /\ st.left \in Nat /\ st.left <= l
            /\ Holds(st.chunks, d + (l - st.left), b)
            /\ st.left = 0 \/ Len(st.chunks) = Len(c) - 1
        BY <4>1, PopOnceHolds
      <4> QED
        BY <4>2 DEF d
    <3>3. f[m + 1] = st
      BY <2>2, <2>4, <3>1 DEF Popped
    <3> HIDE DEF st
    <3>4. (a + (n - l)) + (l - st.left) = a + (n - st.left) /\ st.left <= n
      <4>1. l \in Nat /\ l <= n /\ st.left \in Nat /\ st.left <= l /\ a \in Int /\ n \in Nat
        BY <2>1, <3>2
      <4> HIDE DEF l
      <4> QED
        BY ONLY <4>1
    <3>5. st.left = 0 \/ Len(st.chunks) = Len(q) - (m + 1)
      BY <1>1, <2>1, <2>4, <3>2
    <3> QED
      BY <3>2, <3>3, <3>4, <3>5
  <2> QED
    BY <2>3, <2>4
<1>5. Kept(Len(q))
  <2> HIDE DEF Kept
  <2>1. Len(q) \in T
    <3> HIDE DEF T
    <3> QED
      BY <1>1, <1>3, <1>4, SetInduction
  <2> QED
    BY <1>1, <2>1
<1>6. f[Len(q)].left = 0
  <2> DEFINE c == f[Len(q)].chunks
             l == f[Len(q)].left
  <2> SUFFICES ASSUME l # 0 PROVE FALSE
    OBVIOUS
  <2>1. Len(c) = 0 /\ c \in Seq(Chunk)
    BY <1>1, <1>5 DEF Holds
  <2>2. c = <<>>
    BY <2>1, EmptySeq
  <2>3. a + (n - l) = b
    BY <1>5, <2>2 DEF Holds
  <2> QED
    BY <1>5, <2>3
<1> QED
  BY <1>2, <1>5, <1>6

-------------------------------------------------------------------------------
(* The queues of all sockets. *)

BufferInv == /\ buffer \in [Streams -> Seq(Chunk)]
             /\ \A s \in Streams : Holds(buffer[s], got[s] - used[s], got[s])

(* A chunk of the network goes behind the queue. *)
LEMMA AppendHolds ==
  ASSUME NEW q, NEW a \in Int, NEW b \in Int, Holds(q, a, b), NEW c \in Int, b < c
  PROVE  Holds(Append(q, [from |-> b, to |-> c]), a, c)
<1> DEFINE last == [from |-> b, to |-> c]
           r == Append(q, last)
<1>1. q \in Seq(Chunk) /\ Len(q) \in Nat /\ last \in Chunk
  BY LenProperties DEF Holds, Chunk
<1>2. /\ r \in Seq(Chunk) /\ r # <<>> /\ Len(r) = Len(q) + 1 /\ r[Len(q) + 1] = last
      /\ \A i \in 1 .. Len(q) : r[i] = q[i]
  BY <1>1, AppendProperties
<1>3. last.from = b /\ last.to = c
  OBVIOUS
<1> HIDE DEF r, last
<1>4. ASSUME NEW i \in 1 .. Len(r)
      PROVE  /\ r[i].from < r[i].to
             /\ r[i].from = IF i = 1 THEN a ELSE r[i - 1].to
             /\ i = Len(r) => r[i].to = c
  <2>1. CASE i \in 1 .. Len(q)
    <3>1. i # Len(r) /\ (i # 1 => i - 1 \in 1 .. Len(q))
      BY <1>1, <1>2, <2>1
    <3> QED
      BY <1>2, <2>1, <3>1 DEF Holds
  <2>2. CASE i = Len(q) + 1
    <3>1. r[i].from = b /\ r[i].to = c
      BY <1>2, <1>3, <2>2
    <3>2. CASE i = 1
      <4>1. q = <<>>
        BY <1>1, <2>2, <3>2, EmptySeq
      <4> QED
        BY <3>1, <3>2, <4>1 DEF Holds
    <3>3. CASE i # 1
      <4>1. Len(q) \in 1 .. Len(q) /\ i - 1 = Len(q)
        BY <1>1, <2>2, <3>3
      <4>2. r[i - 1].to = b
        BY <1>2, <4>1 DEF Holds
      <4> QED
        BY <3>1, <3>3, <4>2
    <3> QED
      BY <3>2, <3>3
  <2> QED
    BY <1>1, <1>2, <2>1, <2>2
<1>5. Holds(r, a, c)
  BY <1>2, <1>4 DEF Holds
<1> QED
  BY <1>5 DEF r, last

LEMMA BufferNext == TypeInv /\ BufferInv /\ [RNext]_allVars => BufferInv'
<1> SUFFICES ASSUME TypeInv, BufferInv, [RNext]_allVars PROVE BufferInv'
  OBVIOUS
<1>1. used \in [Streams -> Nat] /\ got \in [Streams -> Nat]
  BY DEF TypeInv, StreamTypes
<1>2. CASE UNCHANGED <<buffer, used, got>>
  BY <1>2 DEF BufferInv
<1>3. CASE Deliver
  <2> DEFINE s == streams[it]
             n == Offer
  <2>1. s \in Streams
    BY <1>3, LenProperties DEF Deliver, Visiting, TypeInv, Listed, CtlTypes, StreamTypes
  <2>2. \E r, r2 : Visit(r, r2)
    BY <1>3 DEF Deliver, OnRead
  <2>3. CASE ~Publishes(s, n)
    <3>1. UNCHANGED buffer
      BY <1>3, <2>3 DEF Deliver
    <3>2. UNCHANGED <<used, got>>
      BY <2>2, <2>3 DEF Visit, streamVars
    <3> QED
      BY <1>2, <3>1, <3>2
  <2>4. CASE Publishes(s, n)
    <3>1. buffer' = [buffer EXCEPT ![s] = pop_buffer(buffer[s], n)]
      BY <1>3, <2>4 DEF Deliver
    <3>2. n \in Nat /\ n <= used[s] /\ Least(n, used[s]) = n
      BY <1>1, <2>1 DEF Offer, Least, TypeInv, CtlTypes
    <3>3. used' = [used EXCEPT ![s] = used[s] - n] /\ got' = got
      BY <2>2, <2>4, <3>2 DEF Visit, transfer
    <3> HIDE DEF s, n
    <3>4. Holds(buffer[s], got[s] - used[s], got[s]) /\ got[s] \in Nat /\ used[s] \in Nat
      BY <1>1, <2>1 DEF BufferInv
    <3>5. Holds(pop_buffer(buffer[s], n), (got[s] - used[s]) + n, got[s])
      <4>1. got[s] - used[s] \in Int /\ got[s] \in Int /\ n <= got[s] - (got[s] - used[s])
        BY <3>2, <3>4
      <4> QED
        BY <3>2, <3>4, <4>1, PopBufferHolds
    <3>6. (got[s] - used[s]) + n = got[s] - (used[s] - n)
      BY <3>2, <3>4
    <3>7. pop_buffer(buffer[s], n) \in Seq(Chunk)
      BY <3>5 DEF Holds
    <3>8. ASSUME NEW t \in Streams PROVE Holds(buffer'[t], got'[t] - used'[t], got'[t])
      <4>1. CASE t = s
        <5>1. /\ buffer'[t] = pop_buffer(buffer[s], n) /\ used'[t] = used[s] - n
              /\ got'[t] = got[s]
          BY <1>1, <3>1, <3>3, <4>1 DEF BufferInv
        <5> QED
          BY <3>5, <3>6, <5>1
      <4>2. CASE t # s
        <5>1. buffer'[t] = buffer[t] /\ used'[t] = used[t] /\ got'[t] = got[t]
          BY <1>1, <3>1, <3>3, <4>2 DEF BufferInv
        <5> QED
          BY <5>1 DEF BufferInv
      <4> QED
        BY <4>1, <4>2
    <3> QED
      BY <3>1, <3>7, <3>8 DEF BufferInv
  <2> QED
    BY <2>3, <2>4
<1>4. ASSUME NEW s \in Streams, Arrive(s) PROVE BufferInv'
  <2>1. PICK n \in Packets : /\ got' = [got EXCEPT ![s] = @ + n]
                             /\ used' = [used EXCEPT ![s] = @ + n]
    BY <1>4 DEF Arrive, on_data
  <2>2. n \in Nat /\ n > 0
    BY LimitAssumption
  <2>3. got[s] \in Nat /\ used[s] \in Nat /\ got'[s] = got[s] + n /\ used'[s] = used[s] + n
    BY <1>1, <2>1
  <2> DEFINE r == Append(buffer[s], [from |-> got[s], to |-> got'[s]])
  <2>4. buffer' = [buffer EXCEPT ![s] = r]
    BY <1>4 DEF Arrive
  <2>5. Holds(r, got[s] - used[s], got'[s])
    <3>1. /\ got[s] - used[s] \in Int /\ got[s] \in Int /\ got'[s] \in Int /\ got[s] < got'[s]
          /\ Holds(buffer[s], got[s] - used[s], got[s])
      BY <2>2, <2>3 DEF BufferInv
    <3> QED
      BY <3>1, AppendHolds
  <2>6. got[s] - used[s] = got'[s] - used'[s]
    BY <2>2, <2>3
  <2> HIDE DEF r
  <2>7. ASSUME NEW t \in Streams PROVE Holds(buffer'[t], got'[t] - used'[t], got'[t])
    <3>1. CASE t = s
      BY <2>4, <2>5, <2>6, <3>1 DEF BufferInv
    <3>2. CASE t # s
      <4>1. buffer'[t] = buffer[t] /\ used'[t] = used[t] /\ got'[t] = got[t]
        BY <1>1, <2>1, <2>4, <3>2 DEF BufferInv
      <4> QED
        BY <4>1 DEF BufferInv
    <3> QED
      BY <3>1, <3>2
  <2>8. r \in Seq(Chunk)
    BY <2>5 DEF Holds
  <2> QED
    BY <2>4, <2>7, <2>8 DEF BufferInv
<1>5. CASE (EraseRemoved \/ EndPass \/ TimerFires) /\ UNCHANGED <<readerVars, buffer>>
  BY <1>2, <1>5 DEF EraseRemoved, EndPass, TimerFires, streamVars
<1>6. ASSUME NEW s \in Streams, \/ Connect(s) \/ Request(s) \/ FileDone(s)
                                \/ ShutdownDone(s) \/ Abort(s)
                                \/ InnerEnd(s) /\ UNCHANGED <<readerVars, buffer>>
      PROVE  BufferInv'
  <2>1. \/ Create(s) \/ Read(s) \/ Close(s) \/ InnerEnd(s) \/ UNCHANGED vars
    BY <1>6 DEF Connect, Request, FileDone, ShutdownDone, Abort, Resume
  <2>2. UNCHANGED <<used, got>>
    BY <2>1 DEF Create, Read, Close, InnerEnd, vars, streamVars
  <2>3. UNCHANGED buffer
    BY <1>6 DEF Connect, Request, FileDone, ShutdownDone, Abort
  <2> QED
    BY <1>2, <2>2, <2>3
<1>7. CASE UNCHANGED allVars
  <2>1. UNCHANGED <<buffer, used, got>>
    BY <1>7 DEF allVars, vars, streamVars
  <2> QED
    BY <1>2, <2>1
<1> QED
  BY <1>3, <1>4, <1>5, <1>6, <1>7 DEF RNext

(* The queue of every socket holds exactly the bytes delivered and not yet published, in
   order: the loop of pop_buffer never reads the front of an empty queue, and loses or
   repeats nothing, for every queue and every share. *)
THEOREM BufferCorrect == ASSUME AnyReader PROVE RSpec => []BytesInOrder
<1>1. RInit => BufferInv
  <2> SUFFICES ASSUME RInit, NEW s \in Streams
               PROVE  /\ <<>> \in Seq(Chunk) /\ buffer = [t \in Streams |-> <<>>]
                      /\ Holds(<<>>, got[s] - used[s], got[s]) /\ buffer[s] = <<>>
    BY DEF BufferInv, RInit
  <2>1. got[s] = 0 /\ used[s] = 0
    BY DEF RInit, Init
  <2> QED
    BY <2>1, EmptySeq DEF RInit, Holds
<1>2. TypeInv /\ BufferInv => BytesInOrder
  <2> SUFFICES ASSUME TypeInv, BufferInv, NEW s \in Streams
               PROVE  LET q == buffer[s]
                      IN  /\ (q = <<>>) = (used[s] = 0)
                          /\ \A i \in DOMAIN q :
                               /\ q[i].from < q[i].to
                               /\ q[i].from = IF i = 1 THEN got[s] - used[s] ELSE q[i - 1].to
                               /\ i = Len(q) => q[i].to = got[s]
    BY DEF BytesInOrder
  <2> DEFINE q == buffer[s]
  <2>1. got[s] \in Nat /\ used[s] \in Nat /\ Holds(q, got[s] - used[s], got[s])
    BY DEF TypeInv, StreamTypes, BufferInv
  <2>2. DOMAIN q = 1 .. Len(q)
    BY <2>1, LenProperties DEF Holds
  <2>3. (q = <<>>) = (used[s] = 0)
    <3>1. q = <<>> => got[s] - used[s] = got[s]
      BY <2>1 DEF Holds
    <3>2. q # <<>> => got[s] - used[s] < got[s]
      BY <2>1, HoldsBounds
    <3> QED
      BY <2>1, <3>1, <3>2
  <2> QED
    BY <2>1, <2>2, <2>3 DEF Holds
<1> QED
  BY <1>1, <1>2, BufferNext, SocketsCorrect, PTL DEF RSpec

===============================================================================
