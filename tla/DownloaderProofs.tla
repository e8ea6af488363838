--------------------------- MODULE DownloaderProofs ---------------------------
(***************************************************************************)
(* What Downloader promises for every backlog, every chunk size and every  *)
(* number of reads.                                                        *)
(***************************************************************************)
EXTENDS Downloader, TLAPS

-------------------------------------------------------------------------------
(* Chunks and queues. *)

(* What one parse hands to on_data is a gapless queue that starts at `downloaded` and
   ends at the new value of `downloaded`. *)
LEMMA ParsedRun ==
  ASSUME downloaded \in Nat, NEW new \in Parsed
  PROVE  /\ new \in Seq(Chunk)
         /\ Upto(new) \in Nat
         /\ Contiguous(new, downloaded, Upto(new))
<1>1. CASE new = <<>>
  BY <1>1 DEF Upto, Contiguous
<1>2. ASSUME NEW a \in Sizes, new = <<Run(downloaded, a)>>
      PROVE  /\ new \in Seq(Chunk) /\ Upto(new) \in Nat
             /\ Contiguous(new, downloaded, Upto(new))
  BY <1>2, SizesAssumption DEF Run, Chunk, Upto, Contiguous
<1>3. ASSUME NEW a \in Sizes, NEW b \in Sizes,
             new = <<Run(downloaded, a), Run(downloaded + a, b)>>
      PROVE  /\ new \in Seq(Chunk) /\ Upto(new) \in Nat
             /\ Contiguous(new, downloaded, Upto(new))
  BY <1>3, SizesAssumption DEF Run, Chunk, Upto, Contiguous
<1> QED
  BY <1>1, <1>2, <1>3 DEF Parsed

(* What a write of n bytes of the front chunk leaves is a queue of non-empty chunks,
   no longer than before. *)
LEMMA AdvanceType ==
  ASSUME buffer \in Seq(Chunk), buffer # <<>>,
         NEW n \in 1 .. (Head(buffer).to - Head(buffer).from)
  PROVE  /\ n \in Nat \ {0}
         /\ Advance(n) \in Seq(Chunk)
         /\ Len(Advance(n)) \in Nat /\ Len(Advance(n)) =< Len(buffer)
<1> DEFINE c == Head(buffer)
<1>1. c \in Chunk /\ c = buffer[1] /\ 1 \in 1 .. Len(buffer)
  OBVIOUS
<1>2. n \in Nat \ {0} /\ c.from + n =< c.to
  BY <1>1 DEF Chunk
<1>3. CASE c.from + n = c.to
  <2>1. Advance(n) = Tail(buffer)
    BY ONLY <1>3 DEF Advance, c
  <2> QED
    BY <2>1
<1>4. CASE c.from + n # c.to
  <2>1. [from |-> c.from + n, to |-> c.to] \in Chunk
    BY <1>1, <1>2, <1>4 DEF Chunk
  <2>2. Advance(n) = [buffer EXCEPT ![1] = [from |-> c.from + n, to |-> c.to]]
    BY <1>4 DEF Advance
  <2> QED
    BY <2>1, <2>2, <1>1, <1>2
<1> QED
  BY <1>3, <1>4

(* Parsed chunks may be appended to the queue. *)
LEMMA AppendType ==
  ASSUME TypeOK, NEW new \in Parsed
  PROVE  /\ buffer \o new \in Seq(Chunk)
         /\ new # <<>> => buffer \o new # <<>>
         /\ new = <<>> => buffer \o new = buffer
         /\ Len(buffer \o new) = Len(buffer) + Len(new)
<1>1. new \in Seq(Chunk) /\ buffer \in Seq(Chunk)
  BY ParsedRun DEF TypeOK
<1> QED
  BY <1>1

-------------------------------------------------------------------------------
(* Types. *)

(* A write request is in flight only while there is something to write: without it
   the length of the chunk being written would not be known. *)
Writing == {"write", "rewrite"}
WriteHasData == fop \in Writing => buffer # <<>>

TypeInv == TypeOK /\ WriteHasData

\* what may be left of the file requests when a downloader is torn down
Left == {"none", "unlink", "orphan", "clash"}

(* A failure closes the connection and leaves no request whose completion goes on. *)
LEMMA FailureReleases ==
  ASSUME NEW present, NEW openned, NEW started,
         terminate_handles(present, openned, started)
  PROVE  /\ net' = "closed" /\ reading' = FALSE /\ timer' = "gone"
         /\ fop' \in Left
BY DEF terminate_handles, terminate_connection, terminate_file, Cancelled, Left

(* So does a file request that fails inside the parse. *)
LEMMA RefusalReleases ==
  ASSUME NEW new, FileRefused(new)
  PROVE  /\ net' = "closed" /\ reading' = FALSE /\ timer' = "gone"
         /\ fop' \in Left \cup {"rewrite"} /\ update_status("Failed")
<1>1. CASE on_error(TRUE, file_openned, FALSE)
  BY <1>1, FailureReleases DEF on_error
<1>2. CASE WritesAgain(new)
  BY <1>2 DEF FileRefused, terminate_connection, Left
<1> QED
  BY <1>1, <1>2 DEF FileRefused

(* A completed file request makes the next one, or the downloader goes idle, or fails. *)
LEMMA WriteCases ==
  ASSUME NEW q, on_write(q)
  PROVE  FileRequested(q) \/ \E present : on_error(present, TRUE, FALSE)
BY DEF on_write, WriteRefused, CloseRefused

(* The cases of a read. *)
LEMMA ReadCases ==
  ASSUME on_read
  PROVE  \E new \in Parsed :
           \/ /\ on_data(new)
              /\ \/ InProgress(new, "body", StillReading(new)) /\ UNCHANGED receive_done
                 \/ new = <<>> /\ Redirected /\ UNCHANGED receive_done
                 \/ Completed(new)   /\ receive_done' = TRUE
                 \/ ParseFailed      /\ UNCHANGED receive_done
           \/ FileRefused(new) /\ UNCHANGED receive_done
BY DEF on_read

LEMMA TypeInit == Init => TypeInv
<1> SUFFICES ASSUME Init PROVE TypeInv
  OBVIOUS
<1>1. /\ receive_done \in BOOLEAN /\ socket_connected \in BOOLEAN /\ file \in BOOLEAN
      /\ file_openned \in BOOLEAN /\ file_operation_started \in BOOLEAN
      /\ reading \in BOOLEAN
  BY DEF Init
<1>2. buffer \in Seq(Chunk)
  BY DEF Init
<1> QED
  BY <1>1, <1>2 DEF Init, TypeInv, TypeOK, WriteHasData, Writing, States, Steps, FileOps

LEMMA TypeNext == TypeInv /\ [Next]_vars => TypeInv'
<1> SUFFICES ASSUME TypeInv, [Next]_vars PROVE TypeInv'
  OBVIOUS
<1> USE DEF TypeInv, TypeOK, WriteHasData, Writing, States, Steps, FileOps,
            statusVars, fileVars, dataVars, ownerVars
<1>2. ASSUME NEW s \in States, Tick(s)
      PROVE  told' \in States /\ finals' \in Nat
  BY <1>2 DEF Tick, Final
<1>3. ASSUME NEW present, NEW openned, NEW started,
             on_error(present, openned, started)
      PROVE  /\ state' \in States /\ told' \in States /\ finals' \in Nat
             /\ net' = "closed" /\ timer' = "gone" /\ reading' = FALSE
             /\ fop' \in Left
  BY <1>2, <1>3, FailureReleases DEF on_error, update_status
<1>4. ASSUME NEW next \in Steps, NEW r \in BOOLEAN, Issue(next, r)
      PROVE  /\ state' \in States /\ told' \in States /\ finals' \in Nat
             /\ net' \in Steps /\ timer' \in {"gone", "on"} /\ reading' \in BOOLEAN
             /\ fop' \in FileOps /\ (fop' \in Writing => fop \in Writing)
  BY <1>2, <1>3, <1>4 DEF Issue, Fail, update_status, Left
<1>5. CASE RunRefused
  BY <1>5 DEF RunRefused
<1>6. CASE RunStarted
  BY <1>6 DEF RunStarted
<1>7. CASE Stop
  BY <1>3, <1>7 DEF Stop, Fail, Left
<1>8. CASE on_resolve
  BY <1>4, <1>8 DEF on_resolve
<1>9. CASE on_connect
  BY <1>4, <1>9 DEF on_connect
<1>10. CASE on_write_http_request
  BY <1>4, <1>10 DEF on_write_http_request
<1>11. CASE on_read
  <2>1. PICK new \in Parsed :
           \/ /\ on_data(new)
              /\ \/ InProgress(new, "body", StillReading(new)) /\ UNCHANGED receive_done
                 \/ new = <<>> /\ Redirected /\ UNCHANGED receive_done
                 \/ Completed(new)   /\ receive_done' = TRUE
                 \/ ParseFailed      /\ UNCHANGED receive_done
           \/ FileRefused(new) /\ UNCHANGED receive_done
    BY <1>11, ReadCases
  <2>2. /\ downloaded' \in Nat /\ offset_file' \in Nat
        /\ buffer' \in Seq(Chunk) /\ file' \in BOOLEAN /\ file_openned' \in BOOLEAN
        /\ file_operation_started' \in BOOLEAN
        /\ (buffer # <<>> \/ new # <<>>) => buffer' # <<>>
    <3>1. Received(new)
      BY <2>1 DEF on_data, FileRefused
    <3>2. file_operation_started' \in BOOLEAN
      BY <2>1 DEF on_data, OpStarted, FileRefused, WritesAgain
    <3> QED
      BY <3>1, <3>2, ParsedRun, AppendType DEF Received
  <2>3. /\ FileRequest(new) \in FileOps
        /\ FileRequest(new) \in Writing => fop \in Writing \/ new # <<>>
    BY DEF FileRequest, Requests
  <2>4. /\ ret' = ret /\ socket_connected' = socket_connected /\ disk' = disk
        /\ reads' \in Nat
    BY <1>11 DEF on_read, Reads
  <2>9. receive_done' \in BOOLEAN
    BY <2>1
  <2>10. ASSUME /\ net' \in Steps /\ timer' \in {"off", "on", "gone"} /\ reading' \in BOOLEAN
                /\ state' \in States /\ told' \in States \cup {"none"} /\ finals' \in Nat
                /\ fop' \in FileOps /\ (fop' \in Writing => fop \in Writing \/ new # <<>>)
         PROVE  TypeInv'
    <3>1. WriteHasData'
      BY ONLY TypeInv, <2>2, <2>10 DEF TypeInv, WriteHasData
    <3>2. TypeOK'
      BY ONLY TypeInv, <2>2, <2>4, <2>9, <2>10 DEF TypeInv, TypeOK
    <3> QED
      BY ONLY <3>1, <3>2 DEF TypeInv
  <2>11. TypeOK /\ {"shutdown", "closed"} \subseteq Steps
         /\ Left \subseteq FileOps /\ Left \cap Writing = {}
    BY DEF Left, Writing
  <2>5. CASE InProgress(new, "body", StillReading(new))
    <3>1. StillReading(new) \in BOOLEAN
      BY DEF StillReading
    <3>2. reading' \in BOOLEAN
      BY FailureReleases, <2>5, <3>1 DEF InProgress
    <3>3. /\ net' \in Steps /\ timer' \in {"off", "on", "gone"}
          /\ fop' \in FileOps /\ (fop' \in Writing => fop \in Writing \/ new # <<>>)
      BY FailureReleases, <2>3, <2>5, <2>11 DEF InProgress
    <3>4. state' \in States /\ told' \in States /\ finals' \in Nat
      BY <1>2, <2>5 DEF InProgress, update_status
    <3> QED
      BY ONLY <2>10, <3>2, <3>3, <3>4
  <2>6. CASE new = <<>> /\ Redirected
    <3>1. /\ net' = "shutdown" /\ timer' = "gone" /\ reading' = FALSE /\ fop' = fop
          /\ state' = state /\ told' = told /\ finals' = finals
      BY ONLY <2>6 DEF Redirected, close_handles, ownerVars
    <3> QED
      BY ONLY <2>10, <2>11, <3>1 DEF TypeOK
  <2>7. CASE Completed(new)
    <3>1. /\ net' = "shutdown" /\ timer' = "gone" /\ reading' = FALSE
          /\ fop' = FileRequest(new) /\ state' = state /\ told' = told /\ finals' = finals
      BY ONLY <2>7 DEF Completed, close_handles, ownerVars
    <3> QED
      BY ONLY <2>3, <2>10, <2>11, <3>1 DEF TypeOK
  <2>8. CASE ParseFailed
    <3>1. on_error(file', file_openned', file_operation_started')
      BY <2>8 DEF ParseFailed
    <3>2. /\ state' \in States /\ told' \in States /\ finals' \in Nat
          /\ net' = "closed" /\ timer' = "gone" /\ reading' = FALSE
          /\ fop' \in Left
      BY <1>3, <3>1
    <3> QED
      BY ONLY <2>10, <2>11, <3>2
  <2>9a. CASE FileRefused(new)
    <3>1. /\ state' \in States /\ told' \in States /\ finals' \in Nat
      BY <1>2, <2>9a, RefusalReleases DEF update_status
    <3> QED
      BY <1>11, <2>2, <2>4, <2>9, <2>9a, <3>1, RefusalReleases, new # <<>>
         DEF FileRefused, Requests, Left
  <2> QED
    BY <2>1, <2>5, <2>6, <2>7, <2>8, <2>9a
<1>12. CASE EndOfStream
  <2>1. <<>> \in Parsed
    BY DEF Parsed
  <2>2. ASSUME on_data(<<>>)
        PROVE  file' \in BOOLEAN /\ file_openned' \in BOOLEAN
               /\ file_operation_started' \in BOOLEAN
    BY <2>2 DEF on_data, Received, OpStarted
  <2>3. ASSUME on_data(<<>>), Completed(<<>>), receive_done' = TRUE
        PROVE  /\ net' = "shutdown" /\ timer' = "gone" /\ reading' = FALSE /\ fop' = fop
               /\ state' = state /\ told' = told /\ finals' = finals
    BY <2>3 DEF Completed, close_handles, FileRequest, Requests
  <2>4. UNCHANGED <<ret, socket_connected, dataVars, reads, disk>>
    BY <1>12 DEF EndOfStream
  <2>5. CASE Fail /\ UNCHANGED <<receive_done, fileVars>>
    BY <1>3, <2>4, <2>5 DEF Fail, Left
  <2>6. CASE on_data(<<>>) /\ Completed(<<>>) /\ receive_done' = TRUE
    BY <2>2, <2>3, <2>4, <2>6
  <2>7. CASE on_data(<<>>) /\ ParseFailed /\ UNCHANGED receive_done
    <3>1. on_error(file', file_openned', file_operation_started')
      BY <2>7 DEF ParseFailed
    <3> QED
      BY <1>3, <2>2, <2>4, <2>7, <3>1 DEF Left
  <2>8. CASE on_data(<<>>) /\ InProgress(<<>>, "ended", FALSE) /\ UNCHANGED receive_done
    <3>1. /\ net' \in {"ended", "closed"} /\ timer' \in {"on", "gone"} /\ reading' = FALSE
          /\ fop' = fop \/ fop' \in Left
      BY <2>8, FailureReleases DEF InProgress, FileRequest, Requests
    <3>2. state' \in States /\ told' \in States /\ finals' \in Nat
      BY <1>2, <2>8 DEF InProgress, update_status
    <3>3. fop' \in FileOps /\ (fop' \in Writing => fop \in Writing)
      BY <3>1 DEF Left
    <3>4. UNCHANGED <<ret, socket_connected, receive_done, downloaded, offset_file, buffer,
                      reads, disk>>
      BY <2>4, <2>8
    <3>5. WriteHasData'
      BY ONLY TypeInv, <3>3, <3>4 DEF TypeInv, WriteHasData
    <3>6. net' \in Steps /\ timer' \in {"off", "on", "gone"} /\ reading' \in BOOLEAN
      BY <3>1
    <3>7. TypeOK'
      BY ONLY TypeInv, <2>2, <2>8, <3>2, <3>3, <3>4, <3>6 DEF TypeInv, TypeOK
    <3> QED
      BY ONLY <3>5, <3>7 DEF TypeInv
  <2> QED
    BY <1>12, <2>5, <2>6, <2>7, <2>8 DEF EndOfStream
<1>13. CASE NetworkError
  BY <1>3, <1>13 DEF NetworkError, Fail, Left
<1>14. CASE Timeout
  BY <1>3, <1>14 DEF Timeout, Fail, Left
<1>15. CASE Shutdown
  <2>1. socket_connected' \in BOOLEAN
    BY <1>15 DEF Shutdown
  <2>2. state' \in States /\ told' \in States \cup {"none"} /\ finals' \in Nat
    BY <1>2, <1>15 DEF Shutdown, on_shutdown, update_status
  <2> QED
    BY <1>15, <2>1, <2>2 DEF Shutdown
<1>16. CASE ShutdownError
  BY <1>16 DEF ShutdownError
<1>16a. ASSUME NEW q, on_write(q)
        PROVE  /\ state' \in States /\ told' \in States \cup {"none"} /\ finals' \in Nat
               /\ net' \in Steps /\ timer' \in {"off", "on", "gone"} /\ reading' \in BOOLEAN
               /\ fop' \in FileOps /\ (fop' \in Writing => q # <<>>)
               /\ file' \in BOOLEAN /\ file_operation_started' \in BOOLEAN
  <2>1. CASE FileRequested(q)
    <3>1. UNCHANGED <<state, file, net, timer, told, finals>>
      BY <2>1 DEF FileRequested
    <3>2. fop' \in {"write", "close", "none"} /\ (fop' = "write" => q # <<>>)
      BY <2>1 DEF FileRequested
    <3>3. file_operation_started' \in BOOLEAN /\ reading' \in BOOLEAN
      BY <2>1 DEF FileRequested, Resume
    <3> QED
      BY <3>1, <3>2, <3>3
  <2>2. CASE WriteRefused(q) \/ CloseRefused(q)
    <3>1. PICK present : on_error(present, TRUE, FALSE)
      BY <2>2 DEF WriteRefused, CloseRefused
    <3>2. file' \in BOOLEAN /\ file_operation_started' \in BOOLEAN
      BY <2>2 DEF WriteRefused, CloseRefused
    <3> QED
      BY <1>3, <3>1, <3>2 DEF Left
  <2> QED
    BY <1>16a, <2>1, <2>2 DEF on_write
<1>17. CASE FileOpened
  BY <1>16a, <1>17 DEF FileOpened
<1>17a. ASSUME fop \in {"write", "rewrite"}, buffer # <<>>, Written
        PROVE  buffer' \in Seq(Chunk) /\ offset_file' \in Nat
  BY <1>17a, AdvanceType DEF Written
<1>18. CASE FileWritten
  BY <1>16a, <1>17a, <1>18 DEF FileWritten
<1>19. CASE FileClosed
  <2>1. file_operation_started' \in BOOLEAN /\ file_openned' \in BOOLEAN
    BY <1>19 DEF FileClosed
  <2>2. state' \in States /\ told' \in States \cup {"none"} /\ finals' \in Nat
    BY <1>2, <1>19 DEF FileClosed, on_close, update_status
  <2> QED
    BY <1>19, <2>1, <2>2 DEF FileClosed
<1>20. CASE FileError
  BY <1>3, <1>20 DEF FileError, Left
<1>21. CASE FileCloseError
  BY <1>3, <1>21 DEF FileCloseError, Left
<1>22. CASE FileUnlinked
  BY <1>22 DEF FileUnlinked
<1>23. CASE OrphanOpened
  BY <1>23 DEF OrphanOpened
<1>23a. CASE ClashEnds
  BY <1>23a DEF ClashEnds
<1>23b. CASE Rewritten
  <2>1. fop' # "write" /\ fop' \in FileOps /\ file_operation_started' \in BOOLEAN
    BY <1>23b DEF Rewritten
  <2> QED
    BY <1>17a, <1>23b, <2>1 DEF Rewritten
<1>24. CASE UNCHANGED vars
  BY <1>24 DEF vars
<1> QED
  BY <1>5, <1>6, <1>7, <1>8, <1>9, <1>10, <1>11, <1>12, <1>13, <1>14, <1>15, <1>16,
     <1>17, <1>18, <1>19, <1>20, <1>21, <1>22, <1>23, <1>23a, <1>23b, <1>24 DEF Next, NetStep, FileStep

(* Every field of the downloader keeps its type, whatever the environment does. *)
THEOREM TypeCorrect == Spec => []TypeOK
<1>1. TypeInv => TypeOK
  BY DEF TypeInv
<1> QED
  BY <1>1, TypeInit, TypeNext, PTL DEF Spec

-------------------------------------------------------------------------------
(* No byte is lost, repeated or reordered. *)

(* Two gapless queues that meet are a gapless queue. *)
LEMMA ContiguousConcat ==
  ASSUME NEW p \in Seq(Chunk), NEW q \in Seq(Chunk), NEW a, NEW b, NEW c,
         Contiguous(p, a, b), Contiguous(q, b, c)
  PROVE  Contiguous(p \o q, a, c)
<1>1. CASE p = <<>>
  BY <1>1 DEF Contiguous
<1>2. CASE q = <<>>
  BY <1>2 DEF Contiguous
<1>3. CASE p # <<>> /\ q # <<>>
  <2> DEFINE r == p \o q
  <2>1. /\ Len(r) = Len(p) + Len(q) /\ Len(p) \in Nat \ {0} /\ Len(q) \in Nat \ {0}
        /\ \A i \in 1 .. Len(p) : r[i] = p[i]
        /\ \A i \in 1 .. Len(q) : r[Len(p) + i] = q[i]
        /\ r # <<>>
    BY <1>3
  <2>2. r[1].from = a /\ r[Len(r)].to = c
    BY <1>3, <2>1 DEF Contiguous
  <2>3. ASSUME NEW i \in 1 .. Len(r) - 1 PROVE r[i].to = r[i + 1].from
    <3>1. CASE i < Len(p)
      BY <2>1, <3>1, i \in 1 .. Len(p) - 1 DEF Contiguous
    <3>2. CASE i = Len(p)
      BY <1>3, <2>1, <3>2, r[i] = p[Len(p)], r[i + 1] = q[1] DEF Contiguous
    <3>3. CASE i > Len(p)
      <4> DEFINE j == i - Len(p)
      <4>1. j \in 1 .. Len(q) - 1 /\ j + 1 \in 1 .. Len(q) /\ i = Len(p) + j
        BY <2>1, <3>3
      <4>2. r[i] = q[j] /\ r[i + 1] = q[j + 1]
        BY <2>1, <4>1
      <4> QED
        BY <4>1, <4>2 DEF Contiguous
    <3> QED
      BY <2>1, <3>1, <3>2, <3>3
  <2> QED
    BY <2>1, <2>2, <2>3 DEF Contiguous
<1> QED
  BY <1>1, <1>2, <1>3

(* A write of n bytes moves the front of a gapless queue by n. *)
LEMMA ContiguousAdvance ==
  ASSUME buffer \in Seq(Chunk), buffer # <<>>, NEW a, NEW b,
         NEW n \in 1 .. (Head(buffer).to - Head(buffer).from),
         Contiguous(buffer, a, b)
  PROVE  Contiguous(Advance(n), a + n, b)
<1> DEFINE c == Head(buffer)
<1>1. c \in Chunk /\ c = buffer[1] /\ 1 \in 1 .. Len(buffer) /\ c.from = a
  BY DEF Contiguous
<1>2. CASE c.from + n = c.to
  <2>1. Advance(n) = Tail(buffer)
    BY <1>2 DEF Advance
  <2>2. CASE Len(buffer) = 1
    BY <1>1, <1>2, <2>1, <2>2 DEF Contiguous
  <2>3. CASE Len(buffer) # 1
    <3> DEFINE t == Tail(buffer)
    <3>1. /\ t \in Seq(Chunk) /\ Len(t) = Len(buffer) - 1 /\ Len(t) \in Nat \ {0}
          /\ \A i \in 1 .. Len(t) : t[i] = buffer[i + 1]
      BY <1>1, <2>3
    <3>2. t[1].from = a + n
      BY <1>1, <1>2, <3>1, 1 \in 1 .. Len(t), 1 \in 1 .. Len(buffer) - 1 DEF Contiguous
    <3>3. t[Len(t)].to = b
      BY <3>1 DEF Contiguous
    <3>4. \A i \in 1 .. Len(t) - 1 : t[i].to = t[i + 1].from
      BY <3>1 DEF Contiguous
    <3> HIDE DEF t
    <3>5. t # <<>>
      BY <3>1
    <3>6. Contiguous(t, a + n, b)
      BY <3>2, <3>3, <3>4, <3>5 DEF Contiguous
    <3> QED
      BY <2>1, <3>6 DEF t
  <2> QED
    BY <2>2, <2>3
<1>3. CASE c.from + n # c.to
  <2> DEFINE h == [from |-> c.from + n, to |-> c.to]
             t == [buffer EXCEPT ![1] = h]
  <2>1. Advance(n) = t
    BY <1>3 DEF Advance
  <2>2. /\ Len(t) = Len(buffer) /\ t # <<>> /\ t[1] = h
        /\ \A i \in 2 .. Len(t) : t[i] = buffer[i]
        /\ h.from = a + n /\ h.to = buffer[1].to
    BY <1>1
  <2>3. t[Len(t)].to = b
    BY <1>1, <2>2, Len(t) = 1 \/ Len(t) \in 2 .. Len(t) DEF Contiguous
  <2>4. ASSUME NEW i \in 1 .. Len(t) - 1 PROVE t[i].to = t[i + 1].from
    BY <1>1, <2>2, i + 1 \in 2 .. Len(t), i = 1 \/ i \in 2 .. Len(t) DEF Contiguous
  <2> QED
    BY <2>1, <2>2, <2>3, <2>4 DEF Contiguous
<1> QED
  BY <1>2, <1>3

LEMMA QueueNext ==
  TypeInv /\ QueueIsContiguous /\ [Next]_vars => QueueIsContiguous'
<1> SUFFICES ASSUME TypeInv, QueueIsContiguous, [Next]_vars PROVE QueueIsContiguous'
  OBVIOUS
<1>1. CASE on_read
  <2>1. PICK new \in Parsed : Received(new)
    BY <1>1, ReadCases DEF on_data, FileRefused
  <2>2. /\ new \in Seq(Chunk) /\ Contiguous(new, downloaded, Upto(new))
        /\ buffer \in Seq(Chunk)
    BY ParsedRun DEF TypeInv, TypeOK
  <2>3. Contiguous(buffer \o new, offset_file, Upto(new))
    BY <2>2, ContiguousConcat DEF QueueIsContiguous
  <2> QED
    BY <2>1, <2>3 DEF Received, QueueIsContiguous
<1>2. CASE FileWritten \/ Rewritten
  <2>1. PICK n \in 1 .. (Head(buffer).to - Head(buffer).from) :
           offset_file' = offset_file + n /\ buffer' = Advance(n)
    BY <1>2 DEF FileWritten, Rewritten, Written
  <2>2. Contiguous(Advance(n), offset_file + n, downloaded)
    BY <1>2, ContiguousAdvance DEF FileWritten, Rewritten, TypeInv, TypeOK, WriteHasData,
                                  Writing, QueueIsContiguous
  <2> QED
    BY <1>2, <2>1, <2>2 DEF FileWritten, Rewritten, QueueIsContiguous
<1>3. CASE UNCHANGED dataVars
  BY <1>3 DEF dataVars, QueueIsContiguous
<1>4. ASSUME Next, ~on_read, ~FileWritten, ~Rewritten PROVE UNCHANGED dataVars
  BY <1>4 DEF Next, NetStep, FileStep, RunRefused, RunStarted, Stop, on_resolve,
     on_connect, on_write_http_request, EndOfStream, NetworkError, Timeout, Shutdown,
     ShutdownError, FileOpened, FileClosed, FileError, FileCloseError, FileUnlinked,
     OrphanOpened, ClashEnds
<1> QED
  BY <1>1, <1>2, <1>3, <1>4 DEF vars, dataVars

(* No partial write and no order of events loses, repeats or reorders a byte: the
   queue is always exactly what was received and is not yet in the file. *)
THEOREM QueueCorrect == Spec => []QueueIsContiguous
<1>1. Init => QueueIsContiguous
  BY DEF Init, QueueIsContiguous, Contiguous
<1> QED
  BY <1>1, TypeInit, TypeNext, QueueNext, PTL DEF Spec

-------------------------------------------------------------------------------
(* The hand-over between the socket and the file. *)

(* Where the file request can be in each step of the network: untouched until the
   response arrives, and while the response is being received the flag and the file
   object say exactly what is in flight; what a tear-down leaves in flight is left behind a
   closed connection. *)
ControlInv ==
  /\ net \in {"unset", "resolve", "connect", "request", "response"}
       => ~file /\ ~file_operation_started /\ buffer = <<>> /\ fop = "none"
  /\ receive_done => net \in {"shutdown", "closed"}
  /\ fop = "close" => receive_done
  /\ net = "body" /\ file_operation_started => fop \in {"open", "write"}
  /\ net = "body" /\ file => file_openned \/ fop = "open"
  /\ net = "body" /\ ~file => ~file_operation_started
  /\ net # "closed" => fop \in {"none", "open", "write", "close"}
  /\ fop \in {"open", "write", "close"} => downloaded > 0

HandOver == /\ RequestIsFlagged /\ BacklogStopsReading /\ WriterIsAwake
            /\ ResumeHasSocket

HandOverInv == ControlInv /\ HandOver

(* Until run() is called nothing is awaited and nothing is in flight. *)
BeforeRun == ret = "none" => net = "unset" /\ timer = "off" /\ fop = "none"

LEMMA BeforeRunNext == BeforeRun /\ [Next]_vars => BeforeRun'
BY DEF BeforeRun, Next, NetStep, FileStep, RunRefused, RunStarted, Stop, on_resolve,
     on_connect, on_write_http_request, on_read, Reads, EndOfStream, NetworkError,
     Timeout, Shutdown, ShutdownError, FileOpened, FileWritten, FileClosed, FileError,
     FileCloseError, FileUnlinked, OrphanOpened, ClashEnds, Rewritten, statusVars, vars

(* The callbacks of a parse ask for a file request only when none is in flight, and leave
   the flag, the file object and the request in agreement. *)
LEMMA ParseRequests ==
  ASSUME TypeInv, HandOverInv, net \in {"response", "body"}, NEW new \in Parsed
  PROVE  /\ Requests(new) => fop = "none"
         /\ FileRequest(new) \in {"none", "open", "write"}
         /\ FileRequest(new) # fop => FileRequest(new) = IF file THEN "write" ELSE "open"
         /\ FileRequest(new) = "open" => file \/ new # <<>>
         /\ FileRequest(new) = "write" => file_openned \/ fop = "write"
         /\ OpStarted(new) <=> FileRequest(new) \in {"open", "write"}
         /\ file \/ new # <<>> => file_openned \/ FileRequest(new) = "open"
         /\ buffer # <<>> \/ new # <<>> => FileRequest(new) \in {"open", "write"}
         /\ FileRequest(new) # fop => new # <<>>
         /\ new = <<>> => FileRequest(new) = fop /\ OpStarted(new) = file_operation_started
<1> USE DEF HandOverInv, ControlInv, HandOver, RequestIsFlagged, WriterIsAwake
<1>1. /\ fop \in {"none", "open", "write"}
      /\ fop \in {"open", "write"} <=> file_operation_started
      /\ file => file_openned \/ fop = "open"
      /\ ~file => fop = "none"
      /\ buffer # <<>> => fop \in {"open", "write"}
      /\ file \in BOOLEAN /\ file_openned \in BOOLEAN /\ file_operation_started \in BOOLEAN
  <2>1. CASE net = "response"
    BY <2>1 DEF TypeInv, TypeOK
  <2>2. CASE net = "body"
    BY <2>2 DEF TypeInv, TypeOK
  <2> QED
    BY <2>1, <2>2
<1>2. CASE Requests(new)
  BY <1>1, <1>2 DEF Requests, FileRequest, OpStarted
<1>3. CASE ~Requests(new)
  BY <1>1, <1>3 DEF Requests, FileRequest, OpStarted
<1> QED
  BY <1>2, <1>3

(* What a parse has received is more than nothing. *)
LEMMA UptoPositive ==
  ASSUME TypeInv, NEW new \in Parsed
  PROVE  IF new = <<>> THEN Upto(new) = downloaded ELSE Upto(new) > 0
<1>1. new \in Seq(Chunk) /\ downloaded \in Nat
  BY ParsedRun DEF TypeInv, TypeOK
<1>2. new # <<>> => new[Len(new)] \in Chunk
  BY <1>1
<1> QED
  BY <1>2 DEF Upto, Chunk

LEMMA HandOverInit == Init => HandOverInv
BY DEF Init, HandOverInv, ControlInv, HandOver, RequestIsFlagged, BacklogStopsReading,
       WriterIsAwake, ResumeHasSocket

LEMMA HandOverNext == TypeInv /\ BeforeRun /\ HandOverInv /\ [Next]_vars => HandOverInv'
<1> SUFFICES ASSUME TypeInv, BeforeRun, HandOverInv, [Next]_vars PROVE HandOverInv'
  OBVIOUS
<1> USE DEF HandOverInv, ControlInv, HandOver, RequestIsFlagged, BacklogStopsReading,
            WriterIsAwake, ResumeHasSocket
<1>1. ASSUME net' = "closed", fop' \in Left \cup {"rewrite"}
      PROVE  HandOverInv'
  BY <1>1 DEF Left
<1>2. ASSUME NEW present, NEW openned, NEW started,
             on_error(present, openned, started)
      PROVE  HandOverInv'
  BY <1>1, <1>2, FailureReleases DEF on_error
<1>3. CASE Stop \/ NetworkError \/ Timeout \/ FileError \/ FileCloseError
  BY <1>2, <1>3 DEF Stop, NetworkError, Timeout, FileError, FileCloseError, Fail
<1>4. CASE RunRefused
  BY <1>1, <1>4 DEF RunRefused, BeforeRun
<1>5. CASE RunStarted
  BY <1>5 DEF RunStarted, fileVars, dataVars, BeforeRun
<1>6. ASSUME NEW next \in {"connect", "request", "response"}, NEW r, Issue(next, r),
             UNCHANGED <<receive_done, fileVars, dataVars>>,
             net \in {"resolve", "connect", "request"}
      PROVE  HandOverInv'
  <2>1. CASE Fail
    BY <1>2, <2>1 DEF Fail
  <2>2. CASE net' = next /\ UNCHANGED fop
    BY <1>6, <2>2 DEF fileVars, dataVars
  <2> QED
    BY <1>6, <2>1, <2>2 DEF Issue
<1>7. CASE on_resolve \/ on_connect \/ on_write_http_request
  BY <1>6, <1>7 DEF on_resolve, on_connect, on_write_http_request, statusVars
<1>8. CASE on_read
  <2>0. PICK new \in Parsed :
           \/ /\ on_data(new)
              /\ \/ InProgress(new, "body", StillReading(new)) /\ UNCHANGED receive_done
                 \/ new = <<>> /\ Redirected /\ UNCHANGED receive_done
                 \/ Completed(new)   /\ receive_done' = TRUE
                 \/ ParseFailed      /\ UNCHANGED receive_done
           \/ FileRefused(new) /\ UNCHANGED receive_done
    BY <1>8, ReadCases
  <2>0a. CASE FileRefused(new)
    BY <1>1, <2>0a, RefusalReleases
  <2>1. SUFFICES ASSUME on_data(new),
                        \/ InProgress(new, "body", StillReading(new)) /\ UNCHANGED receive_done
                        \/ new = <<>> /\ Redirected /\ UNCHANGED receive_done
                        \/ Completed(new)   /\ receive_done' = TRUE
                        \/ ParseFailed      /\ UNCHANGED receive_done
                 PROVE  HandOverInv'
    BY <2>0, <2>0a
  <2>2. net \in {"response", "body"} /\ reading /\ ~receive_done /\ fop # "close"
    BY <1>8 DEF on_read, Reads
  <2>3. /\ buffer' = buffer \o new
        /\ new = <<>> => buffer' = buffer
        /\ Len(buffer') = Len(buffer \o new)
    BY <2>1, AppendType DEF on_data, Received, TypeInv
  \* the flag, the object and the request agree after the callbacks of the parse
  <2>4. /\ FileRequest(new) \in {"none", "open", "write"}
        /\ FileRequest(new) \in {"open", "write"} => file_operation_started'
        /\ file_operation_started' => FileRequest(new) \in {"open", "write"}
        /\ file' => file_openned' \/ FileRequest(new) = "open"
        /\ ~file' => ~file_operation_started'
        /\ buffer' # <<>> => FileRequest(new) \in {"open", "write"}
        /\ FileRequest(new) \in {"open", "write"} => downloaded' > 0
    <3>1. /\ file_operation_started' <=> OpStarted(new)
          /\ file_openned' = file_openned /\ (file' <=> file \/ new # <<>>)
          /\ downloaded' = Upto(new)
      BY <2>1 DEF on_data, Received
    <3>2. buffer' # <<>> => buffer # <<>> \/ new # <<>>
      BY <2>3
    <3>3. FileRequest(new) \in {"open", "write"} => downloaded' > 0
      BY <2>2, <3>1, UptoPositive, ParseRequests
    <3>4. ~file' => ~file_operation_started'
      BY <2>2, <3>1, ParseRequests
    <3> QED
      BY <2>2, <3>1, <3>2, <3>3, <3>4, ParseRequests
  <2>5. CASE InProgress(new, "body", StillReading(new)) /\ UNCHANGED receive_done
    <3>1. CASE terminate_handles(file', file_openned', file_operation_started')
      BY <1>1, <3>1, FailureReleases
    <3>2. CASE /\ net' = "body" /\ fop' = FileRequest(new)
               /\ reading' = StillReading(new) /\ UNCHANGED receive_done
      <4>1. reading' => Len(buffer') < Backlog
        <5>1. CASE new = <<>>
          BY <2>2, <2>3, <3>2, <5>1, Len(<<>>) = 0, BacklogAssumption
             DEF StillReading, TypeInv, TypeOK
        <5>2. CASE new # <<>>
          BY <2>3, <3>2, <5>2 DEF StillReading
        <5> QED
          BY <5>1, <5>2
      <4>2. ~reading' => fop' \in {"open", "write"}
        <5>1. CASE new = <<>>
          BY <2>2, <3>2, <5>1 DEF StillReading
        <5>2. CASE new # <<>>
          <6>1. buffer' # <<>>
            BY <2>3, <5>2, AppendType DEF TypeInv
          <6> QED
            BY <2>4, <3>2, <6>1
        <5> QED
          BY <5>1, <5>2
      <4> QED
        BY <2>2, <2>4, <3>2, <4>1, <4>2
    <3> QED
      BY <2>1, <2>2, <2>5, <3>1, <3>2 DEF InProgress
  <2>6. CASE new = <<>> /\ Redirected
    BY <2>1, <2>2, <2>3, <2>4, <2>6, FileRequest(new) = fop
       DEF Redirected, close_handles, FileRequest, Requests, on_data, Received
  <2>7. CASE Completed(new) /\ receive_done' = TRUE
    BY <2>1, <2>2, <2>3, <2>4, <2>7 DEF Completed, close_handles
  <2>8. CASE ParseFailed
    BY <1>2, <2>8 DEF ParseFailed
  <2> QED
    BY <2>1, <2>5, <2>6, <2>7, <2>8
<1>9. CASE EndOfStream
  <2>1. CASE Fail
    BY <1>2, <2>1 DEF Fail
  <2>0. ASSUME on_data(<<>>)
        PROVE  (file_operation_started' <=> file_operation_started) /\ FileRequest(<<>>) = fop
    BY <2>0 DEF on_data, OpStarted, Requests, FileRequest
  <2>2. CASE net = "body" /\ on_data(<<>>) /\ Completed(<<>>) /\ receive_done' = TRUE
    <3>1. /\ fop' = fop /\ net' = "shutdown" /\ UNCHANGED <<buffer, downloaded>>
          /\ receive_done'
      BY <1>9, <2>0, <2>2 DEF Completed, close_handles, EndOfStream, dataVars
    <3> QED
      BY <2>0, <2>2, <3>1
  <2>2a. CASE net = "body" /\ on_data(<<>>) /\ InProgress(<<>>, "ended", FALSE)
              /\ UNCHANGED receive_done
    <3>1. CASE terminate_handles(file', file_openned', file_operation_started')
      BY <1>1, <3>1, FailureReleases
    <3>2. CASE net' = "ended" /\ fop' = FileRequest(<<>>)
      BY <1>9, <2>0, <2>2a, <3>2 DEF EndOfStream, dataVars
    <3> QED
      BY <2>2a, <3>1, <3>2 DEF InProgress
  <2>3. CASE ParseFailed
    BY <1>2, <2>3 DEF ParseFailed
  <2> QED
    BY <1>9, <2>1, <2>2, <2>2a, <2>3 DEF EndOfStream
<1>10. CASE Shutdown \/ ShutdownError
  BY <1>10 DEF Shutdown, ShutdownError, statusVars, fileVars, dataVars
<1>10a. ASSUME NEW q, on_write(q), ~FileRequested(q) PROVE HandOverInv'
  BY <1>2, <1>10a, WriteCases
<1>11. CASE FileOpened /\ FileRequested(buffer)
  <2>1. /\ UNCHANGED <<receive_done, net, buffer, file, downloaded>> /\ file_openned'
        /\ net \notin {"unset", "resolve", "connect", "request", "response"}
        /\ file_operation_started
    BY <1>11 DEF FileOpened, FileRequested, statusVars, dataVars
  <2>2. CASE buffer # <<>> /\ fop' = "write" /\ UNCHANGED <<file_operation_started, reading>>
    BY <1>11, <2>1, <2>2 DEF FileOpened
  <2>3. CASE /\ buffer = <<>> /\ receive_done /\ fop' = "close"
             /\ UNCHANGED <<file_operation_started, reading>>
    BY <1>11, <2>1, <2>3 DEF FileOpened
  <2>4. CASE /\ buffer = <<>> /\ ~receive_done /\ fop' = "none"
             /\ ~file_operation_started' /\ reading'
    BY <2>1, <2>4, Len(<<>>) = 0, BacklogAssumption
  <2> QED
    BY <1>11, <2>2, <2>3, <2>4 DEF FileOpened, FileRequested, Resume
<1>12. CASE FileWritten /\ FileRequested(buffer')
  <2>1. PICK n \in 1 .. (Head(buffer).to - Head(buffer).from) : buffer' = Advance(n)
    BY <1>12 DEF FileWritten, Written
  <2>2. Len(buffer') \in Nat /\ Len(buffer') =< Len(buffer) /\ Len(buffer) \in Nat
    BY <1>12, <2>1, AdvanceType DEF FileWritten, TypeInv, TypeOK, WriteHasData, Writing
  <2>3. /\ UNCHANGED <<receive_done, net, file, file_openned, downloaded>>
        /\ file_operation_started /\ fop = "write"
        /\ net \notin {"unset", "resolve", "connect", "request", "response"}
    BY <1>12 DEF FileWritten, FileRequested, statusVars
  <2>4. CASE /\ buffer' # <<>> /\ fop' = "write"
             /\ UNCHANGED <<file_operation_started, reading>>
    BY <2>2, <2>3, <2>4, BacklogAssumption
  <2>5. CASE /\ buffer' = <<>> /\ receive_done /\ fop' = "close"
             /\ UNCHANGED <<file_operation_started, reading>>
    BY <2>3, <2>5
  <2>6. CASE /\ buffer' = <<>> /\ ~receive_done /\ fop' = "none"
             /\ ~file_operation_started' /\ reading'
    <3>1. Len(buffer') < Backlog
      BY <2>6, Len(<<>>) = 0, BacklogAssumption
    <3> QED
      BY <1>12, <2>3, <2>6, <3>1 DEF FileWritten
  <2> QED
    BY <1>12, <2>4, <2>5, <2>6 DEF FileRequested, Resume
<1>12a. CASE FileOpened \/ FileWritten
  BY <1>10a, <1>11, <1>12, <1>12a DEF FileOpened, FileWritten
<1>13. CASE FileClosed
  BY <1>13 DEF FileClosed, statusVars, dataVars
<1>14. CASE FileUnlinked \/ OrphanOpened
  BY <1>14 DEF FileUnlinked, OrphanOpened, statusVars, fileVars, dataVars
<1>14a. CASE ClashEnds \/ Rewritten
  <2>1. net = "closed" /\ net' = "closed" /\ fop' \in Left \cup {"rewrite"}
    BY <1>14a DEF ClashEnds, Rewritten, Left, TypeInv, TypeOK
  <2> QED
    BY <1>1, <2>1
<1>15. CASE UNCHANGED vars
  BY <1>15 DEF vars
<1> QED
  BY <1>3, <1>4, <1>5, <1>7, <1>8, <1>9, <1>10, <1>12a, <1>13, <1>14, <1>14a, <1>15
     DEF Next, NetStep, FileStep

(* While data are received, no wake-up between the socket and the file is lost, every file
   request in flight is flagged, the backlog bounds the queue, and a completed request finds
   the socket it may have to resume. *)
THEOREM HandOverCorrect ==
  Spec => [](RequestIsFlagged /\ BacklogStopsReading /\ WriterIsAwake /\ ResumeHasSocket)
<1>1. HandOverInv
        => RequestIsFlagged /\ BacklogStopsReading /\ WriterIsAwake /\ ResumeHasSocket
  BY DEF HandOverInv, HandOver
<1> QED
  <2>1. Init => BeforeRun
    BY DEF Init, BeforeRun
  <2> QED
    BY <1>1, <2>1, TypeInit, TypeNext, BeforeRunNext, HandOverInit, HandOverNext, PTL
       DEF Spec

(* The socket of a download reads only while the queue has room. *)
THEOREM BacklogStops == Spec => []BacklogStopsReading
  BY HandOverCorrect, PTL

(* A completed file request never has to resume a socket that is being shut down or is
   gone. *)
THEOREM ResumesHaveSocket == Spec => []ResumeHasSocket
  BY HandOverCorrect, PTL

LEMMA OneRequestNext ==
  ASSUME "cancel_refused" \notin Adversity, "write_refused" \notin Adversity
  PROVE  TypeInv /\ HandOverInv /\ OneRequestAtATime /\ [Next]_vars => OneRequestAtATime'
<1> SUFFICES ASSUME TypeInv, HandOverInv, OneRequestAtATime, [Next]_vars
             PROVE  OneRequestAtATime'
  OBVIOUS
<1> USE DEF OneRequestAtATime
<1>1. ASSUME NEW present, NEW openned, NEW started,
             terminate_handles(present, openned, started)
      PROVE  OneRequestAtATime'
  BY <1>1, "cancel_refused" \notin Adversity DEF terminate_handles, terminate_file, Cancelled
<1>2. CASE Fail \/ ParseFailed \/ FileError \/ FileCloseError
  BY <1>1, <1>2 DEF Fail, ParseFailed, FileError, FileCloseError, on_error
<1>3. ASSUME NEW q, on_write(q) PROVE OneRequestAtATime'
  BY <1>1, <1>3, WriteCases DEF FileRequested, on_error
<1>4. CASE FileOpened \/ FileWritten
  BY <1>3, <1>4 DEF FileOpened, FileWritten
<1>5. ASSUME NEW new \in Parsed, net \in {"response", "body"}, NEW next, NEW r,
             InProgress(new, next, r) \/ Redirected \/ Completed(new)
      PROVE  OneRequestAtATime'
  <2>1. FileRequest(new) \in {"none", "open", "write"}
    BY <1>5, ParseRequests
  <2> QED
    BY <1>1, <1>5, <2>1 DEF InProgress, Redirected, Completed
<1>6. ASSUME NEW new, FileRefused(new) PROVE OneRequestAtATime'
  BY <1>1, <1>6, "write_refused" \notin Adversity DEF FileRefused, on_error
<1>7. CASE on_read
  <2>1. net \in {"response", "body"}
    BY <1>7 DEF on_read, Reads
  <2> QED
    BY <1>2, <1>5, <1>6, <1>7, <2>1, ReadCases
<1>8. CASE EndOfStream
  <2>1. <<>> \in Parsed
    BY DEF Parsed
  <2>2. net \in {"response", "body"}
    BY <1>8 DEF EndOfStream
  <2> QED
    BY <1>2, <1>5, <1>8, <2>1, <2>2 DEF EndOfStream
<1>9. CASE on_resolve \/ on_connect \/ on_write_http_request
  BY <1>2, <1>9 DEF on_resolve, on_connect, on_write_http_request, Issue
<1>10. CASE Stop \/ NetworkError \/ Timeout
  BY <1>2, <1>10 DEF Stop, NetworkError, Timeout
<1>11. CASE RunRefused \/ RunStarted \/ Shutdown \/ ShutdownError \/ FileClosed
            \/ FileUnlinked \/ OrphanOpened \/ ClashEnds \/ Rewritten
  BY <1>11 DEF RunRefused, RunStarted, Shutdown, ShutdownError, FileClosed, FileUnlinked,
               OrphanOpened, ClashEnds, Rewritten
<1>12. CASE UNCHANGED vars
  BY <1>12 DEF vars
<1> QED
  BY <1>2, <1>4, <1>7, <1>8, <1>9, <1>10, <1>11, <1>12 DEF Next, NetStep, FileStep

(* No second request is made of the file object while one is running: the flag, the object
   and what is in flight never disagree, whatever fails and in whatever order.  Only a running
   request that cannot be cancelled, and a write refused in the middle of a parse, make two
   requests share the object. *)
THEOREM RequestsTakeTurns ==
  ASSUME "cancel_refused" \notin Adversity, "write_refused" \notin Adversity
  PROVE  Spec => []OneRequestAtATime
<1>1. Init => BeforeRun /\ OneRequestAtATime
  BY DEF Init, BeforeRun, OneRequestAtATime
<1>2. TypeInv /\ HandOverInv /\ OneRequestAtATime /\ [Next]_vars => OneRequestAtATime'
  BY OneRequestNext
<1> QED
  BY <1>1, <1>2, TypeInit, TypeNext, BeforeRunNext, HandOverInit, HandOverNext, PTL DEF Spec

(* What the owner has been told, given that the connection is never closed before the
   file is open: nothing final while anything of the download is still to be done. *)
OwnerInv ==
  /\ ret = "none" <=> net = "unset"
  /\ ret # "started" => net \in {"unset", "closed"} /\ fop = "none" /\ timer # "on"
                        /\ finals = 0
  /\ net # "closed" => finals = 0
  /\ fop \in {"open", "write", "close"} => finals = 0
  /\ fop \in {"write", "close"} => file_openned
  /\ net = "shutdown" /\ ~receive_done => fop \notin {"open", "write", "close"}
  /\ timer = "on" => net \in {"connect", "request", "response", "body", "ended"}
  /\ net \in {"request", "response", "body", "shutdown"} => socket_connected

LEMMA OwnerInit == Init => OwnerInv
BY DEF Init, OwnerInv

\* a step of the contract, unless the timer fails, which is told twice
ContractStep == "timer_error" \notin Adversity => [Contract!Next]_(Contract!vars)

LEMMA OwnerNext ==
  ASSUME "early_shutdown" \notin Adversity
  PROVE  TypeInv /\ HandOverInv /\ OwnerInv /\ [Next]_vars => OwnerInv' /\ ContractStep
<1> SUFFICES ASSUME TypeInv, HandOverInv, OwnerInv, [Next]_vars
             PROVE  OwnerInv' /\ ContractStep
  OBVIOUS
<1> USE DEF OwnerInv, ContractStep
<1> DEFINE Goal == OwnerInv' /\ ContractStep
\* a step the owner does not see
<1>1. ASSUME UNCHANGED <<ret, told, finals>> PROVE [Contract!Next]_(Contract!vars)
  BY <1>1 DEF Contract!vars
\* progress, which the owner is told while nothing is final
<1>2. ASSUME UNCHANGED ret, ret = "started", finals = 0, Tick("OnTheGo")
      PROVE  [Contract!Next]_(Contract!vars) /\ finals' = 0
  BY <1>2 DEF Tick, Final, Contract!Next, Contract!Progress
\* a final notification, the only one so far
<1>3. ASSUME UNCHANGED ret, ret = "started", finals = 0,
             NEW s \in {"Done", "Failed", "Redirect"}, Tick(s)
      PROVE  [Contract!Next]_(Contract!vars)
  BY <1>3 DEF Tick, Final, Contract!Next, Contract!Finish, Contract!Final
\* an error ends everything the downloader still waits for
<1>4. ASSUME UNCHANGED ret, ret = "started", finals = 0,
             NEW present, NEW openned, NEW started,
             on_error(present, openned, started)
      PROVE  Goal
  BY <1>3, <1>4, FailureReleases DEF on_error, update_status, Left
<1>5. CASE RunRefused
  BY <1>5 DEF RunRefused, ownerVars, Contract!Next, Contract!Answer
<1>6. CASE RunStarted
  BY <1>6 DEF RunStarted, ownerVars, Contract!Next, Contract!Answer
<1>7. CASE Stop \/ NetworkError \/ Timeout \/ FileError \/ FileCloseError
  <2>1. UNCHANGED ret /\ ret = "started" /\ finals = 0
    BY <1>7 DEF Stop, NetworkError, Timeout, FileError, FileCloseError, statusVars,
                TypeInv, TypeOK
  <2> QED
    BY <1>4, <1>7, <2>1 DEF Stop, NetworkError, Timeout, FileError, FileCloseError, Fail
<1>8. ASSUME UNCHANGED <<ret, file_openned, downloaded>>,
             net \in {"resolve", "connect", "request"},
             NEW next \in {"connect", "request", "response"}, NEW r, Issue(next, r),
             next # "connect" => socket_connected'
      PROVE  Goal
  <2>1. ret = "started" /\ finals = 0
    BY <1>8 DEF TypeInv, TypeOK
  <2>2. CASE Fail
    BY <1>4, <1>8, <2>1, <2>2 DEF Fail
  <2>3. CASE /\ Tick("OnTheGo")
             /\ net' = next /\ timer' = "on" /\ UNCHANGED fop
    BY <1>2, <1>8, <2>1, <2>3
  <2> QED
    BY <1>8, <2>2, <2>3 DEF Issue, update_status
<1>9. CASE on_resolve \/ on_connect \/ on_write_http_request
  <2>1. CASE on_resolve
    BY <1>8, <2>1 DEF on_resolve, statusVars, fileVars, dataVars
  <2>2. CASE on_connect
    BY <1>8, <2>2 DEF on_connect, fileVars, dataVars
  <2>3. CASE on_write_http_request
    BY <1>8, <2>3 DEF on_write_http_request, statusVars, fileVars, dataVars
  <2> QED
    BY <1>9, <2>1, <2>2, <2>3
<1>10. CASE on_read
  <2>1. PICK new \in Parsed :
           \/ /\ on_data(new)
              /\ \/ InProgress(new, "body", StillReading(new)) /\ UNCHANGED receive_done
                 \/ new = <<>> /\ Redirected /\ UNCHANGED receive_done
                 \/ Completed(new)   /\ receive_done' = TRUE
                 \/ ParseFailed      /\ UNCHANGED receive_done
           \/ FileRefused(new) /\ UNCHANGED receive_done
    BY <1>10, ReadCases
  <2>2. /\ UNCHANGED <<ret, file_openned, socket_connected>>
        /\ ret = "started" /\ finals = 0 /\ socket_connected
        /\ net \in {"response", "body"}
    BY <1>10, <2>1 DEF on_read, Reads, on_data, FileRefused, Received, TypeInv, TypeOK
  <2>3. FileRequest(new) \in {"none", "open", "write"}
        /\ (FileRequest(new) = "write" => file_openned)
    BY <2>2, ParseRequests
  <2>4. CASE InProgress(new, "body", StillReading(new))
    <3>1. CASE /\ Tick("OnTheGo")
               /\ net' = "body" /\ timer' = "on" /\ fop' = FileRequest(new)
      BY <1>2, <2>2, <2>3, <3>1
    <3>2. CASE /\ "timer_error" \in Adversity
               /\ terminate_handles(file', file_openned', file_operation_started')
      BY <2>2, <3>2, FailureReleases DEF Left
    <3> QED
      BY <2>4, <3>1, <3>2 DEF InProgress, update_status
  <2>5. CASE new = <<>> /\ Redirected /\ UNCHANGED receive_done
    <3>1. fop \notin {"open", "write", "close"} /\ UNCHANGED <<fop, told, finals>>
      BY <2>5 DEF Redirected, ownerVars, HandOverInv, ControlInv
    <3> QED
      BY <1>1, <2>2, <2>5, <3>1 DEF Redirected, close_handles
  <2>6. CASE Completed(new) /\ receive_done' = TRUE
    BY <1>1, <2>2, <2>3, <2>6 DEF Completed, close_handles, ownerVars
  <2>7. CASE ParseFailed
    BY <1>4, <2>2, <2>7 DEF ParseFailed
  <2>8. CASE FileRefused(new)
    BY <1>3, <2>2, <2>8, RefusalReleases DEF update_status, Left
  <2> QED
    BY <2>1, <2>4, <2>5, <2>6, <2>7, <2>8
<1>11. CASE EndOfStream
  <2>1. UNCHANGED ret /\ ret = "started" /\ finals = 0
    BY <1>11 DEF EndOfStream, TypeInv, TypeOK
  <2>2. CASE Fail \/ ParseFailed
    BY <1>4, <2>1, <2>2 DEF Fail, ParseFailed
  <2>3. CASE net = "body" /\ on_data(<<>>) /\ Completed(<<>>) /\ receive_done' = TRUE
    <3>1. /\ UNCHANGED <<fop, told, finals, file_openned, downloaded, socket_connected>>
          /\ net' = "shutdown" /\ timer' = "gone" /\ socket_connected
      BY <1>11, <2>3 DEF on_data, Received, Completed, FileRequest, Requests,
                         close_handles, ownerVars, EndOfStream, dataVars
    <3> QED
      BY <1>1, <2>1, <2>3, <3>1
  <2>4. CASE net = "body" /\ on_data(<<>>) /\ InProgress(<<>>, "ended", FALSE)
    <3>1. /\ UNCHANGED <<file_openned, downloaded, socket_connected>>
          /\ FileRequest(<<>>) = fop
      BY <1>11, <2>4 DEF on_data, Received, FileRequest, Requests, EndOfStream, dataVars
    <3>2. CASE Tick("OnTheGo") /\ net' = "ended" /\ timer' = "on" /\ fop' = FileRequest(<<>>)
      BY <1>2, <2>1, <2>4, <3>1, <3>2
    <3>3. CASE /\ "timer_error" \in Adversity
               /\ terminate_handles(file', file_openned', file_operation_started')
      BY <2>1, <3>3, FailureReleases DEF Left
    <3> QED
      BY <2>4, <3>2, <3>3 DEF InProgress, update_status
  <2> QED
    BY <1>11, <2>2, <2>3, <2>4 DEF EndOfStream
<1>12. CASE Shutdown
  <2>1. /\ UNCHANGED <<ret, file_openned, fop, timer>> /\ net' = "closed"
        /\ ret = "started" /\ finals = 0 /\ fop # "open" /\ net = "shutdown"
        /\ UNCHANGED downloaded
    BY <1>12, "early_shutdown" \notin Adversity
       DEF Shutdown, fileVars, dataVars, TypeInv, TypeOK
  <2>2. CASE Tick("Redirect") /\ ~receive_done
    BY <1>3, <2>1, <2>2
  <2>3. CASE Tick("Done") /\ ~file_openned
    BY <1>3, <2>1, <2>3
  <2>4. CASE UNCHANGED <<state, told, finals>>
    BY <1>1, <2>1, <2>4
  <2> QED
    BY <1>12, <2>2, <2>3, <2>4 DEF Shutdown, on_shutdown, update_status
<1>13. CASE ShutdownError
  BY <1>1, <1>13 DEF ShutdownError, statusVars, fileVars, dataVars, ownerVars
<1>13a. ASSUME NEW q, on_write(q), ~FileRequested(q), UNCHANGED ret,
               fop \in {"open", "write"}
        PROVE  Goal
  <2>1. ret = "started" /\ finals = 0
    BY <1>13a DEF TypeInv, TypeOK
  <2> QED
    BY <1>4, <1>13a, <2>1, WriteCases
<1>14. CASE FileOpened
  <2>1. /\ UNCHANGED <<ret, receive_done, socket_connected>>
        /\ file_openned' /\ fop = "open"
    BY <1>14 DEF FileOpened, statusVars
  <2>2. CASE FileRequested(buffer)
    BY <1>1, <2>1, <2>2 DEF FileRequested, ownerVars
  <2> QED
    BY <1>13a, <1>14, <2>1, <2>2 DEF FileOpened
<1>15. CASE FileWritten
  <2>1. UNCHANGED <<ret, receive_done, socket_connected, file_openned>> /\ fop = "write"
    BY <1>15 DEF FileWritten, statusVars
  <2>2. CASE FileRequested(buffer')
    BY <1>1, <2>1, <2>2 DEF FileRequested, ownerVars
  <2> QED
    BY <1>13a, <1>15, <2>1, <2>2 DEF FileWritten
<1>16. CASE FileClosed
  <2>1. /\ UNCHANGED <<ret, net, timer, socket_connected>> /\ fop' = "none"
        /\ ret = "started" /\ finals = 0
        /\ net \in {"shutdown", "closed"}
    BY <1>16 DEF FileClosed, statusVars, TypeInv, TypeOK, HandOverInv, ControlInv
  <2>2. CASE UNCHANGED <<state, told, finals>>
    BY <1>1, <2>1, <2>2
  <2>3. CASE Tick("Done") /\ ~socket_connected
    BY <1>3, <2>1, <2>3
  <2> QED
    BY <1>16, <2>2, <2>3 DEF FileClosed, on_close, update_status
<1>17. CASE FileUnlinked \/ OrphanOpened
  BY <1>1, <1>17 DEF FileUnlinked, OrphanOpened, statusVars, fileVars, ownerVars
<1>17a. CASE ClashEnds \/ Rewritten
  <2>1. /\ UNCHANGED <<ret, told, finals, net, timer, receive_done, socket_connected>>
        /\ fop' \in {"unlink", "none", "rewrite"} /\ fop # "none"
    BY <1>17a DEF ClashEnds, Rewritten, statusVars, ownerVars
  <2> QED
    BY <1>1, <2>1
<1>18. CASE UNCHANGED vars
  BY <1>1, <1>18 DEF vars
<1> QED
  BY <1>5, <1>6, <1>7, <1>9, <1>10, <1>11, <1>12, <1>13, <1>14, <1>15, <1>16, <1>17,
     <1>17a, <1>18 DEF Next, NetStep, FileStep

(* The downloader implements the safety of its contract: the owner is never notified
   again after a final state, unless the connection is closed before the file is open
   or the timer cannot be restarted. *)
THEOREM ContractKept ==
  ASSUME "early_shutdown" \notin Adversity, "timer_error" \notin Adversity
  PROVE  Spec => ToldOnce
<1>1. Init => BeforeRun /\ Contract!Init
  BY DEF Init, BeforeRun, Contract!Init
<1>2. TypeInv /\ HandOverInv /\ OwnerInv /\ [Next]_vars =>
        OwnerInv' /\ [Contract!Next]_(Contract!vars)
  BY OwnerNext DEF ContractStep
<1> QED
  BY <1>1, <1>2, TypeInit, TypeNext, BeforeRunNext, HandOverInit, HandOverNext, OwnerInit,
     PTL DEF Spec, ToldOnce, Contract!Safe

-------------------------------------------------------------------------------
(* After the end. *)

(* Once the owner has been told of the end, only the removal of the file goes on. *)
LEMMA AfterFinal ==
  ASSUME TypeInv, OwnerInv, finals > 0, [Next]_vars
  PROVE  FileUnlinked \/ OrphanOpened \/ ClashEnds \/ Rewritten \/ UNCHANGED vars
<1>1. /\ ret = "started" /\ net = "closed" /\ timer # "on"
      /\ fop \notin {"open", "write", "close"} /\ finals # 0
  BY DEF OwnerInv, TypeInv, TypeOK
<1>2. ~RunRefused /\ ~RunStarted /\ ~Stop
  BY <1>1 DEF RunRefused, RunStarted, Stop
<1>3. ~NetStep
  BY <1>1 DEF NetStep, on_resolve, on_connect, on_write_http_request, on_read, Reads,
              EndOfStream, NetworkError, Timeout, Shutdown, ShutdownError
<1>4. ~FileOpened /\ ~FileWritten /\ ~FileClosed /\ ~FileError /\ ~FileCloseError
  BY <1>1 DEF FileOpened, FileWritten, FileClosed, FileError, FileCloseError
<1> QED
  BY <1>2, <1>3, <1>4 DEF Next, FileStep

NoRewrite == fop # "rewrite"

(* Without a refused write no write is ever made over the close of a failed download. *)
LEMMA NoRewriteNext ==
  ASSUME "write_refused" \notin Adversity
  PROVE  NoRewrite /\ [Next]_vars => NoRewrite'
<1> SUFFICES ASSUME fop # "rewrite", [Next]_vars PROVE fop' # "rewrite"
  BY DEF NoRewrite
<1>1. ASSUME NEW present, NEW openned, NEW started,
             terminate_handles(present, openned, started)
      PROVE  fop' # "rewrite"
  BY <1>1, FailureReleases DEF Left
<1>2. CASE Fail \/ ParseFailed \/ FileError \/ FileCloseError
  BY <1>1, <1>2 DEF Fail, ParseFailed, FileError, FileCloseError, on_error
<1>3. CASE FileOpened \/ FileWritten
  BY <1>1, <1>3, WriteCases DEF FileOpened, FileWritten, FileRequested, on_error
<1>4. ASSUME NEW new, NEW next, NEW r,
             InProgress(new, next, r) \/ Redirected \/ Completed(new)
      PROVE  fop' # "rewrite"
  <2>1. FileRequest(new) # "rewrite"
    BY DEF FileRequest
  <2> QED
    BY <1>1, <1>4, <2>1 DEF InProgress, Redirected, Completed
<1>5. ASSUME NEW new, FileRefused(new) PROVE fop' # "rewrite"
  BY <1>1, <1>5, "write_refused" \notin Adversity DEF FileRefused, on_error
<1>6. CASE on_read
  BY <1>2, <1>4, <1>5, <1>6, ReadCases
<1>7. CASE EndOfStream
  BY <1>2, <1>4, <1>7 DEF EndOfStream
<1>8. CASE on_resolve \/ on_connect \/ on_write_http_request
  BY <1>2, <1>8 DEF on_resolve, on_connect, on_write_http_request, Issue
<1>9. CASE Stop \/ NetworkError \/ Timeout
  BY <1>2, <1>9 DEF Stop, NetworkError, Timeout
<1>10. CASE RunRefused \/ RunStarted \/ Shutdown \/ ShutdownError \/ FileClosed
            \/ FileUnlinked \/ OrphanOpened \/ ClashEnds \/ Rewritten
  BY <1>10 DEF RunRefused, RunStarted, Shutdown, ShutdownError, FileClosed, FileUnlinked,
               OrphanOpened, ClashEnds, Rewritten
<1>11. CASE UNCHANGED vars
  BY <1>11 DEF vars
<1> QED
  BY <1>2, <1>3, <1>6, <1>7, <1>8, <1>9, <1>10, <1>11 DEF Next, NetStep, FileStep

(* The status and the file are no longer changed after the final notification: no write
   in flight, no timer and no event of the socket is left that could. *)
THEOREM FinalIsFrozen ==
  ASSUME "early_shutdown" \notin Adversity, "write_refused" \notin Adversity
  PROVE  Spec => FinalStatusIsFrozen
<1> DEFINE Frozen == finals > 0 =>
                       UNCHANGED <<state, told, finals, downloaded, offset_file>>
<1>1. TypeInv /\ OwnerInv /\ NoRewrite /\ [Next]_vars => [Frozen]_vars
  <2> SUFFICES ASSUME TypeInv, OwnerInv, NoRewrite, [Next]_vars, finals > 0
               PROVE  UNCHANGED <<state, told, finals, downloaded, offset_file>>
    OBVIOUS
  <2>1. FileUnlinked \/ OrphanOpened \/ ClashEnds \/ UNCHANGED vars
    BY AfterFinal DEF Rewritten, NoRewrite
  <2> QED
    BY <2>1 DEF FileUnlinked, OrphanOpened, ClashEnds, dataVars, ownerVars, vars
<1>2. Init => BeforeRun /\ NoRewrite
  BY DEF Init, BeforeRun, NoRewrite
<1>3. TypeInv /\ HandOverInv /\ OwnerInv /\ [Next]_vars => OwnerInv'
  BY OwnerNext
<1>4. NoRewrite /\ [Next]_vars => NoRewrite'
  BY NoRewriteNext
<1> QED
  BY <1>1, <1>2, <1>3, <1>4, TypeInit, TypeNext, BeforeRunNext, HandOverInit, HandOverNext,
     OwnerInit, PTL DEF Spec, FinalStatusIsFrozen

(* What Done stands for, together with the fact that makes it so: the file is closed
   only when the queue is empty. *)
StoredInv ==
  /\ told = "Done" => /\ buffer = <<>> /\ fop = "none" /\ ~file_openned
                      /\ finals > 0
  /\ fop = "close" => buffer = <<>>

LEMMA StoredNext ==
  ASSUME "early_shutdown" \notin Adversity
  PROVE  TypeInv /\ HandOverInv /\ OwnerInv /\ StoredInv /\ [Next]_vars => StoredInv'
<1> SUFFICES ASSUME TypeInv, HandOverInv, OwnerInv, StoredInv, [Next]_vars
             PROVE  StoredInv'
  OBVIOUS
<1>1. CASE finals > 0
  <2>1. FileUnlinked \/ OrphanOpened \/ ClashEnds \/ Rewritten \/ UNCHANGED vars
    BY <1>1, AfterFinal
  <2>2. CASE FileUnlinked \/ OrphanOpened \/ UNCHANGED vars
    BY <2>2 DEF FileUnlinked, OrphanOpened, StoredInv, dataVars, fileVars, ownerVars, vars
  <2>3. CASE ClashEnds \/ Rewritten
    <3>1. fop # "none" /\ fop' # "close" /\ UNCHANGED told
      BY <2>3 DEF ClashEnds, Rewritten, ownerVars
    <3> QED
      BY <3>1 DEF StoredInv
  <2> QED
    BY <2>1, <2>2, <2>3
<1>2. CASE finals = 0
  <2> USE <1>2
  <2>1. told # "Done"
    BY DEF StoredInv
  \* steps that do not tell Done and do not ask for a close
  <2>2. ASSUME told' # "Done", fop' = "close" => fop = "close" /\ UNCHANGED buffer
        PROVE  StoredInv'
    BY <2>2 DEF StoredInv
  <2>3. ASSUME NEW present, NEW openned, NEW started,
             on_error(present, openned, started) PROVE StoredInv'
    <3>1. told' = "Failed"
      BY <2>3 DEF on_error, update_status, Tick
    <3> QED
      BY <2>2, <2>3, <3>1, FailureReleases DEF on_error, Left
  <2>4. CASE Shutdown
    <3>1. /\ net = "shutdown" /\ fop # "open" /\ UNCHANGED <<fop, buffer, file_openned>>
          /\ finals' \in Nat
      BY <2>4, "early_shutdown" \notin Adversity
         DEF Shutdown, dataVars, fileVars, on_shutdown, update_status, Tick
    <3>2. CASE told' = "Done" /\ finals' = 1 /\ ~file_openned
      <4>1. fop \notin {"write", "close"}
        BY <3>2 DEF OwnerInv
      <4>2. buffer = <<>> /\ fop = "none"
        BY <3>1, <4>1 DEF HandOverInv, HandOver, ControlInv, WriterIsAwake
      <4> QED
        BY <3>1, <3>2, <4>2 DEF StoredInv
    <3>3. CASE told' # "Done"
      BY <2>2, <3>1, <3>3
    <3> QED
      BY <2>1, <2>4, <3>2, <3>3 DEF Shutdown, on_shutdown, update_status, Tick, Final
  <2>5. CASE FileClosed
    <3>1. buffer' = <<>> /\ fop' = "none" /\ ~file_openned'
      BY <2>5 DEF FileClosed, dataVars, StoredInv
    <3>2. told' = "Done" => finals' > 0
      BY <2>1, <2>5 DEF FileClosed, on_close, update_status, Tick, Final
    <3> QED
      BY <3>1, <3>2 DEF StoredInv
  <2>6. CASE FileOpened \/ FileWritten
    <3>1. on_write(buffer')
      BY <2>6 DEF FileOpened, FileWritten, dataVars
    <3>2. CASE FileRequested(buffer')
      BY <2>1, <3>2 DEF FileRequested, StoredInv, ownerVars
    <3> QED
      BY <2>3, <3>1, <3>2, WriteCases
  <2>7. CASE on_read
    <3>1. PICK new \in Parsed :
             \/ InProgress(new, "body", StillReading(new))
             \/ Redirected
             \/ Completed(new)
             \/ ParseFailed
             \/ FileRefused(new)
      BY <2>7, ReadCases
    <3>2. fop # "close" /\ net \in {"response", "body"}
      BY <2>7 DEF on_read, Reads, HandOverInv, ControlInv
    <3>3. FileRequest(new) # "close"
      BY <3>2, ParseRequests
    <3>3a. CASE FileRefused(new)
      BY <2>2, <3>3a, RefusalReleases DEF update_status, Tick, Left
    <3>4. CASE ParseFailed
      BY <2>3, <3>4 DEF ParseFailed
    <3>5. CASE InProgress(new, "body", StillReading(new))
      <4>1. told' = "OnTheGo" /\ fop' # "close"
        BY <3>3, <3>5, FailureReleases DEF InProgress, update_status, Tick, Left
      <4> QED
        BY <2>2, <4>1
    <3>6. CASE Redirected \/ Completed(new)
      BY <2>1, <2>2, <3>2, <3>3, <3>6 DEF Redirected, Completed, ownerVars
    <3> QED
      BY <3>1, <3>3a, <3>4, <3>5, <3>6
  <2>8. CASE EndOfStream
    <3>1. CASE Fail \/ ParseFailed
      BY <2>3, <3>1 DEF Fail, ParseFailed
    <3>2. CASE Completed(<<>>)
      BY <2>1, <2>2, <2>8, <3>2 DEF Completed, FileRequest, Requests, EndOfStream, ownerVars,
                                    dataVars
    <3>3. CASE InProgress(<<>>, "ended", FALSE)
      <4>1. told' = "OnTheGo" /\ (fop' = "close" => fop = "close") /\ UNCHANGED buffer
        BY <2>8, <3>3, FailureReleases
           DEF InProgress, update_status, Tick, FileRequest, Requests, EndOfStream, dataVars, Left
      <4> QED
        BY <2>2, <4>1
    <3> QED
      BY <2>8, <3>1, <3>2, <3>3 DEF EndOfStream
  <2>9. CASE on_resolve \/ on_connect \/ on_write_http_request
    <3>1. UNCHANGED buffer
      BY <2>9 DEF on_resolve, on_connect, on_write_http_request, dataVars
    <3>2. PICK next, r : Issue(next, r)
      BY <2>9 DEF on_resolve, on_connect, on_write_http_request
    <3>3. CASE Fail
      BY <2>3, <3>3 DEF Fail
    <3>4. CASE update_status("OnTheGo") /\ UNCHANGED fop
      BY <2>2, <3>1, <3>4 DEF update_status, Tick
    <3> QED
      BY <3>2, <3>3, <3>4 DEF Issue
  <2>10. CASE Stop \/ NetworkError \/ Timeout \/ FileError \/ FileCloseError
    BY <2>3, <2>10 DEF Stop, NetworkError, Timeout, FileError, FileCloseError, Fail
  <2>11. CASE RunRefused \/ RunStarted \/ ShutdownError \/ FileUnlinked \/ OrphanOpened
    <3>1. UNCHANGED <<told, buffer>> /\ (UNCHANGED fop \/ fop' = "none")
      BY <2>11 DEF RunRefused, RunStarted, ShutdownError, FileUnlinked, OrphanOpened,
                   dataVars, ownerVars
    <3> QED
      BY <2>1, <2>2, <3>1
  <2>11a. CASE ClashEnds \/ Rewritten
    <3>1. UNCHANGED told /\ fop' # "close"
      BY <2>11a DEF ClashEnds, Rewritten, ownerVars
    <3> QED
      BY <2>1, <2>2, <3>1
  <2>12. CASE UNCHANGED vars
    BY <2>1, <2>2, <2>12 DEF vars
  <2> QED
    BY <2>4, <2>5, <2>6, <2>7, <2>8, <2>9, <2>10, <2>11, <2>11a, <2>12 DEF Next, NetStep, FileStep
<1> QED
  BY <1>1, <1>2 DEF TypeInv, TypeOK

(* Done is announced only when every byte received is in the file and the file is
   closed, whichever of the file and the connection closes last. *)
THEOREM DoneIsStored ==
  ASSUME "early_shutdown" \notin Adversity
  PROVE  Spec => []DoneMeansStored
<1>1. Init => BeforeRun /\ StoredInv
  BY DEF Init, BeforeRun, StoredInv
<1>2. StoredInv /\ QueueIsContiguous => DoneMeansStored
  BY DEF StoredInv, QueueIsContiguous, Contiguous, DoneMeansStored
<1>3. TypeInv /\ HandOverInv /\ OwnerInv /\ [Next]_vars => OwnerInv'
  BY OwnerNext
<1>4. TypeInv /\ HandOverInv /\ OwnerInv /\ StoredInv /\ [Next]_vars => StoredInv'
  BY StoredNext
<1> QED
  BY <1>1, <1>2, <1>3, <1>4, TypeInit, TypeNext, BeforeRunNext, HandOverInit, HandOverNext,
     OwnerInit, QueueCorrect, PTL DEF Spec

-------------------------------------------------------------------------------
(* No download is forgotten. *)

(* What keeps a download without a final state going: the timer until the connection is
   being closed, and after that the file request that is in flight. *)
PendingInv ==
  /\ ret = "none" <=> net = "unset"
  /\ finals = 0 /\ net \in {"connect", "request", "response", "body", "ended"} => timer = "on"
  /\ finals = 0 /\ ret = "started" /\ net = "closed"
       => receive_done /\ file_openned /\ ~socket_connected
  /\ finals = 0 /\ net \in {"shutdown", "closed"} /\ receive_done /\ file_openned
       => fop \in {"open", "write", "close"}

(* An error is the end: nothing has to come any more. *)
LEMMA ErrorTells ==
  ASSUME finals \in Nat, NEW present, NEW openned, NEW started,
             on_error(present, openned, started)
  PROVE  finals' > 0 /\ net' = "closed"
BY DEF on_error, update_status, Tick, Final, terminate_handles, terminate_connection

LEMMA PendingNext ==
  ASSUME "silent_end" \notin Adversity, "shutdown_error" \notin Adversity
  PROVE  TypeInv /\ BeforeRun /\ HandOverInv /\ PendingInv /\ [Next]_vars => PendingInv'
<1> SUFFICES ASSUME TypeInv, BeforeRun, HandOverInv, PendingInv, [Next]_vars PROVE PendingInv'
  OBVIOUS
<1> USE DEF PendingInv
<1>1. ASSUME ret # "none", UNCHANGED ret, NEW present, NEW openned, NEW started,
             on_error(present, openned, started)
      PROVE  PendingInv'
  BY <1>1, ErrorTells DEF TypeInv, TypeOK
<1>2. CASE RunRefused
  BY <1>2 DEF RunRefused, fileVars, ownerVars, TypeInv, TypeOK, BeforeRun, HandOverInv, ControlInv
<1>3. CASE RunStarted
  BY <1>3 DEF RunStarted
<1>4. CASE Stop \/ NetworkError \/ Timeout \/ FileError
  BY <1>1, <1>4 DEF Stop, NetworkError, Timeout, FileError, Fail, statusVars, BeforeRun
<1>5. CASE FileCloseError
  BY <1>1, <1>5 DEF FileCloseError, statusVars, BeforeRun
<1>6. CASE on_resolve \/ on_connect \/ on_write_http_request
  <2>1. /\ UNCHANGED ret /\ ret # "none"
        /\ \E next \in {"connect", "request", "response"} : \E r : Issue(next, r)
    BY <1>6 DEF on_resolve, on_connect, on_write_http_request, statusVars
  <2>2. PICK next \in {"connect", "request", "response"} : \E r : Issue(next, r)
    BY <2>1
  <2>3. CASE Fail
    BY <1>1, <2>1, <2>3 DEF Fail
  <2>4. CASE net' = next /\ timer' = "on"
    BY <2>1, <2>4
  <2> QED
    BY <2>2, <2>3, <2>4 DEF Issue
<1>7. CASE on_read
  <2>1. PICK new \in Parsed :
           \/ /\ on_data(new)
              /\ \/ InProgress(new, "body", StillReading(new))
                 \/ new = <<>> /\ Redirected /\ UNCHANGED receive_done
                 \/ Completed(new) /\ receive_done' = TRUE
                 \/ ParseFailed
           \/ FileRefused(new)
    BY <1>7, ReadCases
  <2>2. UNCHANGED ret /\ ret # "none" /\ net \in {"response", "body"} /\ ~receive_done
    BY <1>7 DEF on_read, Reads, HandOverInv, ControlInv
  <2>3. CASE ParseFailed
    BY <1>1, <2>2, <2>3 DEF ParseFailed
  <2>3a. CASE FileRefused(new)
    <3>1. net' = "closed" /\ update_status("Failed") /\ finals \in Nat
      BY <2>3a, RefusalReleases DEF TypeInv, TypeOK
    <3>2. finals' # 0
      BY ONLY <3>1 DEF update_status, Tick, Final
    <3> QED
      BY <2>2, <3>1, <3>2
  <2>4. CASE InProgress(new, "body", StillReading(new))
    <3>1. CASE net' = "body" /\ timer' = "on"
      BY <2>2, <3>1
    <3>2. CASE finals' = finals + 1 /\ terminate_handles(file', file_openned', file_operation_started')
      <4>1. net' = "closed"
        BY <3>2, FailureReleases
      <4>2. finals' # 0
        BY <3>2 DEF TypeInv, TypeOK
      <4> QED
        BY <2>2, <4>1, <4>2
    <3> QED
      BY <2>4, <3>1, <3>2 DEF InProgress
  <2>5. CASE new = <<>> /\ Redirected /\ UNCHANGED receive_done
    BY <2>2, <2>5 DEF Redirected, close_handles
  <2>6. CASE on_data(new) /\ Completed(new) /\ receive_done' = TRUE
    <3>1. ~Silent(new) /\ net' = "shutdown" /\ fop' = FileRequest(new)
      BY <2>6, "silent_end" \notin Adversity DEF Completed, close_handles
    <3>2. file_openned' = file_openned
      BY <2>6 DEF on_data, Received
    <3>3. file_openned => FileRequest(new) \in {"open", "write"}
      BY <2>2, <3>1, ParseRequests DEF Silent, TypeInv, TypeOK
    <3> QED
      BY <2>2, <3>1, <3>2, <3>3
  <2> QED
    BY <2>1, <2>3, <2>3a, <2>4, <2>5, <2>6
<1>8. CASE EndOfStream
  <2>1. UNCHANGED ret /\ ret # "none"
    BY <1>8 DEF EndOfStream
  <2>2. CASE Fail \/ ParseFailed
    BY <1>1, <2>1, <2>2 DEF Fail, ParseFailed
  <2>3. CASE net = "body" /\ on_data(<<>>) /\ Completed(<<>>)
    <3>1. /\ ~Silent(<<>>) /\ net' = "shutdown" /\ fop' = fop /\ file_openned' = file_openned
      BY <2>3, "silent_end" \notin Adversity DEF Completed, close_handles, FileRequest, Requests,
                                                    on_data, Received
    <3>2. file_openned => fop \in {"open", "write"}
      BY <2>3, <3>1 DEF Silent, HandOverInv, ControlInv
    <3> QED
      BY <2>1, <3>1, <3>2
  <2>4. CASE net = "body" /\ InProgress(<<>>, "ended", FALSE)
    <3>1. CASE net' = "ended" /\ timer' = "on"
      BY <2>1, <3>1
    <3>2. CASE finals' = finals + 1 /\ terminate_handles(file', file_openned', file_operation_started')
      <4>1. net' = "closed"
        BY <3>2, FailureReleases
      <4>2. finals' # 0
        BY <3>2 DEF TypeInv, TypeOK
      <4> QED
        BY <2>1, <4>1, <4>2
    <3> QED
      BY <2>4, <3>1, <3>2 DEF InProgress
  <2> QED
    BY <1>8, <2>2, <2>3, <2>4 DEF EndOfStream
<1>9. CASE Shutdown
  <2>1. /\ UNCHANGED <<ret, receive_done, file_openned, fop>> /\ net = "shutdown"
        /\ net' = "closed" /\ ~socket_connected' /\ ret # "none"
    BY <1>9 DEF Shutdown, fileVars
  <2>2. CASE Tick("Redirect") \/ Tick("Done")
    BY <2>1, <2>2 DEF Tick, Final, TypeInv, TypeOK
  <2>3. CASE receive_done /\ file_openned /\ UNCHANGED finals
    BY <2>1, <2>3
  <2> QED
    BY <1>9, <2>2, <2>3 DEF Shutdown, on_shutdown, update_status
<1>10. CASE ShutdownError
  BY <1>10, "shutdown_error" \notin Adversity DEF ShutdownError
<1>11. CASE FileOpened \/ FileWritten
  <2>1. UNCHANGED ret /\ ret # "none" /\ fop \in {"open", "write"} /\ on_write(buffer')
    BY <1>11 DEF FileOpened, FileWritten, statusVars, dataVars, BeforeRun
  <2>2. CASE FileRequested(buffer')
    <3>1. UNCHANGED <<net, timer, receive_done, socket_connected, finals>>
      BY <1>11, <2>2 DEF FileOpened, FileWritten, FileRequested, statusVars, ownerVars
    <3>2. finals = 0 /\ ret = "started" /\ net = "closed" => file_openned'
      BY <1>11 DEF FileOpened, FileWritten
    <3>3. receive_done => fop' \in {"write", "close"}
      BY <2>2 DEF FileRequested
    <3> QED
      BY <2>1, <3>1, <3>2, <3>3
  <2> QED
    BY <1>1, <2>1, <2>2, WriteCases
<1>12. CASE FileClosed
  <2>1. /\ UNCHANGED <<ret, net, timer, receive_done, socket_connected>> /\ ~file_openned'
        /\ receive_done /\ ret # "none"
    BY <1>12 DEF FileClosed, statusVars, BeforeRun, HandOverInv, ControlInv
  <2>2. CASE socket_connected /\ UNCHANGED finals
    BY <2>1, <2>2
  <2>3. CASE Tick("Done")
    BY <2>1, <2>3 DEF Tick, Final, TypeInv, TypeOK
  <2> QED
    BY <1>12, <2>2, <2>3 DEF FileClosed, on_close, update_status
<1>13. CASE FileUnlinked \/ OrphanOpened
  BY <1>13 DEF FileUnlinked, OrphanOpened, statusVars, fileVars, ownerVars
<1>13a. CASE ClashEnds \/ Rewritten
  BY <1>13a DEF ClashEnds, Rewritten, statusVars, fileVars, ownerVars
<1>14. CASE UNCHANGED vars
  BY <1>14 DEF vars
<1> QED
  BY <1>2, <1>3, <1>4, <1>5, <1>6, <1>7, <1>8, <1>9, <1>10, <1>11, <1>12, <1>13, <1>13a, <1>14
     DEF Next, NetStep, FileStep

(* As long as a started download has not told its owner the end, an event is due that leads
   on; only a response that ends without a body byte, and a shutdown that fails, leave a
   download that nothing will ever wake. *)
THEOREM AnswerIsDue ==
  ASSUME "silent_end" \notin Adversity, "shutdown_error" \notin Adversity
  PROVE  Spec => []AnswerIsAwaited
<1>1. Init => BeforeRun /\ PendingInv
  BY DEF Init, BeforeRun, PendingInv
<1>2. TypeInv /\ PendingInv => AnswerIsAwaited
  BY DEF TypeInv, TypeOK, PendingInv, AnswerIsAwaited, Steps
<1>3. TypeInv /\ BeforeRun /\ HandOverInv /\ PendingInv /\ [Next]_vars => PendingInv'
  BY PendingNext
<1> QED
  BY <1>1, <1>2, <1>3, TypeInit, TypeNext, BeforeRunNext, HandOverInit, HandOverNext, PTL
     DEF Spec

-------------------------------------------------------------------------------
(* The file of a failed download. *)

(* Where the file is: it is on the disk and closed only once the connection is being closed
   too and nothing is left that could fail. *)
DiskInv ==
  /\ file_openned \/ fop \in {"open", "write"} => file
  /\ net \in {"shutdown", "closed"} => timer = "gone"
  /\ disk = "exists" /\ ~file_openned
       => net \in {"shutdown", "closed"} /\ fop = "none"
  /\ fop \notin {"orphan", "clash", "rewrite"}
  /\ told = "Failed" => finals > 0 /\ net = "closed" /\ fop \in {"none", "unlink"}
                        /\ (disk = "exists" => fop = "unlink")

(* A failure removes the file, if there is one. *)
LEMMA FailureRemoves ==
  ASSUME "cancel_refused" \notin Adversity, finals \in Nat,
         NEW present \in BOOLEAN, NEW openned \in BOOLEAN, NEW started,
         on_error(present, openned, started),
         disk' = "exists" => present /\ openned
  PROVE  /\ net' = "closed" /\ timer' = "gone" /\ fop' \in {"none", "unlink"}
         /\ disk' = "exists" => fop' = "unlink"
         /\ told' = "Failed" /\ finals' > 0
<1>1. /\ net' = "closed" /\ timer' = "gone" /\ terminate_file(present, openned, started)
      /\ told' = "Failed" /\ finals' = finals + 1
  BY DEF on_error, update_status, Tick, Final, terminate_handles, terminate_connection
<1>2. fop' = IF present /\ openned THEN "unlink" ELSE "none"
  BY <1>1, "cancel_refused" \notin Adversity DEF terminate_file, Cancelled
<1> QED
  BY <1>1, <1>2

LEMMA DiskNext ==
  ASSUME "cancel_refused" \notin Adversity, "write_refused" \notin Adversity,
         "close_error" \notin Adversity, "late_stop" \notin Adversity
  PROVE  TypeInv /\ BeforeRun /\ HandOverInv /\ DiskInv /\ [Next]_vars => DiskInv'
<1> SUFFICES ASSUME TypeInv, BeforeRun, HandOverInv, DiskInv, [Next]_vars PROVE DiskInv'
  OBVIOUS
<1>0. /\ file_openned \in BOOLEAN /\ file \in BOOLEAN /\ finals \in Nat
  BY DEF TypeInv, TypeOK
<1>1. ASSUME NEW present \in BOOLEAN, NEW openned \in BOOLEAN, NEW started,
             on_error(present, openned, started),
             disk' = "exists" => present /\ openned,
             file_openned' => file', disk' = "exists" => file_openned'
      PROVE  DiskInv'
  BY <1>0, <1>1, FailureRemoves DEF DiskInv
<1>2. CASE RunRefused
  BY <1>2 DEF RunRefused, fileVars, ownerVars, BeforeRun, DiskInv
<1>3. CASE RunStarted
  BY <1>3 DEF RunStarted, fileVars, ownerVars, BeforeRun, DiskInv
<1>4. CASE Stop \/ NetworkError \/ Timeout \/ FileError
  <2>1. UNCHANGED <<disk, file_openned, file>> /\ \E started : on_error(file, file_openned, started)
    BY <1>4 DEF Stop, NetworkError, Timeout, FileError, Fail, fileVars
  <2>2. ~(disk = "exists" /\ ~file_openned)
    <3>1. CASE Stop
      BY <3>1, "late_stop" \notin Adversity DEF Stop
    <3>2. CASE NetworkError
      BY <3>2 DEF NetworkError, DiskInv
    <3>3. CASE Timeout
      BY <3>3 DEF Timeout, DiskInv
    <3>4. CASE FileError
      BY <3>4 DEF FileError, DiskInv
    <3> QED
      BY <1>4, <3>1, <3>2, <3>3, <3>4
  <2>3. file_openned => file
    BY DEF DiskInv
  <2>4. disk \in {"absent", "exists"}
    BY DEF TypeInv, TypeOK
  <2> QED
    BY <1>0, <1>1, <2>1, <2>2, <2>3, <2>4
<1>5. CASE FileCloseError
  BY <1>5, "close_error" \notin Adversity DEF FileCloseError
<1>6. CASE on_resolve \/ on_connect \/ on_write_http_request
  <2>1. /\ UNCHANGED <<disk, file_openned, file>> /\ net \in {"resolve", "connect", "request"}
        /\ \E next \in {"connect", "request", "response"} : \E r : Issue(next, r)
    BY <1>6 DEF on_resolve, on_connect, on_write_http_request, fileVars
  <2>2. PICK next \in {"connect", "request", "response"} : \E r : Issue(next, r)
    BY <2>1
  <2>3. CASE Fail
    BY <1>0, <1>1, <2>1, <2>3 DEF Fail, DiskInv
  <2>4. CASE net' = next /\ UNCHANGED fop /\ update_status("OnTheGo")
    BY <2>1, <2>4 DEF DiskInv, update_status, Tick
  <2> QED
    BY <2>2, <2>3, <2>4 DEF Issue
<1>7. CASE on_read
  <2>1. PICK new \in Parsed :
           \/ /\ on_data(new)
              /\ \/ InProgress(new, "body", StillReading(new))
                 \/ new = <<>> /\ Redirected
                 \/ Completed(new)
                 \/ ParseFailed
           \/ FileRefused(new)
    BY <1>7, ReadCases
  <2>2. /\ UNCHANGED <<disk, file_openned>> /\ net \in {"response", "body"}
        /\ file' = (file \/ new # <<>>)
    BY <1>7, <2>1 DEF on_read, Reads, on_data, FileRefused, Received
  <2>3. /\ file_openned => file'
        /\ ~(disk = "exists" /\ ~file_openned) /\ told # "Failed"
        /\ file' \in BOOLEAN
    BY <1>0, <2>2 DEF DiskInv
  <2>4. /\ FileRequest(new) \in {"none", "open", "write"}
        /\ FileRequest(new) \in {"open", "write"} => file'
    BY <2>2, ParseRequests DEF DiskInv
  <2>4a. CASE FileRefused(new)
    <3>1. CASE on_error(TRUE, file_openned, FALSE)
      BY <1>0, <1>1, <2>2, <2>3, <3>1
    <3>2. CASE /\ WritesAgain(new) /\ update_status("Failed") /\ terminate_connection
               /\ fop' = "unlink"
      <4>1. told' = "Failed" /\ finals' > 0 /\ net' = "closed" /\ timer' = "gone" /\ file_openned
        BY <1>0, <3>2 DEF update_status, Tick, Final, terminate_connection, WritesAgain
      <4> QED
        BY <2>2, <2>3, <3>2, <4>1 DEF DiskInv
    <3> QED
      BY <2>4a, <3>1, <3>2, "write_refused" \notin Adversity DEF FileRefused
  <2>5. CASE ParseFailed
    BY <1>0, <1>1, <2>2, <2>3, <2>5 DEF ParseFailed
  <2>6. CASE InProgress(new, "body", StillReading(new))
    <3>1. CASE update_status("OnTheGo") /\ net' = "body" /\ fop' = FileRequest(new)
      BY <2>2, <2>3, <2>4, <3>1 DEF update_status, Tick, DiskInv
    <3>2. CASE told' = "OnTheGo" /\ terminate_handles(file', file_openned', file_operation_started')
      <4>1. net' = "closed" /\ timer' = "gone" /\ fop' \in {"none", "unlink"}
        BY <3>2, "cancel_refused" \notin Adversity
           DEF terminate_handles, terminate_connection, terminate_file, Cancelled
      <4> QED
        BY <2>2, <2>3, <3>2, <4>1 DEF DiskInv
    <3> QED
      BY <2>6, <3>1, <3>2 DEF InProgress
  <2>7. CASE new = <<>> /\ Redirected
    BY <2>2, <2>3, <2>7 DEF Redirected, close_handles, ownerVars, DiskInv
  <2>8. CASE Completed(new)
    BY <2>2, <2>3, <2>4, <2>8 DEF Completed, close_handles, ownerVars, DiskInv
  <2> QED
    BY <2>1, <2>4a, <2>5, <2>6, <2>7, <2>8
<1>8. CASE EndOfStream
  <2>1. UNCHANGED disk /\ net \in {"response", "body"}
    BY <1>8 DEF EndOfStream
  <2>2. ~(disk = "exists" /\ ~file_openned) /\ told # "Failed" /\ (file_openned => file)
    BY <2>1 DEF DiskInv
  <2>3. CASE Fail /\ UNCHANGED fileVars
    BY <1>0, <1>1, <2>1, <2>2, <2>3 DEF Fail, fileVars
  <2>4. CASE on_data(<<>>) /\ ParseFailed
    <3>1. UNCHANGED file_openned /\ file' = file
      BY <1>0, <2>4 DEF on_data, Received
    <3> QED
      BY <1>0, <1>1, <2>1, <2>2, <2>4, <3>1 DEF ParseFailed
  <2>5. CASE on_data(<<>>) /\ Completed(<<>>)
    <3>1. UNCHANGED <<file_openned, fop, told, finals>> /\ file' = file
      BY <1>0, <2>5 DEF on_data, Received, Completed, FileRequest, Requests, ownerVars
    <3> QED
      BY <2>1, <2>2, <2>5, <3>1 DEF Completed, close_handles, DiskInv
  <2>6. CASE on_data(<<>>) /\ InProgress(<<>>, "ended", FALSE)
    <3>1. UNCHANGED file_openned /\ file' = file /\ FileRequest(<<>>) = fop
      BY <1>0, <2>6 DEF on_data, Received, FileRequest, Requests
    <3>2. CASE update_status("OnTheGo") /\ net' = "ended" /\ fop' = FileRequest(<<>>)
      BY <2>1, <2>2, <3>1, <3>2 DEF update_status, Tick, DiskInv
    <3>3. CASE told' = "OnTheGo" /\ terminate_handles(file', file_openned', file_operation_started')
      <4>1. net' = "closed" /\ timer' = "gone" /\ fop' \in {"none", "unlink"}
        BY <3>3, "cancel_refused" \notin Adversity
           DEF terminate_handles, terminate_connection, terminate_file, Cancelled
      <4> QED
        BY <2>1, <2>2, <3>1, <3>3, <4>1 DEF DiskInv
    <3> QED
      BY <2>6, <3>2, <3>3 DEF InProgress
  <2> QED
    BY <1>8, <2>3, <2>4, <2>5, <2>6 DEF EndOfStream
<1>9. CASE Shutdown
  <2>1. /\ UNCHANGED <<file, file_openned, fop, disk, timer>> /\ net = "shutdown" /\ net' = "closed"
        /\ told # "Failed"
    BY <1>9 DEF Shutdown, fileVars, DiskInv
  <2>2. told' # "Failed"
    BY <1>9, <2>1 DEF Shutdown, on_shutdown, update_status, Tick
  <2> QED
    BY <2>1, <2>2 DEF DiskInv
<1>10. CASE ShutdownError
  BY <1>10 DEF ShutdownError, fileVars, ownerVars, DiskInv
<1>10a. ASSUME NEW q, on_write(q), ~FileRequested(q),
               disk' = "exists" => file_openned', file = TRUE
        PROVE  DiskInv'
  <2>1. on_error(TRUE, TRUE, FALSE) /\ file' = file
    BY <1>10a, "close_error" \notin Adversity DEF on_write, WriteRefused, CloseRefused
  <2> QED
    BY <1>1, <1>10a, <2>1
<1>11. CASE /\ FileOpened \/ FileWritten
            /\ FileRequested(buffer')
  <2>1. /\ UNCHANGED <<file, net, timer, told>> /\ fop \in {"open", "write"}
        /\ fop' \in {"write", "close", "none"}
    BY <1>11 DEF FileOpened, FileWritten, FileRequested, ownerVars
  <2>2. told # "Failed"
    BY <2>1 DEF DiskInv
  <2>3. CASE FileOpened
    BY <2>1, <2>2, <2>3 DEF FileOpened, DiskInv
  <2>4. CASE FileWritten
    BY <2>1, <2>2, <2>4 DEF FileWritten, DiskInv
  <2> QED
    BY <1>11, <2>3, <2>4
<1>11a. CASE FileOpened \/ FileWritten
  <2>1. /\ on_write(buffer') /\ fop \in {"open", "write"}
        /\ disk' = "exists" => file_openned'
    <3>1. CASE FileOpened
      BY <3>1 DEF FileOpened, dataVars
    <3>2. CASE FileWritten
      BY <3>2 DEF FileWritten, DiskInv
    <3> QED
      BY <1>11a, <3>1, <3>2
  <2>2. file = TRUE
    BY <1>11a, <2>1, <1>0 DEF FileOpened, FileWritten, DiskInv
  <2> QED
    BY <1>10a, <1>11, <1>11a, <2>1, <2>2
<1>12. CASE FileClosed
  <2>1. /\ UNCHANGED <<net, timer, file, disk>> /\ ~file_openned' /\ fop' = "none"
        /\ net \in {"shutdown", "closed"} /\ told # "Failed"
    BY <1>12 DEF FileClosed, HandOverInv, ControlInv, DiskInv
  <2>2. told' # "Failed"
    BY <1>12, <2>1 DEF FileClosed, on_close, update_status, Tick
  <2> QED
    BY <2>1, <2>2 DEF DiskInv
<1>13. CASE FileUnlinked
  BY <1>13 DEF FileUnlinked, fileVars, ownerVars, DiskInv
<1>14. CASE OrphanOpened \/ ClashEnds \/ Rewritten
  BY <1>14 DEF OrphanOpened, ClashEnds, Rewritten, DiskInv
<1>15. CASE UNCHANGED vars
  BY <1>15 DEF vars, DiskInv
<1> QED
  BY <1>2, <1>3, <1>4, <1>5, <1>6, <1>7, <1>8, <1>9, <1>10, <1>11a, <1>12, <1>13, <1>14,
     <1>15 DEF Next, NetStep, FileStep

(* When a download that has failed has a file on the disk, the close is in flight whose
   handler unlinks it.  The file of a failed download can stay if a running request refuses to
   be cancelled (its object is then asked to close the file while it is busy), if a write is
   made over that close, if the close of the complete file fails, and if the download is
   stopped after its file is closed. *)
THEOREM FailedFilesGo ==
  ASSUME "cancel_refused" \notin Adversity, "write_refused" \notin Adversity,
         "close_error" \notin Adversity, "late_stop" \notin Adversity
  PROVE  Spec => []FailedFileGoes
<1>1. Init => BeforeRun /\ DiskInv
  BY DEF Init, BeforeRun, DiskInv
<1>2. DiskInv => FailedFileGoes
  BY DEF DiskInv, FailedFileGoes
<1>3. TypeInv /\ BeforeRun /\ HandOverInv /\ DiskInv /\ [Next]_vars => DiskInv'
  BY DiskNext
<1> QED
  BY <1>1, <1>2, <1>3, TypeInit, TypeNext, BeforeRunNext, HandOverInit, HandOverNext, PTL
     DEF Spec
===============================================================================
