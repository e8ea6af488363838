------------------------------ MODULE Downloader ------------------------------
(***************************************************************************)
(* DownloaderSimple (include/downloader_simple.h): one download, driven by *)
(* the callbacks of the event loop.  The socket, the timer, the resolver   *)
(* and the file request are the environment: each step below is one event  *)
(* the loop delivers, and it runs the whole handler the downloader has     *)
(* registered for it.                                                      *)
(*                                                                         *)
(* A definition with a suffix (StillReading_NoStop) is a mutated form of   *)
(* the definition after it: one of the properties fails with it.           *)
(*                                                                         *)
(* Data are byte positions: the body is the bytes 0, 1, 2, ... and a chunk *)
(* is the half-open interval of positions it carries.                      *)
(***************************************************************************)
EXTENDS Naturals, Sequences

CONSTANTS Backlog,    \* chunks queued before the socket is stopped (10 in the code)
          Sizes,      \* bound: lengths of one body callback of the parser
          MaxReads,   \* bound: data events the server can cause
          Adversity   \* which of the troubles below the environment may cause

(***************************************************************************)
(* The troubles that break one of the downloader's promises.  Everything   *)
(* else that can fail (lookup, connection, request, response, timeouts,    *)
(* every file request) may always fail.                                    *)
(***************************************************************************)
Adversities ==
  { "early_shutdown",  \* ShutdownEvent overtakes the completion of the file open
    "silent_end",      \* the response ends in a read that carries no body byte,
                       \* while no file request is in flight
    "shutdown_error",  \* the shutdown request fails
    "timer_error",     \* restarting the timer while receiving fails at once
    "cancel_refused",  \* a file request that is already running cannot be cancelled
    "write_refused",   \* one write is refused at once and the next one is not, in one parse
    "close_error",     \* closing the finished file fails
    "late_stop" }      \* stop() after the file is closed, before ShutdownEvent

ASSUME BacklogAssumption   == Backlog \in Nat \ {0}
ASSUME SizesAssumption     == Sizes \subseteq Nat \ {0}
ASSUME MaxReadsAssumption  == MaxReads \in Nat
ASSUME AdversityAssumption == Adversity \subseteq Adversities

VARIABLES
  \* DownloaderSimple's own fields
  ret,                     \* what run() answered
  state,                   \* m_status.state
  receive_done,
  socket_connected,
  file,                    \* the file request object exists
  file_openned,
  file_operation_started,
  downloaded,              \* m_status.downloaded
  offset_file,
  buffer,                  \* the queue of chunks: intervals [from, to)
  \* what the environment owes: which handlers wait for what
  net,                     \* the network step whose event is awaited
  timer,                   \* "off", "on" or "gone"
  reading,                 \* socket->active()
  reads,                   \* data events so far (bound)
  fop,                     \* the file request in flight
  disk,                    \* whether the target file is on the disk
  \* what the owner saw
  told,                    \* state of the last on_tick->invoke
  finals                   \* how many final notifications

statusVars == <<ret, receive_done, socket_connected>>
fileVars   == <<file, file_openned, file_operation_started>>
dataVars   == <<downloaded, offset_file, buffer>>
ownerVars  == <<told, finals>>
vars == <<ret, state, receive_done, socket_connected, file, file_openned,
          file_operation_started, downloaded, offset_file, buffer,
          net, timer, reading, reads, fop, disk, told, finals>>

States   == {"Init", "OnTheGo", "Done", "Failed", "Redirect"}
Final    == {"Done", "Failed", "Redirect"}
\* "ended": the server has sent all it ever will, and the response is not complete
Steps    == {"unset", "resolve", "connect", "request", "response", "body", "ended",
             "shutdown", "closed"}
\* "unlink": the close that terminate_handles asks for, and the unlink after it
\* "orphan": an open that nobody waits for any more
\* "clash", "rewrite": a second request is made of a file object whose first is running
FileOps  == {"none", "open", "write", "close", "unlink", "orphan", "clash", "rewrite"}
Chunk    == { c \in [from : Nat, to : Nat] : c.from < c.to }

Init == /\ ret = "none" /\ state = "Init"
        /\ receive_done = FALSE /\ socket_connected = FALSE
        /\ file = FALSE /\ file_openned = FALSE /\ file_operation_started = FALSE
        /\ downloaded = 0 /\ offset_file = 0 /\ buffer = <<>>
        /\ net = "unset" /\ timer = "off" /\ reading = FALSE /\ reads = 0
        /\ fop = "none" /\ disk = "absent"
        /\ told = "none" /\ finals = 0

-------------------------------------------------------------------------------
(* Notifying the owner, and failing. *)

\* on_tick->invoke with state s; on the final states the owner forgets the job
Tick(s) == /\ told' = s
           /\ finals' = finals + (IF s \in Final THEN 1 ELSE 0)

update_status(s) == state' = s /\ Tick(s)

\* what cancelling the request in flight leaves: `dropped`, or, when a worker already
\* runs the request, `refused`
Cancelled(dropped, refused) ==
  {dropped} \cup (IF "cancel_refused" \in Adversity THEN {refused} ELSE {})

\* the file part of terminate_handles, where `present` is whether the file request object
\* exists, and the others are file_openned and file_operation_started: the request in
\* flight is cancelled, and an open file is closed with that same object
terminate_file_NoCancel(present, openned, started) ==
  IF started THEN UNCHANGED fop
  ELSE IF present /\ openned THEN fop' = "unlink" ELSE fop' = "none"
terminate_file_OnlyBusy(present, openned, started) ==
  IF present /\ openned /\ started THEN fop' \in Cancelled("unlink", "clash")
  ELSE IF present /\ started THEN fop' \in Cancelled("none", "orphan")
  ELSE fop' = "none"
terminate_file(present, openned, started) ==
  IF ~present THEN fop' = "none"
  ELSE IF openned
  THEN fop' \in IF started THEN Cancelled("unlink", "clash") ELSE {"unlink"}
  ELSE fop' \in IF started THEN Cancelled("none", "orphan")  ELSE {"none"}

\* every handler is dropped, the socket and the timer are closed
terminate_connection == net' = "closed" /\ timer' = "gone" /\ reading' = FALSE

terminate_handles(present, openned, started) == /\ terminate_connection
                                                /\ terminate_file(present, openned, started)

on_error(present, openned, started) == /\ update_status("Failed")
                                       /\ terminate_handles(present, openned, started)

Fail == on_error(file, file_openned, file_operation_started)

-------------------------------------------------------------------------------
(* Starting. *)

\* run(): the URI, the socket, the timer or the resolver cannot be had, or the
\* lookup fails at once; nobody is notified
RunRefused == /\ ret = "none"
              /\ ret' = "refused" /\ state' = "Failed"
              /\ net' = "closed" /\ timer' = "gone"
              /\ UNCHANGED <<receive_done, socket_connected, fileVars, dataVars,
                             reading, reads, fop, disk, ownerVars>>

RunStarted == /\ ret = "none"
              /\ ret' = "started" /\ state' = "OnTheGo" /\ net' = "resolve"
              /\ UNCHANGED <<receive_done, socket_connected, fileVars, dataVars,
                             timer, reading, reads, fop, disk, ownerVars>>

\* a request is issued and the 5 s timer is started; if either fails at once, its
\* handler calls on_error inside this step
Issue(next, r) == \/ /\ update_status("OnTheGo")
                     /\ net' = next /\ timer' = "on" /\ reading' = r
                     /\ UNCHANGED fop
                  \/ Fail

on_resolve == /\ net = "resolve"
              /\ Issue("connect", FALSE)
              /\ UNCHANGED <<statusVars, fileVars, dataVars, reads, disk>>

on_connect == /\ net = "connect"
              /\ socket_connected' = TRUE
              /\ Issue("request", FALSE)
              /\ UNCHANGED <<ret, receive_done, fileVars, dataVars, reads, disk>>

on_write_http_request == /\ net = "request"
                         /\ Issue("response", TRUE)
                         /\ UNCHANGED <<statusVars, fileVars, dataVars, reads, disk>>

-------------------------------------------------------------------------------
(* Receiving.  on_data runs once for every body callback of one parse. *)

Run(from, len) == [from |-> from, to |-> from + len]

\* what one parse may hand to on_data: at most two callbacks (bound)
Parsed == {<<>>} \cup { <<Run(downloaded, a)>> : a \in Sizes }
                 \cup { <<Run(downloaded, a), Run(downloaded + a, b)>> :
                             a \in Sizes, b \in Sizes }

Upto(new) == IF new = <<>> THEN downloaded ELSE new[Len(new)].to

\* on_data: the socket is stopped when the backlog is reached
StillReading_NoStop(new) == reading
StillReading(new) == reading /\ (new = <<>> \/ Len(buffer \o new) < Backlog)

\* on_data: the file is opened on the first chunk, and an idle writer is woken
Requests_Unguarded(new) == new # <<>> /\ (file => file_openned)
Requests(new) == new # <<>> /\ (file => file_openned /\ ~file_operation_started)

OpStarted(new) == file_operation_started \/ Requests(new)
FileRequest(new) == IF ~Requests(new) THEN fop
                    ELSE IF fop # "none" THEN "clash"
                    ELSE IF file THEN "write" ELSE "open"

Received(new) == /\ downloaded' = Upto(new)
                 /\ buffer' = buffer \o new
                 /\ file' = (file \/ new # <<>>)
                 /\ UNCHANGED <<file_openned, offset_file>>

on_data(new) == Received(new) /\ file_operation_started' = OpStarted(new)

\* The file request of the first callback fails at once: its error handler runs on_error
\* inside the parse, and on_read returns.  A second callback then finds the file open and
\* no request flagged, and writes over the close that terminate_handles asked for.
WritesAgain(new) == file_openned /\ Len(new) > 1

FileRefused(new) ==
  /\ Requests(new)
  /\ Received(new)
  /\ file_operation_started' = WritesAgain(new)
  /\ \/ ~WritesAgain(new) /\ on_error(TRUE, file_openned, FALSE)
     \/ /\ WritesAgain(new)
        /\ update_status("Failed") /\ terminate_connection
        /\ fop' \in {"unlink"} \cup
                     (IF "write_refused" \in Adversity THEN {"rewrite"} ELSE {})

\* close_handles: the timer is closed, only ShutdownEvent is awaited
close_handles == net' = "shutdown" /\ timer' = "gone" /\ reading' = FALSE

\* the timer is restarted, and next and r are what the server and the socket do now
InProgress(new, next, r) ==
  \/ /\ update_status("OnTheGo")
     /\ net' = next /\ timer' = "on"
     /\ reading' = r /\ fop' = FileRequest(new)
  \* the timer's error handler runs on_error inside start(), and then
  \* update_status goes on as if nothing had happened
  \/ /\ "timer_error" \in Adversity
     /\ state' = "OnTheGo" /\ told' = "OnTheGo" /\ finals' = finals + 1
     /\ terminate_handles(file', file_openned', file_operation_started')

Redirected == /\ downloaded = 0    \* the parser stops at the headers
              /\ close_handles
              /\ UNCHANGED <<state, ownerVars, fop>>

\* the writer has nothing to do and will not be woken by this parse
Silent(new) == new = <<>> /\ file_openned /\ ~file_operation_started

Completed(new) == /\ Silent(new) => "silent_end" \in Adversity
                  /\ close_handles
                  /\ fop' = FileRequest(new)
                  /\ UNCHANGED <<state, ownerVars>>

ParseFailed == on_error(file', file_openned', file_operation_started')

Reads == /\ net \in {"response", "body"} /\ reading
         /\ reads < MaxReads
         /\ reads' = reads + 1

\* DataEvent: the first one creates the parser, every one runs on_read
on_read ==
  /\ Reads
  /\ \E new \in Parsed :
        \/ /\ on_data(new)
           /\ \/ InProgress(new, "body", StillReading(new)) /\ UNCHANGED receive_done
              \/ new = <<>> /\ Redirected /\ UNCHANGED receive_done
              \/ Completed(new)   /\ receive_done' = TRUE
              \/ ParseFailed      /\ UNCHANGED receive_done
        \/ FileRefused(new) /\ UNCHANGED receive_done
  /\ UNCHANGED <<ret, socket_connected, disk>>

\* EndEvent: before any data an error, afterwards on_read(nullptr, 0), which ends the
\* message, is a parse error, or leaves the parser as it was, waiting for a response
EndOfStream ==
  /\ reading
  /\ \/ net = "response" /\ Fail /\ UNCHANGED <<receive_done, fileVars>>
     \/ net = "body" /\ on_data(<<>>) /\ Completed(<<>>) /\ receive_done' = TRUE
     \/ net = "body" /\ on_data(<<>>) /\ ParseFailed /\ UNCHANGED receive_done
     \/ net = "body" /\ on_data(<<>>) /\ InProgress(<<>>, "ended", FALSE)
                     /\ UNCHANGED receive_done
  /\ UNCHANGED <<ret, socket_connected, dataVars, reads, disk>>

-------------------------------------------------------------------------------
(* Network failures, timeouts and the user's break. *)

NetworkError == /\ \/ net \in {"resolve", "connect", "request"}
                   \/ net \in {"response", "body", "ended"} /\ reading
                /\ Fail
                /\ UNCHANGED <<statusVars, fileVars, dataVars, reads, disk>>

Timeout == /\ timer = "on"
           /\ Fail
           /\ UNCHANGED <<statusVars, fileVars, dataVars, reads, disk>>

\* stop(), which the owner calls only while it still has the job
Stop == /\ ret = "started" /\ finals = 0
        /\ "late_stop" \in Adversity \/ ~(disk = "exists" /\ ~file_openned)
        /\ Fail
        /\ UNCHANGED <<statusVars, fileVars, dataVars, reads, disk>>

-------------------------------------------------------------------------------
(* Closing the connection. *)

\* the callback close_handles was given: the redirect, or the end of the download
\* unless a file is still open
on_shutdown_Early == IF receive_done THEN update_status("Done")
                     ELSE update_status("Redirect")
on_shutdown_Never == IF ~receive_done THEN update_status("Redirect")
                     ELSE UNCHANGED <<state, told, finals>>
on_shutdown == IF ~receive_done THEN update_status("Redirect")
               ELSE IF ~file_openned THEN update_status("Done")
               ELSE UNCHANGED <<state, told, finals>>

Shutdown == /\ net = "shutdown"
            /\ fop = "open" => "early_shutdown" \in Adversity
            /\ net' = "closed" /\ socket_connected' = FALSE
            /\ on_shutdown
            /\ UNCHANGED <<ret, receive_done, fileVars, dataVars, timer, reading,
                           reads, fop, disk>>

\* close_handles dropped the error handler before it asked for the shutdown
ShutdownError == /\ net = "shutdown"
                 /\ "shutdown_error" \in Adversity
                 /\ net' = "closed"
                 /\ UNCHANGED <<statusVars, state, fileVars, dataVars, timer, reading,
                                reads, fop, disk, ownerVars>>

-------------------------------------------------------------------------------
(* The file. *)

\* on_write with queue q and receive_done as it is: write the front chunk, close the
\* finished file, or go idle and resume a stopped socket
Resume_Never == reading
Resume == TRUE

FileRequested(q) ==
  /\ \/ /\ q # <<>>
        /\ fop' = "write"
        /\ UNCHANGED <<file_operation_started, reading>>
     \/ /\ q = <<>> /\ receive_done
        /\ fop' = "close"
        /\ UNCHANGED <<file_operation_started, reading>>
     \/ /\ q = <<>> /\ ~receive_done
        /\ fop' = "none"
        /\ file_operation_started' = FALSE
        /\ reading' = Resume
  /\ UNCHANGED <<state, file, net, timer, ownerVars>>

\* the write or the close fails at once, and its error handler runs inside on_write
WriteRefused(q) == /\ q # <<>>
                   /\ file_operation_started' = FALSE
                   /\ on_error(TRUE, TRUE, FALSE)
                   /\ UNCHANGED file
CloseRefused(q) == /\ q = <<>> /\ receive_done
                   /\ "close_error" \in Adversity
                   /\ file_operation_started' = FALSE /\ file' = FALSE
                   /\ on_error(FALSE, TRUE, FALSE)

on_write(q) == FileRequested(q) \/ WriteRefused(q) \/ CloseRefused(q)

FileOpened == /\ fop = "open"
              /\ file_openned' = TRUE /\ disk' = "exists"
              /\ on_write(buffer)
              /\ UNCHANGED <<statusVars, dataVars, reads>>

\* what is left of the queue once n bytes of its front chunk are on the disk
Advance_Whole(n) == Tail(buffer)
Advance_Late(n) ==
  LET c == Head(buffer)
  IN  IF c.from + n > c.to THEN Tail(buffer)
      ELSE [buffer EXCEPT ![1] = [from |-> c.from + n, to |-> c.to]]
Advance(n) ==
  LET c == Head(buffer)
  IN  IF c.from + n = c.to THEN Tail(buffer)
      ELSE [buffer EXCEPT ![1] = [from |-> c.from + n, to |-> c.to]]

Written == \E n \in 1 .. (Head(buffer).to - Head(buffer).from) :
              offset_file' = offset_file + n /\ buffer' = Advance(n)

FileWritten == /\ fop = "write"
               /\ Written
               /\ on_write(buffer')
               /\ UNCHANGED <<statusVars, file_openned, downloaded, reads, disk>>

on_close_Always == update_status("Done")
on_close == IF socket_connected THEN UNCHANGED <<state, told, finals>>
            ELSE update_status("Done")

\* Done is announced by whichever of the file and the connection closes last
FileClosed == /\ fop = "close"
              /\ fop' = "none"
              /\ file_operation_started' = FALSE /\ file_openned' = FALSE
              /\ on_close
              /\ UNCHANGED <<statusVars, file, dataVars, net, timer, reading, reads,
                             disk>>

\* the open or the write failed: its request is over, the file object stays
FileError == /\ fop \in {"open", "write"}
             /\ file_operation_started' = FALSE
             /\ on_error(file, file_openned, FALSE)
             /\ UNCHANGED <<statusVars, file, file_openned, dataVars, reads, disk>>

\* the close failed: the file object is dropped first, so nothing unlinks the file
FileCloseError == /\ fop = "close"
                  /\ "close_error" \in Adversity
                  /\ file_operation_started' = FALSE /\ file' = FALSE
                  /\ on_error(FALSE, file_openned, FALSE)
                  /\ UNCHANGED <<statusVars, file_openned, dataVars, reads, disk>>

\* the close that terminate_handles asked for, and the unlink its handler asks for
FileUnlinked == /\ fop = "unlink"
                /\ fop' = "none" /\ disk' = "absent"
                /\ UNCHANGED <<statusVars, state, fileVars, dataVars, net, timer,
                               reading, reads, ownerVars>>

OrphanOpened == /\ fop = "orphan"
                /\ fop' = "none" /\ disk' = "exists"
                /\ UNCHANGED <<statusVars, state, fileVars, dataVars, net, timer,
                               reading, reads, ownerVars>>

\* Two requests shared one file object, which is undefined: the handler that unlinks the
\* file is called or it is lost.  The handler of the second write is there as well.
ClashEnds == /\ fop \in {"clash", "rewrite"}
             /\ fop' \in {"unlink", "none"}
             /\ UNCHANGED <<statusVars, state, fileVars, dataVars, net, timer,
                            reading, reads, disk, ownerVars>>

Rewritten == /\ fop = "rewrite"
             /\ Written
             /\ \/ buffer' # <<>> /\ fop' \in {"rewrite", "unlink", "none"}
                                  /\ UNCHANGED file_operation_started
                \/ buffer' = <<>> /\ fop' \in {"unlink", "none"}
                                  /\ file_operation_started' = FALSE
             /\ UNCHANGED <<statusVars, state, file, file_openned, downloaded, net, timer,
                            reading, reads, disk, ownerVars>>

-------------------------------------------------------------------------------
NetStep  == on_resolve \/ on_connect \/ on_write_http_request \/ on_read
            \/ EndOfStream \/ NetworkError \/ Timeout \/ Shutdown \/ ShutdownError
FileStep == FileOpened \/ FileWritten \/ FileClosed \/ FileError \/ FileCloseError
            \/ FileUnlinked \/ OrphanOpened \/ ClashEnds \/ Rewritten
Next == RunRefused \/ RunStarted \/ Stop \/ NetStep \/ FileStep

\* The loop delivers what it owes: a request is answered or timed out, a file request
\* completes, a shutdown completes.  Nothing obliges the server to send anything.
Fairness == /\ WF_vars(on_resolve \/ (net = "resolve" /\ NetworkError))
            /\ WF_vars(Timeout)
            /\ WF_vars(Shutdown)
            /\ WF_vars(FileOpened \/ FileWritten \/ FileClosed)
            /\ WF_vars(FileUnlinked)

Spec == Init /\ [][Next]_vars /\ Fairness

-------------------------------------------------------------------------------
(* Properties. *)

(* Every field keeps its type; no chunk of the queue is empty, so a write request
   always has something to write (on_write, downloader_simple.h:370-374). *)
TypeOK == /\ ret \in {"none", "started", "refused"}
          /\ state \in States
          /\ receive_done \in BOOLEAN /\ socket_connected \in BOOLEAN
          /\ file \in BOOLEAN /\ file_openned \in BOOLEAN
          /\ file_operation_started \in BOOLEAN
          /\ downloaded \in Nat /\ offset_file \in Nat
          /\ buffer \in Seq(Chunk)
          /\ net \in Steps /\ timer \in {"off", "on", "gone"}
          /\ reading \in BOOLEAN /\ reads \in Nat
          /\ fop \in FileOps /\ disk \in {"absent", "exists"}
          /\ told \in States \cup {"none"} /\ finals \in Nat

Contiguous(q, first, last) ==
  /\ q = <<>> => first = last
  /\ q # <<>> => q[1].from = first /\ q[Len(q)].to = last
  /\ \A i \in 1 .. Len(q) - 1 : q[i].to = q[i + 1].from

(* The queue holds exactly the bytes received and not yet written, in order and
   without a gap, and its front is what belongs at offset_file: no partial write, no
   order of events loses, repeats or reorders a byte of the file. *)
QueueIsContiguous == Contiguous(buffer, offset_file, downloaded)

(* A file request in flight is always flagged in file_operation_started, the only thing
   on_data and terminate_handles look at before they issue the next request. *)
RequestIsFlagged == fop \in {"open", "write", "close"} => file_operation_started

(* While the socket reads there is room in the queue: on_data stops it when the backlog
   is reached, and on_write resumes it only when the queue is empty. *)
BacklogStopsReading == net = "body" /\ reading => Len(buffer) < Backlog

(* No lost wake-up between the network and the file: while the response is being
   received, queued data or a stopped socket has a file request in flight, whose
   completion writes the rest and resumes the socket. *)
WriterIsAwake == /\ net = "body" /\ ~reading => fop \in {"open", "write"}
                 /\ net \in {"body", "ended", "shutdown"} /\ buffer # <<>>
                       => fop \in {"open", "write"}

(* Done is announced only when the whole body is in the file and the file is closed
   (both callbacks that announce it, downloader_simple.h:289-293 and 335-342). *)
DoneMeansStored == told = "Done" => /\ buffer = <<>> /\ offset_file = downloaded
                                    /\ fop = "none" /\ ~file_openned

(* After the final notification the status the owner has read, and the file, are no
   longer changed: DashboardSimple has already counted the bytes. *)
FinalStatusIsFrozen ==
  [][finals > 0 => UNCHANGED <<state, told, finals, downloaded, offset_file>>]_vars

Contract == INSTANCE DownloaderContract

(* A started downloader notifies its owner of exactly one final state, after any
   progress, and of nothing afterwards; one whose run() answered false never does. *)
KeepsContract == Contract!Spec

(* The part of the contract that is a safety property: never a second final
   notification, nor any notification after one.  Unlike the whole contract it holds
   whatever else goes wrong, as long as the connection is not closed before the file
   is open and the timer can be restarted. *)
ToldOnce == Contract!Safe

(* Every download that was started comes to a final notification. *)
EveryDownloadEnds == (ret = "started") ~> (finals > 0)

(* A failed download leaves no part of its file behind (terminate_handles closes the
   file and its close handler unlinks it). *)
FailureLeavesNoFile == (told = "Failed") ~> [](disk = "absent")

(* No download is forgotten: as long as a started download has no final state the loop owes
   it something that is sure to come, the answer of the lookup, the timer, the completion of
   the shutdown or of a file request. *)
AnswerIsAwaited ==
  ret = "started" /\ finals = 0
    => net \in {"resolve", "shutdown"} \/ timer = "on" \/ fop \in {"open", "write", "close"}

(* A file object is never asked for a second request while one is running: every byte
   callback, every completion and every failure makes its request only when the last one is
   over (uvw gives one uv request per file object, downloader_simple.h:313, 374, 429). *)
OneRequestAtATime == fop \notin {"clash", "rewrite"}

(* The completion of an open or of a write finds the socket it may have to resume: before
   the response is complete the connection is not being shut down, nor is it gone
   (on_write, downloader_simple.h:347, after the reset in line 443). *)
ResumeHasSocket == fop \in {"open", "write"} /\ ~receive_done => net \in {"body", "ended"}

(* When a download has failed and its file is on the disk, its removal is under way. *)
FailedFileGoes == told = "Failed" /\ disk = "exists" => fop = "unlink"
===============================================================================
