--------------------------------- MODULE Jobs ---------------------------------
(***************************************************************************)
(* The job list and everything that changes it: main (main.cpp), the       *)
(* notifications of the downloaders (src/on_tick_simple.cpp), the factory  *)
(* (include/factory_simple.h), the task list (src/task_simple.cpp) and the *)
(* dashboard (include/dashboard_simple.h).                                 *)
(*                                                                         *)
(* A downloader is here what DownloaderContract says: once run() has       *)
(* answered true it makes one final notification.  Progress changes        *)
(* nothing in this module and is left out, and so are the job numbers,     *)
(* which are only printed.                                                 *)
(*                                                                         *)
(* A definition with a suffix (TooMany_Late) is a mutated form of the      *)
(* definition after it: one of the properties fails with it.               *)
(***************************************************************************)
EXTENDS Naturals, Sequences, FiniteSets, Functions

CONSTANTS NTasks,       \* lines of the task file that hold a link and a name
          Concurrency,  \* option -n
          MaxRedirect,  \* 10 in the code
          Bytes,        \* bound: what one download may transfer
          StartFails,   \* whether run() may answer false in the start loop of main
          Unreliable    \* whether a downloader may notify again after its final state

ASSUME TasksAssumption == /\ NTasks \in Nat /\ Concurrency \in Nat
                          /\ MaxRedirect \in Nat /\ Bytes \subseteq Nat
                          /\ StartFails \in BOOLEAN /\ Unreliable \in BOOLEAN

VARIABLES
  pc,               \* main: "start", "loop", "break" (in the signal handler), "exit" or
                    \* "crash" (an exception nobody catches)
  slot,             \* the start loop's counter
  stopping,         \* downloader_list: what the signal handler has still to stop
  next,             \* the task the task list will give next
  job_list,
  factory,          \* main still holds the factory, so weak_factory can be locked
  life,             \* of each downloader made: "refused", "running" or "over"
  done_tasks, total_downloaded,
  \* history
  fate,             \* of each task: "waiting", "running", "done" or "failed"
  size,             \* bytes of each finished task
  tries,            \* downloaders made for each task
  broken            \* the user has interrupted the program

taskVars  == <<next, life, job_list, fate, tries>>
boardVars == <<done_tasks, total_downloaded, size>>
vars == <<pc, slot, stopping, factory, broken, taskVars, boardVars>>

Tasks == 1 .. NTasks

Init == /\ pc = "start" /\ slot = 1 /\ stopping = <<>> /\ next = 1
        /\ job_list = <<>> /\ factory = TRUE /\ life = <<>>
        /\ done_tasks = 0 /\ total_downloaded = 0
        /\ fate = [t \in Tasks |-> "waiting"] /\ size = [t \in Tasks |-> 0]
        /\ tries = [t \in Tasks |-> 0] /\ broken = FALSE

Job(t, d) == [task |-> t, redirect_count |-> 0, downloader |-> d]

Without_Kept(i) == job_list
Without_WhenFactory(i) ==
  IF factory THEN SubSeq(job_list, 1, i - 1) \o SubSeq(job_list, i + 1, Len(job_list))
  ELSE job_list
Without(i) == SubSeq(job_list, 1, i - 1) \o SubSeq(job_list, i + 1, Len(job_list))

Over(job) == [life EXCEPT ![job.downloader] = "over"]

-------------------------------------------------------------------------------
(* main: the start loop makes at most Concurrency attempts. *)

\* the loop ends with the counter or with the tasks
EnterLoop == /\ pc = "start" /\ (slot > Concurrency \/ next > NTasks)
             /\ pc' = "loop"
             /\ UNCHANGED <<slot, stopping, factory, broken, taskVars, boardVars>>

\* one turn: a task whose download starts becomes a job; one whose download does not
\* is dropped, and the turn is over all the same
StartTurn(ok) == /\ pc = "start" /\ slot <= Concurrency /\ next <= NTasks
                 /\ slot' = slot + 1 /\ next' = next + 1
                 /\ life' = Append(life, IF ok THEN "running" ELSE "refused")
                 /\ job_list' = IF ok THEN Append(job_list, Job(next, Len(life) + 1))
                                ELSE job_list
                 /\ fate' = [fate EXCEPT ![next] = IF ok THEN "running" ELSE "failed"]
                 /\ tries' = [tries EXCEPT ![next] = 1]
                 /\ UNCHANGED <<pc, stopping, factory, broken, boardVars>>

Starting == EnterLoop \/ StartTurn(TRUE) \/ (StartFails /\ StartTurn(FALSE))

-------------------------------------------------------------------------------
(* OnTickSimple. *)

\* the loop of next_task tries the tasks from `next` to `upto`; all but the last one
\* are refused, and the last one too when `found` is false
Attempts_OneTry == IF next > NTasks THEN {[upto |-> NTasks, found |-> FALSE]}
                   ELSE { [upto |-> next, found |-> b] : b \in BOOLEAN }
Attempts == { [upto |-> t, found |-> TRUE] : t \in next .. NTasks }
            \cup {[upto |-> NTasks, found |-> FALSE]}

\* next_task, where `rest`, `f` and `lives` are what the notification has made of the
\* job list, of the fates and of the downloaders
NextTask(rest, f, lives) ==
  IF ~factory
  THEN /\ job_list' = rest /\ fate' = f /\ life' = lives
       /\ UNCHANGED <<next, tries>>
  ELSE \E a \in Attempts :
         LET tried  == next .. a.upto
             starts == [k \in 1 .. Cardinality(tried) |->
                          IF a.found /\ next + k - 1 = a.upto THEN "running"
                          ELSE "refused"]
         IN  /\ next' = a.upto + 1
             /\ life' = lives \o starts
             /\ job_list' = IF a.found THEN Append(rest, Job(a.upto, Len(life')))
                            ELSE rest
             /\ fate' = [t \in Tasks |-> IF t \notin tried THEN f[t]
                                         ELSE IF a.found /\ t = a.upto THEN "running"
                                         ELSE "failed"]
             /\ tries' = [t \in Tasks |-> IF t \in tried THEN 1 ELSE tries[t]]

\* DashboardSimple::update on a final state s of task t
Counted_Any(s) == TRUE
Counted(s) == s = "done"

update(t, s, n) == IF Counted(s)
                   THEN /\ done_tasks' = done_tasks + 1
                        /\ total_downloaded' = total_downloaded + n
                        /\ size' = [size EXCEPT ![t] = n]
                   ELSE UNCHANGED boardVars

\* invoke with Done or Failed: the job is gone, and makes room for the next task
Ended(i, s, n) ==
  LET job == job_list[i]
  IN  /\ update(job.task, s, n)
      /\ NextTask(Without(i), [fate EXCEPT ![job.task] = s], Over(job))

TooMany_Late(count) == count > MaxRedirect + 1
TooMany(count) == count > MaxRedirect

\* invoke with Redirect: a new downloader for the same job, if it may have one more and
\* the new one starts; without a factory the job is only erased, as NextTask does
Redirect(i) ==
  LET job   == job_list[i]
      count == job.redirect_count + 1
      lost  == [fate EXCEPT ![job.task] = "failed"]
  IN  /\ update(job.task, "redirect", 0)
      /\ \/ /\ TooMany(count) \/ ~factory
            /\ NextTask(Without(i), lost, Over(job))
         \/ /\ ~TooMany(count) /\ factory
            /\ life' = Append(Over(job), "running")
            /\ job_list' = [job_list EXCEPT ![i].redirect_count = count,
                                            ![i].downloader = Len(life')]
            /\ tries' = [tries EXCEPT ![job.task] = @ + 1]
            /\ UNCHANGED <<next, fate>>
         \/ /\ ~TooMany(count) /\ factory
            /\ NextTask(Without(i), lost, Append(Over(job), "refused"))

\* invoke with a final state, from the loop; the job is found by its downloader
Notified(i) == /\ pc = "loop" /\ life[job_list[i].downloader] = "running"
               /\ \/ \E n \in Bytes : Ended(i, "done", n)
                  \/ \E n \in Bytes : Ended(i, "failed", n)
                  \/ Redirect(i)
               /\ UNCHANGED <<pc, slot, stopping, factory, broken>>

\* a downloader that has no job any more notifies again: find_job throws
NotifiedAgain == /\ pc \in {"loop", "exit"} /\ Unreliable
                 /\ \E d \in DOMAIN life : life[d] = "over"
                 /\ pc' = "crash"
                 /\ UNCHANGED <<slot, stopping, factory, broken, taskVars, boardVars>>

-------------------------------------------------------------------------------
(* main: the user's break, and the end. *)

FactoryAfterBreak_Kept == factory
FactoryAfterBreak == FALSE

\* SIGINT, once: the downloaders of the jobs are listed and the factory is dropped
Break == /\ pc = "loop" /\ ~broken
         /\ broken' = TRUE /\ factory' = FactoryAfterBreak
         /\ pc' = "break"
         /\ stopping' = [i \in DOMAIN job_list |-> job_list[i].downloader]
         /\ UNCHANGED <<slot, taskVars, boardVars>>

\* the signal handler stops the next one, which notifies that it failed
StopNext == /\ pc = "break" /\ stopping # <<>>
            /\ stopping' = Tail(stopping)
            /\ \E i \in DOMAIN job_list :
                  /\ job_list[i].downloader = Head(stopping)
                  /\ Ended(i, "failed", 0)
            /\ UNCHANGED <<pc, slot, factory, broken>>

EndBreak == /\ pc = "break" /\ stopping = <<>>
            /\ pc' = "loop"
            /\ UNCHANGED <<slot, stopping, factory, broken, taskVars, boardVars>>

\* the idle handler lets the loop end when there are no jobs
Exit == /\ pc = "loop" /\ job_list = <<>>
        /\ pc' = "exit"
        /\ UNCHANGED <<slot, stopping, factory, broken, taskVars, boardVars>>

Breaking == StopNext \/ EndBreak

Next == \/ Starting \/ Break \/ Breaking \/ Exit \/ NotifiedAgain
        \/ \E i \in DOMAIN job_list : Notified(i)

\* main and the signal handler run on, the idle handler is called in every turn of the
\* loop, and every downloader ends
Spec == /\ Init /\ [][Next]_vars
        /\ WF_vars(Starting) /\ WF_vars(Breaking) /\ WF_vars(Exit)
        /\ WF_vars(\E i \in DOMAIN job_list : Notified(i))

-------------------------------------------------------------------------------
(* Properties. *)

Fates == {"waiting", "running", "done", "failed"}

(* Every variable keeps its type; a job in the list has had no more redirects than
   OnTickSimple::redirect allows. *)
TypeOK == /\ pc \in {"start", "loop", "break", "exit", "crash"}
          /\ slot \in Nat /\ next \in Nat /\ factory \in BOOLEAN /\ broken \in BOOLEAN
          /\ stopping \in Seq(Nat)
          /\ job_list \in Seq([task : Tasks, redirect_count : 0 .. MaxRedirect,
                               downloader : Nat])
          /\ life \in Seq({"refused", "running", "over"})
          /\ done_tasks \in Nat /\ total_downloaded \in Nat
          /\ fate \in [Tasks -> Fates] /\ size \in [Tasks -> Nat]
          /\ tries \in [Tasks -> Nat]

(* The job list and the downloaders agree: every job has a running downloader and a
   running task of its own, and no running downloader and no running task is without
   its job (so find_job finds it, and nothing the user waits for is forgotten). *)
JobsAreAlive ==
  LET jobs == DOMAIN job_list
  IN  /\ \A i, j \in jobs : i # j => /\ job_list[i].task # job_list[j].task
                                     /\ job_list[i].downloader # job_list[j].downloader
      /\ { job_list[i].downloader : i \in jobs }
            = { d \in DOMAIN life : life[d] = "running" }
      /\ { job_list[i].task : i \in jobs } = { t \in Tasks : fate[t] = "running" }

(* Never more simultaneous downloads than -n allows, through every refused start,
   redirect and failure. *)
ConcurrencyBound == Len(job_list) <= Concurrency

(* The statistics of the end: what the dashboard has counted is the number and the
   size of the downloads that are done, each once, redirected or not. *)
DashboardAgrees ==
  /\ done_tasks = Cardinality({ t \in Tasks : fate[t] = "done" })
  /\ total_downloaded = SumFunctionOnSet(size, { t \in Tasks : fate[t] = "done" })

(* A task is asked for at most MaxRedirect + 1 times: a cycle of redirects ends. *)
RedirectsBounded == \A t \in Tasks : tries[t] <= MaxRedirect + 1

(* After the user's break no download is started, although every stopped one reports a
   failure and failures start the next task. *)
NothingStartsAfterBreak == [][broken => Len(life') = Len(life)]_vars

(* The job list, the factory and the notifications together are the pool of JobPool: in
   every order of successes, failures, redirects, refusals and the break, tasks are
   taken in their order, no more than -n run, and a job that ends is replaced in the
   same notification as long as there are tasks (OnTickSimple::next_task). *)
Pool == INSTANCE JobPool WITH status <- fate, open <- ~broken, Capacity <- Concurrency
ImplementsPool == Pool!Spec

(* All the slots -n allows are used for as long as there are tasks for them. *)
SlotsAreUsed ==
  pc = "loop" /\ ~broken => Len(job_list) = Concurrency \/ next > NTasks

(* Precisely: there are never more downloads than -n allows, and before the break, and
   while there are tasks, there are as many as that less those that were refused in the
   start loop of main.  A slot lost there never comes back, and no refusal or redirect
   later loses another one. *)
RefusedAtStart == { d \in DOMAIN life : d < slot /\ life[d] = "refused" }
SlotsStayInUse ==
  /\ ConcurrencyBound
  /\ pc = "loop" /\ ~broken
       => Len(job_list) = Concurrency - Cardinality(RefusedAtStart) \/ next > NTasks

(* The break stops every download, each once: as long as the signal handler runs, what it
   has still to stop is what runs. *)
BreakStopsJobs ==
  pc = "break"
    => /\ \A i, j \in DOMAIN stopping : i # j => stopping[i] # stopping[j]
       /\ { stopping[i] : i \in DOMAIN stopping } = { d \in DOMAIN life : life[d] = "running" }

(* Every step of the program brings its end nearer: what is still to come is a natural
   number, of the downloads each task may have yet and of what main has yet to do, and no
   step leaves it as it is.  So there are finitely many steps, in every order of them. *)
TaskToCome(t) == CASE fate[t] = "waiting" -> MaxRedirect + 2
                   [] fate[t] = "running" -> MaxRedirect + 2 - tries[t]
                   [] OTHER -> 0
MainToCome == CASE pc = "start" -> 5
                [] pc = "loop" /\ ~broken -> 4
                [] pc = "break" -> 3
                [] pc = "loop" /\ broken -> 2
                [] pc = "exit" -> 1
                [] OTHER -> 0
ToCome == MainToCome + SumFunctionOnSet([t \in Tasks |-> TaskToCome(t)], Tasks)
EveryStepCounts == [][ToCome' < ToCome]_vars

(* The program that nobody interrupted ends only when every task was tried, if any
   download has started at all: one running job is enough to go through the list. *)
AllTasksProcessed ==
  pc = "exit" /\ ~broken /\ (\E d \in DOMAIN life : life[d] # "refused")
    => \A t \in Tasks : fate[t] \in {"done", "failed"}

(* The program ends, with or without the user's break; a downloader that notifies after
   its end makes it end with an exception. *)
ProgramEnds == <>(pc \in {"exit", "crash"})
===============================================================================
