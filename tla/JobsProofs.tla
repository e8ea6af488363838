------------------------------ MODULE JobsProofs ------------------------------
(***************************************************************************)
(* What Jobs promises for every number of tasks, every concurrency and     *)
(* every bound on redirects, whether downloads start or not.               *)
(***************************************************************************)
EXTENDS Jobs, SequenceTheorems, FiniteSetTheorems, TLAPS

Jobs_ == [task : Tasks, redirect_count : 0 .. MaxRedirect, downloader : Nat]
Lives == {"refused", "running", "over"}

-------------------------------------------------------------------------------
(* The sequences a notification makes. *)

(* The list without its i-th job. *)
LEMMA WithoutSeq ==
  ASSUME NEW S, job_list \in Seq(S), NEW i \in DOMAIN job_list
  PROVE  /\ Without(i) \in Seq(S)
         /\ Len(Without(i)) = Len(job_list) - 1
         /\ \A k \in 1 .. Len(job_list) - 1 :
               Without(i)[k] = IF k < i THEN job_list[k] ELSE job_list[k + 1]
<1> DEFINE n == Len(job_list)
           front == SubSeq(job_list, 1, i - 1)
           back  == SubSeq(job_list, i + 1, n)
<1>1. i \in 1 .. n /\ n \in Nat
  BY LenProperties
<1>2. /\ front \in Seq(S) /\ Len(front) = i - 1
      /\ \A k \in 1 .. i - 1 : front[k] = job_list[k]
  BY <1>1, SubSeqProperties
<1>3. /\ back \in Seq(S) /\ Len(back) = n - i
      /\ \A k \in 1 .. n - i : back[k] = job_list[i + k]
  BY <1>1, SubSeqProperties
<1> HIDE DEF front, back
<1>4. /\ front \o back \in Seq(S) /\ Len(front \o back) = Len(front) + Len(back)
      /\ \A k \in 1 .. Len(front) + Len(back) :
            (front \o back)[k] = IF k <= Len(front) THEN front[k] ELSE back[k - Len(front)]
  BY <1>2, <1>3, ConcatProperties
<1>5. Without(i) = front \o back
  BY DEF Without, front, back
<1>6. ASSUME NEW k \in 1 .. n - 1
      PROVE  Without(i)[k] = IF k < i THEN job_list[k] ELSE job_list[k + 1]
  <2>1. k \in 1 .. Len(front) + Len(back)
    BY <1>1, <1>2, <1>3
  <2>2. CASE k < i
    BY ONLY <2>1, <2>2, <1>1, <1>2, <1>4, <1>5
  <2>3. CASE k >= i
    <3>1. k - (i - 1) \in 1 .. n - i /\ ~(k <= i - 1) /\ i + (k - (i - 1)) = k + 1
      BY <2>3, <1>1
    <3>2. Without(i)[k] = back[k - (i - 1)]
      BY <3>1, <2>1, <1>2, <1>4, <1>5
    <3>3. back[k - (i - 1)] = job_list[i + (k - (i - 1))]
      BY <3>1, <1>3
    <3> QED
      BY <3>1, <3>2, <3>3, <2>3
  <2> QED
    BY <2>2, <2>3, <1>1
<1>7. Len(Without(i)) = n - 1
  BY ONLY <1>1, <1>2, <1>3, <1>4, <1>5
<1> QED
  BY <1>4, <1>5, <1>6, <1>7

(* A function on the first n numbers is a sequence. *)
LEMMA FunctionSeq ==
  ASSUME NEW S, NEW n \in Nat, NEW g \in [1 .. n -> S]
  PROVE  g \in Seq(S) /\ Len(g) = n
  OBVIOUS

\* the tasks up to `upto` are tried, and the last one starts if `found`
Taken(upto, found, rest, f, lives) ==
  /\ found => upto >= next
  /\ ~found => upto = NTasks
  /\ next' = upto + 1
  /\ life' \in Seq(Lives)
  /\ Len(life') = Len(lives) + (upto + 1 - next)
  /\ \A d \in 1 .. Len(lives) : life'[d] = lives[d]
  /\ \A d \in Len(lives) + 1 .. Len(life') :
       life'[d] = IF found /\ d = Len(life') THEN "running" ELSE "refused"
  /\ job_list' = IF found THEN Append(rest, Job(upto, Len(life'))) ELSE rest
  /\ fate' = [t \in Tasks |-> IF t \notin next .. upto THEN f[t]
                              ELSE IF found /\ t = upto THEN "running"
                              ELSE "failed"]
  /\ tries' = [t \in Tasks |-> IF t \in next .. upto THEN 1 ELSE tries[t]]

(* next_task without a factory only installs what the notification has made; with one it
   adds the downloaders it has tried, all but the last one refused, and a job for the last
   one if that has started. *)
LEMMA NextTaskEffect ==
  ASSUME next \in 1 .. NTasks + 1,
         NEW rest \in Seq(Jobs_), NEW f \in [Tasks -> Fates], NEW lives \in Seq(Lives),
         NextTask(rest, f, lives)
  PROVE  \/ /\ ~factory /\ job_list' = rest /\ fate' = f /\ life' = lives
            /\ UNCHANGED <<next, tries>>
         \/ /\ factory
            /\ \E upto \in next - 1 .. NTasks, found \in BOOLEAN :
                 Taken(upto, found, rest, f, lives)
<1>1. CASE ~factory
  BY <1>1 DEF NextTask
<1>2. CASE factory
  <2>1. PICK a \in Attempts :
          LET tried  == next .. a.upto
              starts == [k \in 1 .. Cardinality(tried) |->
                           IF a.found /\ next + k - 1 = a.upto THEN "running"
                           ELSE "refused"]
          IN  /\ next' = a.upto + 1
              /\ life' = lives \o starts
              /\ job_list' = IF a.found THEN Append(rest, Job(a.upto, Len(life')))
                             ELSE rest
              /\ fate' = [t \in Tasks |-> IF t \notin tried THEN f[t]
                                          ELSE IF a.found /\ t = a.upto THEN "running"
                                          ELSE "failed"]
              /\ tries' = [t \in Tasks |-> IF t \in tried THEN 1 ELSE tries[t]]
    BY <1>2 DEF NextTask
  <2> DEFINE u == a.upto
             m == u + 1 - next
             starts == [k \in 1 .. Cardinality(next .. u) |->
                          IF a.found /\ next + k - 1 = u THEN "running" ELSE "refused"]
  <2>2. /\ u \in next - 1 .. NTasks /\ a.found \in BOOLEAN
        /\ (a.found => u >= next) /\ (~a.found => u = NTasks)
    <3>1. CASE a \in { [upto |-> t, found |-> TRUE] : t \in next .. NTasks }
      <4>1. PICK t \in next .. NTasks : a = [upto |-> t, found |-> TRUE]
        BY <3>1
      <4> QED
        BY <4>1, TasksAssumption
    <3>2. CASE a = [upto |-> NTasks, found |-> FALSE]
      BY <3>2, TasksAssumption
    <3> QED
      BY <3>1, <3>2 DEF Attempts
  <2>3. m \in Nat /\ Cardinality(next .. u) = m
    <3>1. u \in Int /\ next \in Int /\ u >= next - 1
      BY <2>2, TasksAssumption
    <3>2. Cardinality(next .. u) = IF next > u THEN 0 ELSE u - next + 1
      BY <3>1, FS_Interval
    <3> QED
      BY <3>1, <3>2
  <2>4. starts \in Seq(Lives) /\ Len(starts) = m
    <3>1. starts \in [1 .. m -> Lives]
      BY <2>3 DEF Lives
    <3> HIDE DEF starts, m
    <3> QED
      BY <3>1, <2>3, FunctionSeq
  <2>9. \A k \in 1 .. m : starts[k] = IF a.found /\ next + k - 1 = u THEN "running"
                                     ELSE "refused"
    BY <2>3
  <2>10. life' = lives \o starts
    BY <2>1
  <2> HIDE DEF starts
  <2>5. /\ life' \in Seq(Lives) /\ Len(life') = Len(lives) + m
        /\ \A d \in 1 .. Len(lives) + m :
             life'[d] = IF d <= Len(lives) THEN lives[d] ELSE starts[d - Len(lives)]
    BY ONLY <2>10, <2>4, lives \in Seq(Lives), ConcatProperties
  <2>6. Len(lives) \in Nat
    BY LenProperties
  <2>7. \A d \in 1 .. Len(lives) : life'[d] = lives[d]
    BY <2>3, <2>5, <2>6
  <2>8. ASSUME NEW d \in Len(lives) + 1 .. Len(life')
        PROVE  life'[d] = IF a.found /\ d = Len(life') THEN "running" ELSE "refused"
    <3>1. d \in 1 .. Len(lives) + m /\ ~(d <= Len(lives)) /\ d - Len(lives) \in 1 .. m
      BY <2>3, <2>5, <2>6
    <3>2. next + (d - Len(lives)) - 1 = u <=> d = Len(life')
      <4>1. /\ u \in Int /\ next \in Int /\ Len(lives) \in Int /\ d \in Int
            /\ Len(life') = Len(lives) + (u + 1 - next)
        BY <2>2, <2>5, <2>6, <3>1, TasksAssumption
      <4> QED
        BY ONLY <4>1
    <3>3. life'[d] = starts[d - Len(lives)]
      BY <3>1, <2>5
    <3>4. starts[d - Len(lives)]
            = IF a.found /\ next + (d - Len(lives)) - 1 = u THEN "running" ELSE "refused"
      BY <3>1, <2>9
    <3> QED
      BY ONLY <3>2, <3>3, <3>4
  <2> QED
    BY <1>2, <2>1, <2>2, <2>3, <2>5, <2>7, <2>8 DEF Taken
<1> QED
  BY <1>1, <1>2

-------------------------------------------------------------------------------
(* Types, the number of jobs, and the break. *)

(* What every state keeps: in the start loop there are fewer jobs than turns begun; after
   the break, and only then, main holds the factory no more. *)
JobInv == /\ TypeOK
          /\ next \in 1 .. NTasks + 1
          /\ pc = "start" => slot <= Concurrency + 1 /\ Len(job_list) < slot /\ ~broken
          /\ ConcurrencyBound
          /\ broken <=> ~factory

\* what a notification may change, and the bound on the jobs
Kept == /\ next \in 1 .. NTasks + 1 /\ job_list \in Seq(Jobs_)
        /\ life \in Seq(Lives) /\ fate \in [Tasks -> Fates] /\ tries \in [Tasks -> Nat]
        /\ Len(job_list) <= Concurrency

(* next_task adds at most one job to those the notification leaves. *)
LEMMA NextTaskKept ==
  ASSUME next \in 1 .. NTasks + 1, tries \in [Tasks -> Nat],
         NEW rest \in Seq(Jobs_), NEW f \in [Tasks -> Fates], NEW lives \in Seq(Lives),
         NextTask(rest, f, lives), Len(rest) < Concurrency
  PROVE  Kept' /\ (~factory => Len(life') = Len(lives))
<1>0. Concurrency \in Nat /\ NTasks \in Nat /\ Len(rest) \in Nat
  BY TasksAssumption, LenProperties
<1>1. CASE ~factory
  <2>1. job_list' = rest /\ fate' = f /\ life' = lives /\ UNCHANGED <<next, tries>>
    BY <1>1, NextTaskEffect
  <2> QED
    BY <2>1, <1>0 DEF Kept, Jobs_, Lives, Tasks, Fates
<1>2. CASE factory
  <2>1. PICK upto \in next - 1 .. NTasks, found \in BOOLEAN : Taken(upto, found, rest, f, lives)
    BY <1>2, NextTaskEffect
  <2>2. next' \in 1 .. NTasks + 1
    BY <2>1, <1>0 DEF Taken
  <2>3. fate' \in [Tasks -> Fates] /\ tries' \in [Tasks -> Nat]
    BY <2>1 DEF Fates, Taken
  <2>4. job_list' \in Seq(Jobs_) /\ Len(job_list') <= Concurrency
    <3>1. CASE found
      <4>1. upto \in Tasks /\ Len(life') \in Nat
        BY <3>1, <2>1, <1>0, LenProperties DEF Tasks, Taken
      <4>2. Job(upto, Len(life')) \in Jobs_
        BY <4>1, TasksAssumption DEF Job, Jobs_
      <4> QED
        BY <3>1, <2>1, <4>2, <1>0, AppendProperties DEF Taken
    <3>2. CASE ~found
      BY <3>2, <2>1, <1>0 DEF Taken
    <3> QED
      BY <3>1, <3>2
  <2>5. Kept'
    BY <2>1, <2>2, <2>3, <2>4 DEF Taken, Kept, Jobs_, Lives, Tasks, Fates
  <2> QED
    BY <2>5, <1>2
<1> QED
  BY <1>1, <1>2

(* What the notification of job i leaves before next_task. *)
LEMMA EndedSeq ==
  ASSUME JobInv, NEW i \in DOMAIN job_list, NEW s \in Fates
  PROVE  /\ i \in 1 .. Len(job_list) /\ Len(job_list) \in Nat
         /\ job_list[i] \in Jobs_ /\ job_list[i].task \in Tasks
         /\ Without(i) \in Seq(Jobs_)
         /\ Len(Without(i)) < Concurrency
         /\ [fate EXCEPT ![job_list[i].task] = s] \in [Tasks -> Fates]
         /\ Over(job_list[i]) \in Seq(Lives) /\ Len(Over(job_list[i])) = Len(life)
         /\ \A d \in 1 .. Len(life) :
              Over(job_list[i])[d] = IF d = job_list[i].downloader THEN "over" ELSE life[d]
<1>1. job_list \in Seq(Jobs_) /\ life \in Seq(Lives) /\ fate \in [Tasks -> Fates]
  BY DEF JobInv, TypeOK, Jobs_, Lives
<1>2. i \in 1 .. Len(job_list) /\ Len(job_list) \in Nat /\ job_list[i] \in Jobs_
  BY <1>1, LenProperties, ElementOfSeq
<1>3. job_list[i].task \in Tasks
  BY <1>2 DEF Jobs_
<1>4. Without(i) \in Seq(Jobs_) /\ Len(Without(i)) = Len(job_list) - 1
  BY <1>1, WithoutSeq
<1>5. Len(Without(i)) < Concurrency
  BY <1>2, <1>4, TasksAssumption DEF JobInv, ConcurrencyBound
<1>6. /\ Over(job_list[i]) \in Seq(Lives) /\ Len(Over(job_list[i])) = Len(life)
      /\ \A d \in 1 .. Len(life) :
           Over(job_list[i])[d] = IF d = job_list[i].downloader THEN "over" ELSE life[d]
  <2> DEFINE d == job_list[i].downloader
             n == Len(life)
             g == [life EXCEPT ![d] = "over"]
  <2>1. n \in Nat /\ life \in [1 .. n -> Lives]
    BY <1>1, LenProperties
  <2>2. g \in [1 .. n -> Lives]
    BY <2>1 DEF Lives
  <2>3. \A e \in 1 .. n : g[e] = IF e = d THEN "over" ELSE life[e]
    BY <2>1
  <2> HIDE DEF g, n
  <2>4. g \in Seq(Lives) /\ Len(g) = n
    BY <2>1, <2>2, FunctionSeq
  <2> QED
    BY <2>3, <2>4 DEF Over, g, n
<1> QED
  BY <1>1, <1>2, <1>3, <1>4, <1>5, <1>6

\* the part of the state that notifications leave alone, apart from the dashboard
OtherTypes == /\ pc \in {"start", "loop", "break", "exit", "crash"}
              /\ slot \in Nat /\ factory \in BOOLEAN /\ broken \in BOOLEAN
              /\ stopping \in Seq(Nat)
BoardTypes == done_tasks \in Nat /\ total_downloaded \in Nat /\ size \in [Tasks -> Nat]

LEMMA UpdateType ==
  ASSUME BoardTypes, NEW t \in Tasks, NEW s, NEW n \in Nat, update(t, s, n)
  PROVE  BoardTypes'
<1>1. CASE Counted(s)
  BY <1>1 DEF update, BoardTypes
<1>2. CASE ~Counted(s)
  BY <1>2 DEF update, BoardTypes, boardVars
<1> QED
  BY <1>1, <1>2

LEMMA TypeSplit == TypeOK <=> /\ OtherTypes /\ BoardTypes /\ next \in Nat
                              /\ job_list \in Seq(Jobs_) /\ life \in Seq(Lives)
                              /\ fate \in [Tasks -> Fates] /\ tries \in [Tasks -> Nat]
  BY DEF TypeOK, OtherTypes, BoardTypes, Jobs_, Lives

(* A notification: the job list keeps its bound, whatever happens to the job, and grows
   no downloader once the factory is gone. *)
LEMMA EndedKept ==
  ASSUME JobInv, NEW i \in DOMAIN job_list, NEW s \in {"done", "failed"}, NEW n \in Nat,
         Ended(i, s, n)
  PROVE  Kept' /\ BoardTypes' /\ (~factory => Len(life') = Len(life))
<1> DEFINE job == job_list[i]
           f   == [fate EXCEPT ![job.task] = s]
<1>1. update(job.task, s, n) /\ NextTask(Without(i), f, Over(job))
  BY DEF Ended
<1>2. s \in Fates
  BY DEF Fates
<1>3. /\ Without(i) \in Seq(Jobs_) /\ Len(Without(i)) < Concurrency
      /\ f \in [Tasks -> Fates] /\ Over(job) \in Seq(Lives)
      /\ Len(Over(job)) = Len(life) /\ job.task \in Tasks
  BY <1>2, EndedSeq
<1>4. next \in 1 .. NTasks + 1 /\ tries \in [Tasks -> Nat] /\ BoardTypes
  BY TypeSplit DEF JobInv
<1>5. BoardTypes'
  BY <1>1, <1>3, <1>4, UpdateType
<1> HIDE DEF f, job
<1>6. Kept' /\ (~factory => Len(life') = Len(Over(job)))
  BY <1>1, <1>3, <1>4, NextTaskKept
<1> QED
  BY <1>3, <1>5, <1>6

LEMMA RedirectKept ==
  ASSUME JobInv, NEW i \in DOMAIN job_list, Redirect(i)
  PROVE  Kept' /\ BoardTypes' /\ (~factory => Len(life') = Len(life))
<1> DEFINE job   == job_list[i]
           count == job.redirect_count + 1
           f     == [fate EXCEPT ![job.task] = "failed"]
<1>1. "failed" \in Fates
  BY DEF Fates
<1>2. /\ i \in 1 .. Len(job_list) /\ Len(job_list) \in Nat
      /\ Without(i) \in Seq(Jobs_) /\ Len(Without(i)) < Concurrency
      /\ f \in [Tasks -> Fates] /\ Over(job) \in Seq(Lives)
      /\ Len(Over(job)) = Len(life) /\ job \in Jobs_ /\ job.task \in Tasks
  BY <1>1, EndedSeq
<1>3. /\ next \in 1 .. NTasks + 1 /\ tries \in [Tasks -> Nat] /\ BoardTypes
      /\ job_list \in Seq(Jobs_) /\ fate \in [Tasks -> Fates]
      /\ Len(job_list) <= Concurrency
  BY TypeSplit DEF JobInv, ConcurrencyBound
<1>4. BoardTypes'
  BY <1>2, <1>3, UpdateType DEF Redirect
<1>5. CASE (TooMany(count) \/ ~factory) /\ NextTask(Without(i), f, Over(job))
  <2> HIDE DEF f, job
  <2>1. Kept' /\ (~factory => Len(life') = Len(Over(job)))
    BY <1>5, <1>2, <1>3, NextTaskKept
  <2> QED
    BY <2>1, <1>2, <1>4
<1>6. CASE /\ ~TooMany(count) /\ factory
           /\ life' = Append(Over(job), "running")
           /\ job_list' = [job_list EXCEPT ![i].redirect_count = count,
                                           ![i].downloader = Len(life')]
           /\ tries' = [tries EXCEPT ![job.task] = @ + 1]
           /\ UNCHANGED <<next, fate>>
  <2>1. life' \in Seq(Lives) /\ Len(life') \in Nat
    <3>1. "running" \in Lives
      BY DEF Lives
    <3> QED
      BY <3>1, <1>6, <1>2, AppendProperties, LenProperties
  <2>2. count \in 0 .. MaxRedirect
    BY <1>6, <1>2, TasksAssumption DEF TooMany, Jobs_
  <2> DEFINE new == [job EXCEPT !.redirect_count = count, !.downloader = Len(life')]
  <2>3. new \in Jobs_
    BY <2>1, <2>2, <1>2 DEF Jobs_
  <2>4. job_list' = [job_list EXCEPT ![i] = new]
    BY <1>6
  <2>5. job_list' \in Seq(Jobs_) /\ Len(job_list') = Len(job_list)
    <3> HIDE DEF new
    <3> QED
      BY <2>3, <2>4, <1>2, <1>3, ExceptSeq
  <2>6. tries' \in [Tasks -> Nat]
    BY <1>6, <1>3, <1>2
  <2> QED
    BY <2>1, <2>5, <2>6, <1>3, <1>4, <1>6 DEF Kept, Jobs_, Lives, Tasks, Fates
<1>7. CASE ~TooMany(count) /\ factory /\ NextTask(Without(i), f, Append(Over(job), "refused"))
  <2>1. Append(Over(job), "refused") \in Seq(Lives)
    BY <1>2, AppendProperties DEF Lives
  <2> HIDE DEF f, job
  <2>2. Kept'
    BY <1>7, <1>2, <1>3, <2>1, NextTaskKept
  <2> QED
    BY <2>2, <1>4, <1>7
<1> QED
  BY <1>5, <1>6, <1>7 DEF Redirect

LEMMA JobInit == Init => JobInv
<1> SUFFICES ASSUME Init PROVE JobInv
  OBVIOUS
<1>1. TypeOK
  <2>1. /\ job_list \in Seq(Jobs_) /\ life \in Seq(Lives) /\ stopping \in Seq(Nat)
    BY EmptySeq DEF Init
  <2>2. fate \in [Tasks -> Fates] /\ tries \in [Tasks -> Nat] /\ size \in [Tasks -> Nat]
    BY DEF Init, Fates
  <2>3. OtherTypes /\ BoardTypes /\ next \in Nat
    BY <2>1, <2>2 DEF Init, OtherTypes, BoardTypes
  <2> QED
    BY <2>1, <2>2, <2>3, TypeSplit
<1>2. Len(job_list) = 0
  BY DEF Init
<1> QED
  BY <1>1, <1>2, TasksAssumption DEF Init, JobInv, ConcurrencyBound

(* One step for each action; a notification is EndedKept or RedirectKept. *)
LEMMA JobNext == JobInv /\ [Next]_vars => JobInv'
<1> SUFFICES ASSUME JobInv, [Next]_vars PROVE JobInv'
  OBVIOUS
<1>0. /\ OtherTypes /\ BoardTypes /\ next \in 1 .. NTasks + 1
      /\ job_list \in Seq(Jobs_) /\ life \in Seq(Lives)
      /\ fate \in [Tasks -> Fates] /\ tries \in [Tasks -> Nat]
      /\ Len(job_list) \in Nat /\ Concurrency \in Nat /\ NTasks \in Nat
      /\ Len(job_list) <= Concurrency /\ (broken <=> ~factory)
  BY TypeSplit, TasksAssumption, LenProperties DEF JobInv, ConcurrencyBound
<1>1. ASSUME OtherTypes', BoardTypes', Kept', pc' # "start", broken' <=> ~factory'
      PROVE  JobInv'
  BY <1>1, TypeSplit DEF Kept, JobInv, ConcurrencyBound, TypeOK, OtherTypes, BoardTypes, Jobs_, Lives
<1>2. ASSUME UNCHANGED <<taskVars, boardVars>>, OtherTypes', pc' # "start",
             broken' <=> ~factory'
      PROVE  JobInv'
  <2>1. Kept' /\ BoardTypes'
    BY <1>0, <1>2 DEF Kept, BoardTypes, taskVars, boardVars, Jobs_, Lives, Tasks, Fates
  <2> QED
    BY <1>1, <1>2, <2>1
<1>3. CASE EnterLoop
  BY <1>0, <1>2, <1>3 DEF EnterLoop, OtherTypes
<1>4. ASSUME NEW ok \in BOOLEAN, StartTurn(ok) PROVE JobInv'
  <2>1. next \in Tasks /\ next' \in 1 .. NTasks + 1 /\ slot' \in Nat
    BY <1>0, <1>4 DEF StartTurn, Tasks, OtherTypes
  <2>2. /\ life' \in Seq(Lives)
        /\ fate' \in [Tasks -> Fates] /\ tries' \in [Tasks -> Nat]
    <3>1. (IF ok THEN "running" ELSE "refused") \in Lives
      BY DEF Lives
    <3>2. life' \in Seq(Lives)
      BY <1>0, <1>4, <3>1, AppendProperties DEF StartTurn
    <3> QED
      BY <1>0, <1>4, <2>1, <3>2 DEF StartTurn, Fates
  <2>3. Job(next, Len(life) + 1) \in Jobs_
    BY <2>1, <1>0, TasksAssumption, LenProperties DEF Job, Jobs_
  <2>4. job_list' \in Seq(Jobs_) /\ Len(job_list') <= Len(job_list) + 1
    <3>1. CASE ok
      BY <3>1, <1>0, <1>4, <2>3, AppendProperties DEF StartTurn
    <3>2. CASE ~ok
      BY <3>2, <1>0, <1>4 DEF StartTurn
    <3> QED
      BY <3>1, <3>2
  <2>5. OtherTypes' /\ BoardTypes'
    BY <1>0, <1>4, <2>1 DEF StartTurn, OtherTypes, BoardTypes, boardVars
  <2>6. TypeOK'
    BY <2>1, <2>2, <2>4, <2>5 DEF TypeOK, OtherTypes, BoardTypes, Jobs_, Lives
  <2>7. Len(job_list') <= Concurrency /\ Len(job_list') < slot' /\ slot' <= Concurrency + 1
    <3>1. Len(job_list') \in Nat
      BY <2>4, LenProperties
    <3>2. pc = "start" /\ slot <= Concurrency /\ slot' = slot + 1 /\ slot \in Nat
      BY <1>4, <1>0 DEF StartTurn, OtherTypes
    <3>3. Len(job_list) < slot
      BY <3>2 DEF JobInv
    <3> QED
      BY <3>1, <3>2, <3>3, <2>4, <1>0
  <2>8. ~broken' /\ factory'
    BY <1>4 DEF StartTurn, JobInv
  <2> QED
    BY <2>1, <2>6, <2>7, <2>8 DEF JobInv, ConcurrencyBound
<1>5. ASSUME NEW i \in DOMAIN job_list, Notified(i) PROVE JobInv'
  <2>1. Kept' /\ BoardTypes'
    <3>1. CASE \E n \in Bytes : Ended(i, "done", n)
      BY <3>1, EndedKept, TasksAssumption
    <3>2. CASE \E n \in Bytes : Ended(i, "failed", n)
      BY <3>2, EndedKept, TasksAssumption
    <3>3. CASE Redirect(i)
      BY <3>3, RedirectKept
    <3> QED
      BY <1>5, <3>1, <3>2, <3>3 DEF Notified
  <2> QED
    BY <1>0, <1>1, <1>5, <2>1 DEF Notified, OtherTypes
<1>6. CASE NotifiedAgain
  BY <1>0, <1>2, <1>6 DEF NotifiedAgain, OtherTypes
<1>7. CASE Break
  <2>1. \A j \in DOMAIN job_list : job_list[j].downloader \in Nat
    <3> TAKE j \in DOMAIN job_list
    <3>1. j \in 1 .. Len(job_list)
      BY <1>0, LenProperties
    <3>2. job_list[j] \in Jobs_
      BY <1>0, <3>1, ElementOfSeq
    <3> QED
      BY <3>2 DEF Jobs_
  <2>2. stopping' \in [1 .. Len(job_list) -> Nat]
    BY <1>0, <1>7, <2>1, LenProperties DEF Break
  <2>3. stopping' \in Seq(Nat)
    BY <2>2, <1>0, FunctionSeq
  <2> QED
    BY <1>0, <1>2, <1>7, <2>3 DEF Break, FactoryAfterBreak, OtherTypes
<1>8. CASE StopNext
  <2>1. PICK i \in DOMAIN job_list : Ended(i, "failed", 0)
    BY <1>8 DEF StopNext
  <2>2. Kept' /\ BoardTypes'
    BY <2>1, EndedKept
  <2>3. stopping' \in Seq(Nat)
    BY <1>0, <1>8, HeadTailProperties DEF StopNext, OtherTypes
  <2> QED
    BY <1>0, <1>1, <1>8, <2>2, <2>3 DEF StopNext, OtherTypes
<1>9. CASE EndBreak
  BY <1>0, <1>2, <1>9 DEF EndBreak, OtherTypes
<1>10. CASE Exit
  BY <1>0, <1>2, <1>10 DEF Exit, OtherTypes
<1>11. CASE UNCHANGED vars
  BY <1>11 DEF vars, taskVars, boardVars, JobInv, TypeOK, ConcurrencyBound
<1> QED
  BY <1>3, <1>4, <1>5, <1>6, <1>7, <1>8, <1>9, <1>10, <1>11 DEF Next, Starting, Breaking

(* The job list, the tasks and the totals keep their types for every number of tasks. *)
THEOREM TypeCorrect == Spec => []TypeOK
<1>1. JobInv => TypeOK
  BY DEF JobInv
<1> QED
  BY <1>1, JobInit, JobNext, PTL DEF Spec

(* Never more jobs than -n: main starts at most one in each turn of its loop, and a
   notification that adds a job has erased one. *)
THEOREM SlotsBounded == Spec => []ConcurrencyBound
<1>1. JobInv => ConcurrencyBound
  BY DEF JobInv
<1> QED
  BY <1>1, JobInit, JobNext, PTL DEF Spec

(* No download starts after the user's break, although every stopped one reports a
   failure: the start loop is over and next_task finds no factory. *)
THEOREM BreakIsFinal == Spec => NothingStartsAfterBreak
<1>1. JobInv /\ [Next]_vars => [broken => Len(life') = Len(life)]_vars
  <2> SUFFICES ASSUME JobInv, [Next]_vars, broken PROVE Len(life') = Len(life)
    OBVIOUS
  <2>1. ~factory /\ pc # "start"
    BY DEF JobInv
  <2>2. ASSUME NEW i \in DOMAIN job_list, NEW s \in {"done", "failed"}, NEW n \in Nat,
               Ended(i, s, n)
        PROVE  Len(life') = Len(life)
    BY <2>1, <2>2, EndedKept
  <2>3. ASSUME NEW i \in DOMAIN job_list, Notified(i) PROVE Len(life') = Len(life)
    BY <2>1, <2>2, <2>3, RedirectKept, TasksAssumption DEF Notified
  <2>4. CASE StopNext
    BY <2>2, <2>4 DEF StopNext
  <2>5. CASE \/ Starting \/ Break \/ EndBreak \/ Exit \/ NotifiedAgain \/ UNCHANGED vars
    BY <2>1, <2>5 DEF Starting, EnterLoop, StartTurn, Break, EndBreak, Exit,
                      NotifiedAgain, vars, taskVars
  <2> QED
    BY <2>3, <2>4, <2>5 DEF Next, Breaking
<1> QED
  BY <1>1, JobInit, JobNext, PTL DEF Spec, NothingStartsAfterBreak

-------------------------------------------------------------------------------
(* Jobs, downloaders and tasks correspond. *)

\* JobsAreAlive, of any job list, fates and downloaders, element by element
Alive(jobs, f, l) ==
  /\ \A i, j \in 1 .. Len(jobs) : i # j => /\ jobs[i].task # jobs[j].task
                                          /\ jobs[i].downloader # jobs[j].downloader
  /\ \A i \in 1 .. Len(jobs) : /\ jobs[i].downloader \in 1 .. Len(l)
                                /\ l[jobs[i].downloader] = "running"
                                /\ f[jobs[i].task] = "running"
  /\ \A d \in 1 .. Len(l) : l[d] = "running" => \E i \in 1 .. Len(jobs) : jobs[i].downloader = d
  /\ \A t \in Tasks : f[t] = "running" => \E i \in 1 .. Len(jobs) : jobs[i].task = t

\* the tasks from n on wait, and only they
Fresh(f, tr, n) == \A t \in Tasks : /\ f[t] = "waiting" <=> t >= n
                                    /\ t >= n => tr[t] = 0

\* a job has had one downloader more than redirects
Tally(jobs, tr) == \A i \in 1 .. Len(jobs) : tr[jobs[i].task] = jobs[i].redirect_count + 1

LedgerInv == /\ Alive(job_list, fate, life) /\ Fresh(fate, tries, next)
             /\ Tally(job_list, tries) /\ RedirectsBounded

LEMMA AliveMeans ==
  ASSUME job_list \in Seq(Jobs_), life \in Seq(Lives), fate \in [Tasks -> Fates],
         Alive(job_list, fate, life)
  PROVE  JobsAreAlive
<1>1. /\ DOMAIN job_list = 1 .. Len(job_list) /\ DOMAIN life = 1 .. Len(life)
      /\ \A i \in 1 .. Len(job_list) : job_list[i].task \in Tasks
  <2>1. DOMAIN job_list = 1 .. Len(job_list) /\ DOMAIN life = 1 .. Len(life)
    BY LenProperties
  <2>2. \A i \in 1 .. Len(job_list) : job_list[i] \in Jobs_
    BY ElementOfSeq
  <2> QED
    BY <2>1, <2>2 DEF Jobs_
<1>2. { job_list[i].downloader : i \in DOMAIN job_list } = { d \in DOMAIN life : life[d] = "running" }
  <2>1. ASSUME NEW i \in 1 .. Len(job_list)
        PROVE  job_list[i].downloader \in 1 .. Len(life) /\ life[job_list[i].downloader] = "running"
    BY DEF Alive
  <2>2. ASSUME NEW d \in 1 .. Len(life), life[d] = "running"
        PROVE  \E i \in 1 .. Len(job_list) : job_list[i].downloader = d
    BY <2>2 DEF Alive
  <2>3. { job_list[i].downloader : i \in 1 .. Len(job_list) }
           = { d \in 1 .. Len(life) : life[d] = "running" }
    <3>1. { job_list[i].downloader : i \in 1 .. Len(job_list) }
            \subseteq { d \in 1 .. Len(life) : life[d] = "running" }
      BY <2>1
    <3>2. { d \in 1 .. Len(life) : life[d] = "running" }
            \subseteq { job_list[i].downloader : i \in 1 .. Len(job_list) }
      BY <2>2
    <3> QED
      BY <3>1, <3>2
  <2> QED
    BY <1>1, <2>3
<1>3. { job_list[i].task : i \in DOMAIN job_list } = { t \in Tasks : fate[t] = "running" }
  BY <1>1 DEF Alive
<1> QED
  BY <1>1, <1>2, <1>3 DEF Alive, JobsAreAlive

(* What next_task adds keeps the correspondence: its refused downloaders have no job, and
   the one that starts gets a job of its own, for a task that was waiting. *)
LEMMA NextTaskLedger ==
  ASSUME next \in 1 .. NTasks + 1, tries \in [Tasks -> Nat], RedirectsBounded,
         NEW rest \in Seq(Jobs_), NEW f \in [Tasks -> Fates], NEW lives \in Seq(Lives),
         Alive(rest, f, lives), Fresh(f, tries, next), Tally(rest, tries),
         NextTask(rest, f, lives)
  PROVE  LedgerInv'
<1>0. /\ Len(rest) \in Nat /\ Len(lives) \in Nat /\ NTasks \in Nat /\ MaxRedirect \in Nat
      /\ \A i \in 1 .. Len(rest) : rest[i].task \in Tasks /\ rest[i].downloader \in Nat
  <2>1. \A i \in 1 .. Len(rest) : rest[i] \in Jobs_
    BY ElementOfSeq
  <2> QED
    BY <2>1, TasksAssumption, LenProperties DEF Jobs_
<1>1. CASE ~factory
  <2>1. job_list' = rest /\ fate' = f /\ life' = lives /\ UNCHANGED <<next, tries>>
    BY <1>1, NextTaskEffect
  <2> QED
    BY <2>1 DEF LedgerInv, RedirectsBounded, Tasks
<1>2. CASE factory
  <2>1. PICK upto \in next - 1 .. NTasks, found \in BOOLEAN : Taken(upto, found, rest, f, lives)
    BY <1>2, NextTaskEffect
  <2>2. /\ next' = upto + 1 /\ upto \in Int /\ next \in Nat
        /\ Len(life') = Len(lives) + (upto + 1 - next) /\ Len(life') >= Len(lives)
        /\ Len(life') \in Nat
    BY <2>1, <1>0 DEF Taken
  <2>3. \A t \in Tasks : /\ fate'[t] = IF t \notin next .. upto THEN f[t]
                                        ELSE IF found /\ t = upto THEN "running" ELSE "failed"
                         /\ tries'[t] = IF t \in next .. upto THEN 1 ELSE tries[t]
    BY <2>1 DEF Taken
  <2>4. \A i \in 1 .. Len(rest) : /\ rest[i].task < next /\ rest[i].task \in Nat
                                  /\ rest[i].task \notin next .. upto
    <3>1. \A i \in 1 .. Len(rest) : f[rest[i].task] = "running"
      BY DEF Alive
    <3> QED
      BY <3>1, <1>0 DEF Fresh, Tasks
  <2>5. Fresh(fate', tries', next')
    <3> SUFFICES ASSUME NEW t \in Tasks
                 PROVE  (fate'[t] = "waiting" <=> t >= next') /\ (t >= next' => tries'[t] = 0)
      BY DEF Fresh
    <3>1. CASE t \in next .. upto
      BY <3>1, <2>2, <2>3 DEF Tasks
    <3>2. CASE t \notin next .. upto
      <4>1. t >= next <=> t >= next'
        BY <3>2, <2>1, <2>2, <1>0 DEF Tasks
      <4> QED
        BY <4>1, <3>2, <2>3 DEF Fresh
    <3> QED
      BY <3>1, <3>2
  <2>6. RedirectsBounded'
    BY <2>3, <1>0 DEF RedirectsBounded
  <2>7. CASE ~found
    <3>1. job_list' = rest
      BY <2>1, <2>7 DEF Taken
    <3>2. Tally(rest, tries')
      BY <2>3, <2>4, <1>0 DEF Tally
    <3>3. \A d \in 1 .. Len(life') : d \notin 1 .. Len(lives) => life'[d] = "refused"
      BY <2>1, <2>2, <2>7, <1>0 DEF Taken
    <3>4. \A d \in 1 .. Len(lives) : life'[d] = lives[d]
      BY <2>1 DEF Taken
    <3>5. \A t \in Tasks : t \in next .. upto => fate'[t] = "failed"
      BY <2>3, <2>7
    <3>6. Alive(rest, fate', life')
      <4>1. \A i \in 1 .. Len(rest) : /\ rest[i].downloader \in 1 .. Len(life')
                                      /\ life'[rest[i].downloader] = "running"
                                      /\ fate'[rest[i].task] = "running"
        <5> TAKE i \in 1 .. Len(rest)
        <5>1. /\ rest[i].downloader \in 1 .. Len(lives)
              /\ lives[rest[i].downloader] = "running" /\ f[rest[i].task] = "running"
          BY DEF Alive
        <5>2. rest[i].downloader \in 1 .. Len(life')
          BY ONLY <5>1, <2>2, <1>0
        <5>3. fate'[rest[i].task] = f[rest[i].task]
          BY <2>3, <2>4, <1>0
        <5> QED
          BY <5>1, <5>2, <5>3, <3>4
      <4>2. ASSUME NEW d \in 1 .. Len(life'), life'[d] = "running"
            PROVE  \E i \in 1 .. Len(rest) : rest[i].downloader = d
        BY <3>3, <3>4, <4>2 DEF Alive
      <4>3. ASSUME NEW t \in Tasks, fate'[t] = "running"
            PROVE  \E i \in 1 .. Len(rest) : rest[i].task = t
        BY <2>3, <3>5, <4>3 DEF Alive
      <4> QED
        BY <4>1, <4>2, <4>3 DEF Alive
    <3> QED
      BY <2>5, <2>6, <3>1, <3>2, <3>6 DEF LedgerInv
  <2>8. CASE found
    <3> DEFINE n == Len(rest) + 1
               job == Job(upto, Len(life'))
    <3>1. /\ job_list' = Append(rest, job) /\ upto >= next /\ upto \in Tasks
          /\ Len(life') > Len(lives)
      BY <2>1, <2>2, <2>8, <1>0 DEF Taken, Tasks
    <3>2. job \in Jobs_
      BY <3>1, <2>2, TasksAssumption DEF Job, Jobs_
    <3>3. /\ Len(job_list') = n /\ job_list'[n] = job
          /\ \A i \in 1 .. Len(rest) : job_list'[i] = rest[i]
      <4> HIDE DEF job
      <4> QED
        BY <3>1, <3>2, AppendProperties
    <3>4. job.task = upto /\ job.downloader = Len(life') /\ job.redirect_count = 0
      BY DEF Job
    <3> HIDE DEF job
    <3>5. n \in Nat /\ \A i \in 1 .. n : i = n \/ i \in 1 .. Len(rest)
      BY <1>0
    <3>6. Tally(job_list', tries')
      <4> SUFFICES ASSUME NEW i \in 1 .. n
                   PROVE  tries'[job_list'[i].task] = job_list'[i].redirect_count + 1
        BY <3>3 DEF Tally
      <4>1. CASE i = n
        BY <4>1, <3>1, <3>3, <3>4, <2>2, <2>3 DEF Tasks
      <4>2. CASE i \in 1 .. Len(rest)
        BY <4>2, <3>3, <2>3, <2>4, <1>0 DEF Tally
      <4> QED
        BY <4>1, <4>2, <3>5
    <3>7. \A d \in 1 .. Len(life') :
            d \notin 1 .. Len(lives) /\ life'[d] = "running" => d = Len(life')
      <4> TAKE d \in 1 .. Len(life')
      <4>1. d \notin 1 .. Len(lives) => d \in Len(lives) + 1 .. Len(life')
        BY <1>0, <2>2
      <4>2. d \in Len(lives) + 1 .. Len(life') =>
              life'[d] = IF found /\ d = Len(life') THEN "running" ELSE "refused"
        BY <2>1 DEF Taken
      <4> QED
        BY <4>1, <4>2
    <3>8. /\ \A d \in 1 .. Len(lives) : life'[d] = lives[d]
          /\ life'[Len(life')] = "running" /\ Len(life') \in 1 .. Len(life')
      <4>1. Len(life') \in Len(lives) + 1 .. Len(life') /\ Len(life') \in 1 .. Len(life')
        BY <1>0, <2>2, <3>1
      <4>2. life'[Len(life')] = IF found /\ Len(life') = Len(life') THEN "running" ELSE "refused"
        BY <2>1, <4>1 DEF Taken
      <4>3. \A d \in 1 .. Len(lives) : life'[d] = lives[d]
        BY <2>1 DEF Taken
      <4> QED
        BY <4>1, <4>2, <4>3, <2>8
    <3>9. \A t \in Tasks : t \in next .. upto /\ fate'[t] = "running" => t = upto
      BY <2>3
    <3>10. Alive(job_list', fate', life')
      <4>1. ASSUME NEW i \in 1 .. n, NEW j \in 1 .. n, i # j
            PROVE  /\ job_list'[i].task # job_list'[j].task
                   /\ job_list'[i].downloader # job_list'[j].downloader
        <5>1. \A k \in 1 .. Len(rest) : /\ rest[k].task # upto
                                        /\ rest[k].downloader # Len(life')
          BY ONLY <2>2, <2>4, <3>1, <1>0, Alive(rest, f, lives) DEF Alive
        <5>2. CASE i = n
          BY <5>1, <5>2, <4>1, <3>3, <3>4, <3>5
        <5>3. CASE j = n
          BY <5>1, <5>3, <4>1, <3>3, <3>4, <3>5
        <5>4. CASE i \in 1 .. Len(rest) /\ j \in 1 .. Len(rest)
          BY <5>4, <4>1, <3>3 DEF Alive
        <5> QED
          BY <5>2, <5>3, <5>4, <3>5
      <4>2. ASSUME NEW i \in 1 .. n
            PROVE  /\ job_list'[i].downloader \in 1 .. Len(life')
                   /\ life'[job_list'[i].downloader] = "running"
                   /\ fate'[job_list'[i].task] = "running"
        <5>1. CASE i = n
          <6>1. job_list'[i].downloader = Len(life') /\ job_list'[i].task = upto
            BY <5>1, <3>3, <3>4
          <6>2. upto \in next .. upto
            BY <3>1, <2>2
          <6>3. fate'[upto] = "running"
            BY <6>2, <2>3, <2>8, <3>1
          <6> QED
            BY <6>1, <6>3, <3>8
        <5>2. CASE i \in 1 .. Len(rest)
          <6>1. /\ rest[i].downloader \in 1 .. Len(lives)
                /\ lives[rest[i].downloader] = "running" /\ f[rest[i].task] = "running"
            BY <5>2 DEF Alive
          <6>2. rest[i].downloader \in 1 .. Len(life')
            BY <6>1, <2>2, <1>0
          <6>3. fate'[rest[i].task] = f[rest[i].task]
            BY <5>2, <2>3, <2>4, <1>0
          <6> QED
            BY <5>2, <6>1, <6>2, <6>3, <3>3, <3>8
        <5> QED
          BY <5>1, <5>2, <3>5
      <4>3. ASSUME NEW d \in 1 .. Len(life'), life'[d] = "running"
            PROVE  \E i \in 1 .. n : job_list'[i].downloader = d
        <5>1. CASE d \in 1 .. Len(lives)
          <6>1. PICK i \in 1 .. Len(rest) : rest[i].downloader = d
            BY <5>1, <4>3, <3>8 DEF Alive
          <6> QED
            BY <6>1, <3>3, <1>0
        <5>2. CASE d \notin 1 .. Len(lives)
          BY <5>2, <4>3, <3>3, <3>4, <3>5, <3>7, <1>0
        <5> QED
          BY <5>1, <5>2
      <4>4. ASSUME NEW t \in Tasks, fate'[t] = "running"
            PROVE  \E i \in 1 .. n : job_list'[i].task = t
        <5>1. CASE t \in next .. upto
          BY <5>1, <4>4, <3>3, <3>4, <3>9, <1>0
        <5>2. CASE t \notin next .. upto
          <6>1. PICK i \in 1 .. Len(rest) : rest[i].task = t
            BY <5>2, <4>4, <2>3 DEF Alive
          <6> QED
            BY <6>1, <3>3, <1>0
        <5> QED
          BY <5>1, <5>2
      <4> QED
        BY <4>1, <4>2, <4>3, <4>4, <3>3 DEF Alive
    <3> QED
      BY <2>5, <2>6, <3>6, <3>10 DEF LedgerInv
  <2> QED
    BY <2>7, <2>8
<1> QED
  BY <1>1, <1>2

(* Without job i, its downloader over and its task finished, the rest corresponds; and a
   refused downloader more changes nothing. *)
LEMMA RemovedLedger ==
  ASSUME JobInv, LedgerInv, NEW i \in DOMAIN job_list, NEW s \in {"done", "failed"}
  PROVE  LET f     == [fate EXCEPT ![job_list[i].task] = s]
             lives == Over(job_list[i])
         IN  /\ Alive(Without(i), f, lives)
             /\ Alive(Without(i), f, Append(lives, "refused"))
             /\ Fresh(f, tries, next) /\ Tally(Without(i), tries)
<1> DEFINE job   == job_list[i]
           f     == [fate EXCEPT ![job.task] = s]
           lives == Over(job)
           rest  == Without(i)
           n     == Len(job_list)
<1>1. s \in Fates /\ s # "running" /\ s # "waiting"
  BY DEF Fates
<1>2. /\ i \in 1 .. n /\ n \in Nat /\ job \in Jobs_ /\ job.task \in Tasks
      /\ rest \in Seq(Jobs_) /\ lives \in Seq(Lives) /\ Len(lives) = Len(life)
      /\ \A d \in 1 .. Len(life) : lives[d] = IF d = job.downloader THEN "over" ELSE life[d]
  BY <1>1, EndedSeq
<1>3. \A t \in Tasks : f[t] = IF t = job.task THEN s ELSE fate[t]
  BY <1>2, TypeSplit DEF JobInv
<1>4. /\ Len(rest) = n - 1
      /\ \A k \in 1 .. n - 1 : rest[k] = IF k < i THEN job_list[k] ELSE job_list[k + 1]
  BY WithoutSeq, TypeSplit DEF JobInv
<1>5. \A k \in 1 .. n : job_list[k].task \in Tasks
  <2>1. \A k \in 1 .. n : job_list[k] \in Jobs_
    BY ElementOfSeq, TypeSplit DEF JobInv
  <2> QED
    BY <2>1 DEF Jobs_
<1>6. /\ Alive(job_list, fate, life) /\ Fresh(fate, tries, next) /\ Tally(job_list, tries)
      /\ Len(life) \in Nat
  BY LenProperties, TypeSplit DEF LedgerInv, JobInv
<1>7. job.downloader \in 1 .. Len(life) /\ fate[job.task] = "running"
  BY <1>2, <1>6 DEF Alive
<1> HIDE DEF f, lives, rest, job
\* the places of the rest in the list
<1>8. \A k \in 1 .. n - 1 : \E j \in 1 .. n : j # i /\ rest[k] = job_list[j]
                                             /\ j = IF k < i THEN k ELSE k + 1
  <2> TAKE k \in 1 .. n - 1
  <2>1. CASE k < i
    <3>1. k \in 1 .. n /\ k # i
      BY <2>1, <1>2
    <3> QED
      BY <3>1, <2>1, <1>4
  <2>2. CASE ~(k < i)
    <3>1. k + 1 \in 1 .. n /\ k + 1 # i
      BY <2>2, <1>2
    <3> QED
      BY <3>1, <2>2, <1>4
  <2> QED
    BY <2>1, <2>2
<1>9. \A j \in 1 .. n : j # i => \E k \in 1 .. n - 1 : rest[k] = job_list[j]
  <2> TAKE j \in 1 .. n
  <2>1. CASE j < i
    <3>1. j \in 1 .. n - 1
      BY <2>1, <1>2
    <3> QED
      BY <3>1, <2>1, <1>4
  <2>2. CASE j > i
    <3>1. j - 1 \in 1 .. n - 1 /\ ~(j - 1 < i) /\ (j - 1) + 1 = j
      BY <2>2, <1>2
    <3> QED
      BY <3>1, <1>4
  <2> QED
    BY <2>1, <2>2, <1>2
<1>10. \A j \in 1 .. n : j # i => /\ job_list[j].task # job.task
                                 /\ job_list[j].downloader # job.downloader
  BY <1>2, <1>6 DEF Alive, job
<1>11. \A k \in 1 .. n - 1 : /\ rest[k].downloader \in 1 .. Len(life)
                            /\ lives[rest[k].downloader] = "running"
                            /\ f[rest[k].task] = "running"
                            /\ tries[rest[k].task] = rest[k].redirect_count + 1
  <2> TAKE k \in 1 .. n - 1
  <2>1. PICK j \in 1 .. n : j # i /\ rest[k] = job_list[j]
    BY <1>8
  <2>2. /\ job_list[j].downloader \in 1 .. Len(life)
        /\ life[job_list[j].downloader] = "running" /\ fate[job_list[j].task] = "running"
        /\ tries[job_list[j].task] = job_list[j].redirect_count + 1
    BY <1>6 DEF Alive, Tally
  <2> QED
    BY <2>1, <2>2, <1>2, <1>3, <1>5, <1>10
<1>12. \A k, m \in 1 .. n - 1 : k # m => /\ rest[k].task # rest[m].task
                                        /\ rest[k].downloader # rest[m].downloader
  <2> TAKE k, m \in 1 .. n - 1
  <2>1. PICK j \in 1 .. n : rest[k] = job_list[j] /\ j = IF k < i THEN k ELSE k + 1
    BY <1>8
  <2>2. PICK l \in 1 .. n : rest[m] = job_list[l] /\ l = IF m < i THEN m ELSE m + 1
    BY <1>8
  <2>3. k # m => j # l
    BY <2>1, <2>2, <1>2
  <2> QED
    BY <2>1, <2>2, <2>3, <1>6 DEF Alive
<1>13. \A d \in 1 .. Len(life) : lives[d] = "running" =>
         \E k \in 1 .. n - 1 : rest[k].downloader = d
  <2> SUFFICES ASSUME NEW d \in 1 .. Len(life), lives[d] = "running"
               PROVE  \E k \in 1 .. n - 1 : rest[k].downloader = d
    OBVIOUS
  <2>1. d # job.downloader /\ life[d] = "running"
    BY <1>2
  <2>2. PICK j \in 1 .. n : job_list[j].downloader = d
    BY <2>1, <1>6 DEF Alive
  <2>3. j # i
    BY <2>1, <2>2 DEF job
  <2> QED
    BY <2>2, <2>3, <1>9
<1>14. \A t \in Tasks : f[t] = "running" => \E k \in 1 .. n - 1 : rest[k].task = t
  <2> SUFFICES ASSUME NEW t \in Tasks, f[t] = "running"
               PROVE  \E k \in 1 .. n - 1 : rest[k].task = t
    OBVIOUS
  <2>1. t # job.task /\ fate[t] = "running"
    BY <1>1, <1>3
  <2>2. PICK j \in 1 .. n : job_list[j].task = t
    BY <2>1, <1>6 DEF Alive
  <2>3. j # i
    BY <2>1, <2>2 DEF job
  <2> QED
    BY <2>2, <2>3, <1>9
<1>15. Alive(rest, f, lives)
  BY <1>2, <1>4, <1>11, <1>12, <1>13, <1>14 DEF Alive
<1>16. Alive(rest, f, Append(lives, "refused"))
  <2> DEFINE more == Append(lives, "refused")
  <2>1. /\ Len(more) = Len(life) + 1 /\ more[Len(life) + 1] = "refused"
        /\ \A d \in 1 .. Len(life) : more[d] = lives[d]
    BY <1>2, <1>6, AppendProperties DEF Lives
  <2> HIDE DEF more
  <2>2. \A d \in 1 .. Len(more) : more[d] = "running" => d \in 1 .. Len(life)
    BY <2>1, <1>6
  <2>3. \A d \in 1 .. Len(life) : d \in 1 .. Len(more)
    BY <2>1, <1>6
  <2>4. Alive(rest, f, more)
    BY <2>1, <2>2, <2>3, <1>4, <1>11, <1>12, <1>13, <1>14 DEF Alive
  <2> QED
    BY <2>4 DEF more
<1>17. Fresh(f, tries, next)
  BY <1>1, <1>3, <1>6, <1>7 DEF Fresh
<1>18. Tally(rest, tries)
  BY <1>4, <1>11 DEF Tally
<1> QED
  BY <1>15, <1>16, <1>17, <1>18 DEF f, lives, rest, job

LEMMA EndedLedger ==
  ASSUME JobInv, LedgerInv, NEW i \in DOMAIN job_list, NEW s \in {"done", "failed"},
         NEW n, Ended(i, s, n)
  PROVE  LedgerInv'
<1> DEFINE f     == [fate EXCEPT ![job_list[i].task] = s]
           lives == Over(job_list[i])
<1>1. NextTask(Without(i), f, lives)
  BY DEF Ended
<1>2. /\ Without(i) \in Seq(Jobs_) /\ f \in [Tasks -> Fates] /\ lives \in Seq(Lives)
      /\ Alive(Without(i), f, lives) /\ Fresh(f, tries, next) /\ Tally(Without(i), tries)
  <2>1. s \in Fates
    BY DEF Fates
  <2> QED
    BY <2>1, EndedSeq, RemovedLedger
<1>3. next \in 1 .. NTasks + 1 /\ tries \in [Tasks -> Nat] /\ RedirectsBounded
  BY TypeSplit DEF JobInv, LedgerInv
<1> HIDE DEF f, lives
<1> QED
  BY <1>1, <1>2, <1>3, NextTaskLedger

(* A redirect: the job keeps its task and gets a downloader of its own, or goes. *)
LEMMA RedirectLedger ==
  ASSUME JobInv, LedgerInv, NEW i \in DOMAIN job_list, Redirect(i)
  PROVE  LedgerInv'
<1> DEFINE job   == job_list[i]
           count == job.redirect_count + 1
           f     == [fate EXCEPT ![job.task] = "failed"]
           lives == Over(job)
           n     == Len(job_list)
<1>1. /\ i \in 1 .. n /\ n \in Nat /\ job \in Jobs_ /\ job.task \in Tasks
      /\ Without(i) \in Seq(Jobs_) /\ f \in [Tasks -> Fates] /\ lives \in Seq(Lives)
      /\ Len(lives) = Len(life)
      /\ \A d \in 1 .. Len(life) : lives[d] = IF d = job.downloader THEN "over" ELSE life[d]
  <2>1. "failed" \in Fates
    BY DEF Fates
  <2> QED
    BY <2>1, EndedSeq
<1>2. /\ Alive(Without(i), f, lives) /\ Alive(Without(i), f, Append(lives, "refused"))
      /\ Fresh(f, tries, next) /\ Tally(Without(i), tries)
  BY RemovedLedger
<1>3. /\ next \in 1 .. NTasks + 1 /\ tries \in [Tasks -> Nat] /\ RedirectsBounded
      /\ job_list \in Seq(Jobs_) /\ fate \in [Tasks -> Fates] /\ life \in Seq(Lives)
      /\ Alive(job_list, fate, life) /\ Fresh(fate, tries, next) /\ Tally(job_list, tries)
  BY TypeSplit DEF JobInv, LedgerInv
<1>4. CASE NextTask(Without(i), f, lives)
  <2> HIDE DEF f, lives
  <2> QED
    BY <1>1, <1>2, <1>3, <1>4, NextTaskLedger
<1>5. CASE NextTask(Without(i), f, Append(lives, "refused"))
  <2>1. Append(lives, "refused") \in Seq(Lives)
    BY <1>1, AppendProperties DEF Lives
  <2> HIDE DEF f, lives
  <2> QED
    BY <1>1, <1>2, <1>3, <1>5, <2>1, NextTaskLedger
<1>6. CASE /\ ~TooMany(count) /\ factory
           /\ life' = Append(lives, "running")
           /\ job_list' = [job_list EXCEPT ![i].redirect_count = count,
                                           ![i].downloader = Len(life')]
           /\ tries' = [tries EXCEPT ![job.task] = @ + 1]
           /\ UNCHANGED <<next, fate>>
  <2> DEFINE new == [job EXCEPT !.redirect_count = count, !.downloader = Len(life')]
  <2>1. /\ Len(life') = Len(life) + 1 /\ Len(life) \in Nat
        /\ life'[Len(life) + 1] = "running"
        /\ \A d \in 1 .. Len(life) : life'[d] = IF d = job.downloader THEN "over" ELSE life[d]
    <3>1. /\ Len(Append(lives, "running")) = Len(lives) + 1
          /\ Append(lives, "running")[Len(lives) + 1] = "running"
          /\ \A d \in 1 .. Len(lives) : Append(lives, "running")[d] = lives[d]
      BY <1>1, AppendProperties DEF Lives
    <3> QED
      BY <3>1, <1>1, <1>3, <1>6, LenProperties
  <2>2. job.redirect_count \in 0 .. MaxRedirect /\ count <= MaxRedirect /\ count \in Nat
    BY <1>1, <1>6, TasksAssumption DEF TooMany, Jobs_
  <2>3. /\ new.task = job.task /\ new.downloader = Len(life) + 1
        /\ new.redirect_count = count
    BY <1>1, <2>1 DEF Jobs_
  <2>4. Len(job_list') = n /\ \A k \in 1 .. n : job_list'[k] = IF k = i THEN new ELSE job_list[k]
    <3>1. new \in Jobs_
      <4>1. count \in 0 .. MaxRedirect /\ Len(life') \in Nat
        BY <2>1, <2>2, TasksAssumption
      <4> QED
        BY <4>1, <1>1 DEF Jobs_
    <3>2. job_list' = [job_list EXCEPT ![i] = new]
      BY <1>6
    <3> HIDE DEF new
    <3> QED
      BY <3>1, <3>2, <1>1, <1>3, ExceptSeq
  <2> HIDE DEF new, job
  <2>5. \A j \in 1 .. n : /\ job_list[j].task \in Tasks
                          /\ j # i => /\ job_list[j].task # job.task
                                       /\ job_list[j].downloader # job.downloader
    <3>1. \A j \in 1 .. n : job_list[j] \in Jobs_
      BY <1>3, ElementOfSeq
    <3> QED
      BY <3>1, <1>1, <1>3 DEF Alive, Jobs_, job
  <2>6. \A j \in 1 .. n : /\ job_list[j].downloader \in 1 .. Len(life)
                          /\ life[job_list[j].downloader] = "running"
                          /\ fate[job_list[j].task] = "running"
    BY <1>3 DEF Alive
  <2>7. tries[job.task] = count
    BY <1>1, <1>3 DEF Tally, job
  <2>8. \A t \in Tasks : tries'[t] = IF t = job.task THEN tries[t] + 1 ELSE tries[t]
    BY <1>1, <1>3, <1>6
  <2>9. fate[job.task] = "running"
    BY <1>1, <2>6 DEF job
  <2>10. Fresh(fate', tries', next')
    BY <1>3, <1>6, <2>8, <2>9 DEF Fresh
  <2>11. RedirectsBounded'
    <3> SUFFICES ASSUME NEW t \in Tasks PROVE tries'[t] <= MaxRedirect + 1
      BY DEF RedirectsBounded
    <3> HIDE DEF count
    <3>1. CASE t = job.task
      BY <3>1, <2>2, <2>7, <2>8, TasksAssumption
    <3>2. CASE t # job.task
      BY <3>2, <1>3, <2>8 DEF RedirectsBounded
    <3> QED
      BY <3>1, <3>2
  <2>12. Tally(job_list', tries')
    <3> SUFFICES ASSUME NEW k \in 1 .. n
                 PROVE  tries'[job_list'[k].task] = job_list'[k].redirect_count + 1
      BY <2>4 DEF Tally
    <3>1. CASE k = i
      BY <3>1, <1>1, <2>3, <2>4, <2>7, <2>8
    <3>2. CASE k # i
      BY <3>2, <1>3, <2>4, <2>5, <2>8 DEF Tally
    <3> QED
      BY <3>1, <3>2
  <2>13. Alive(job_list', fate', life')
    <3>1. ASSUME NEW k \in 1 .. n, NEW m \in 1 .. n, k # m
          PROVE  /\ job_list'[k].task # job_list'[m].task
                 /\ job_list'[k].downloader # job_list'[m].downloader
      <4>1. \A j \in 1 .. n : job_list[j].downloader # Len(life) + 1
        BY <2>1, <2>6
      <4>2. CASE k = i
        BY <4>1, <4>2, <3>1, <2>3, <2>4, <2>5
      <4>3. CASE m = i
        BY <4>1, <4>3, <3>1, <2>3, <2>4, <2>5
      <4>4. CASE k # i /\ m # i
        BY <4>4, <3>1, <2>4, <1>3 DEF Alive
      <4> QED
        BY <4>2, <4>3, <4>4
    <3>2. ASSUME NEW k \in 1 .. n
          PROVE  /\ job_list'[k].downloader \in 1 .. Len(life')
                 /\ life'[job_list'[k].downloader] = "running"
                 /\ fate'[job_list'[k].task] = "running"
      <4>1. CASE k = i
        <5>1. Len(life) + 1 \in 1 .. Len(life')
          BY <2>1
        <5>2. job_list'[k].downloader = Len(life) + 1 /\ job_list'[k].task = job.task
          BY <4>1, <1>1, <2>3, <2>4
        <5> QED
          BY <5>1, <5>2, <1>6, <2>1, <2>9
      <4>2. CASE k # i
        BY <4>2, <1>6, <2>1, <2>4, <2>5, <2>6
      <4> QED
        BY <4>1, <4>2
    <3>3. ASSUME NEW d \in 1 .. Len(life'), life'[d] = "running"
          PROVE  \E k \in 1 .. n : job_list'[k].downloader = d
      <4>1. CASE d = Len(life) + 1
        BY <4>1, <1>1, <2>3, <2>4
      <4>2. CASE d \in 1 .. Len(life)
        <5>1. d # job.downloader /\ life[d] = "running"
          BY <4>2, <3>3, <2>1
        <5>2. PICK k \in 1 .. n : job_list[k].downloader = d
          BY <4>2, <5>1, <1>3 DEF Alive
        <5>3. k # i
          BY <5>1, <5>2 DEF job
        <5> QED
          BY <5>2, <5>3, <2>4
      <4> QED
        BY <4>1, <4>2, <2>1
    <3>4. ASSUME NEW t \in Tasks, fate'[t] = "running"
          PROVE  \E k \in 1 .. n : job_list'[k].task = t
      <4>1. PICK k \in 1 .. n : job_list[k].task = t
        BY <3>4, <1>3, <1>6 DEF Alive
      <4>2. job_list'[k].task = t
        BY <4>1, <2>3, <2>4 DEF job
      <4> QED
        BY <4>2
    <3> QED
      BY <3>1, <3>2, <3>3, <3>4, <2>4 DEF Alive
  <2> QED
    BY <2>10, <2>11, <2>12, <2>13 DEF LedgerInv
<1> QED
  BY <1>4, <1>5, <1>6 DEF Redirect

LEMMA LedgerInit == Init => LedgerInv
<1> SUFFICES ASSUME Init PROVE LedgerInv
  OBVIOUS
<1>1. /\ Len(job_list) = 0 /\ Len(life) = 0 /\ next = 1
      /\ \A t \in Tasks : fate[t] = "waiting" /\ tries[t] = 0 /\ t >= 1
  BY DEF Init, Tasks
<1>2. Alive(job_list, fate, life)
  BY <1>1 DEF Alive
<1>3. Fresh(fate, tries, next) /\ Tally(job_list, tries)
  BY <1>1 DEF Fresh, Tally
<1>4. RedirectsBounded
  BY <1>1, TasksAssumption DEF RedirectsBounded
<1> QED
  BY <1>2, <1>3, <1>4 DEF LedgerInv

(* The start loop adds a job, with a downloader and a task of its own, or drops the task. *)
LEMMA StartLedger ==
  ASSUME JobInv, LedgerInv, NEW ok \in BOOLEAN, StartTurn(ok)
  PROVE  LedgerInv'
<1> DEFINE new   == Job(next, Len(life) + 1)
           start == IF ok THEN "running" ELSE "refused"
           n     == Len(job_list)
<1>1. /\ job_list \in Seq(Jobs_) /\ fate \in [Tasks -> Fates] /\ life \in Seq(Lives)
      /\ tries \in [Tasks -> Nat] /\ next \in Tasks /\ n \in Nat /\ Len(life) \in Nat
      /\ MaxRedirect \in Nat /\ Len(life) + 1 \in Nat
  BY TypeSplit, LenProperties, TasksAssumption DEF JobInv, StartTurn, Tasks
<1>2. /\ next' = next + 1 /\ life' = Append(life, start)
      /\ job_list' = IF ok THEN Append(job_list, new) ELSE job_list
      /\ fate' = [fate EXCEPT ![next] = IF ok THEN "running" ELSE "failed"]
      /\ tries' = [tries EXCEPT ![next] = 1]
  BY DEF StartTurn
<1>3. /\ Alive(job_list, fate, life) /\ Fresh(fate, tries, next)
      /\ Tally(job_list, tries) /\ RedirectsBounded
  BY DEF LedgerInv
<1>4. start \in Lives /\ new \in Jobs_ /\ new.task = next
      /\ new.downloader = Len(life) + 1 /\ new.redirect_count = 0
  BY <1>1 DEF Lives, Job, Jobs_
<1>5. ok => start = "running"
  OBVIOUS
<1>6. ~ok => start = "refused"
  OBVIOUS
<1> HIDE DEF new, start
<1>7. /\ Len(life') = Len(life) + 1 /\ life'[Len(life) + 1] = start
      /\ \A d \in 1 .. Len(life) : life'[d] = life[d]
  BY <1>1, <1>2, <1>4, AppendProperties
<1>8. \A t \in Tasks :
        /\ fate'[t] = IF t = next THEN (IF ok THEN "running" ELSE "failed") ELSE fate[t]
        /\ tries'[t] = IF t = next THEN 1 ELSE tries[t]
  BY <1>1, <1>2
<1>9. \A k \in 1 .. n : /\ job_list[k].task \in Tasks /\ job_list[k].task # next
                        /\ job_list[k].downloader \in 1 .. Len(life)
                        /\ life[job_list[k].downloader] = "running"
                        /\ fate[job_list[k].task] = "running"
  <2> TAKE k \in 1 .. n
  <2>1. job_list[k].task \in Tasks
    <3>1. job_list[k] \in Jobs_
      BY <1>1, ElementOfSeq
    <3> QED
      BY <3>1 DEF Jobs_
  <2>2. fate[next] = "waiting"
    BY <1>1, <1>3 DEF Fresh, Tasks
  <2> QED
    BY <2>1, <2>2, <1>3 DEF Alive
<1>10. Fresh(fate', tries', next')
  <2> SUFFICES ASSUME NEW t \in Tasks
               PROVE  (fate'[t] = "waiting" <=> t >= next') /\ (t >= next' => tries'[t] = 0)
    BY DEF Fresh
  <2>1. CASE t = next
    BY <2>1, <1>2, <1>8 DEF Tasks
  <2>2. CASE t # next
    <3>1. t >= next' <=> t >= next
      BY <2>2, <1>1, <1>2 DEF Tasks
    <3> QED
      BY <3>1, <2>2, <1>3, <1>8 DEF Fresh
  <2> QED
    BY <2>1, <2>2
<1>11. RedirectsBounded'
  BY <1>1, <1>3, <1>8 DEF RedirectsBounded
<1>12. CASE ~ok
  <2>1. job_list' = job_list
    BY <1>2, <1>12
  <2>2. Tally(job_list, tries')
    BY <1>3, <1>8, <1>9 DEF Tally
  <2>3. \A d \in 1 .. Len(life') : life'[d] = "running" => d \in 1 .. Len(life) /\ life[d] = "running"
    BY <1>1, <1>6, <1>7, <1>12
  <2>4. \A k \in 1 .. n : /\ job_list[k].downloader \in 1 .. Len(life')
                          /\ life'[job_list[k].downloader] = "running"
                          /\ fate'[job_list[k].task] = "running"
    BY <1>1, <1>7, <1>8, <1>9
  <2>5. \A t \in Tasks : fate'[t] = "running" => fate[t] = "running"
    BY <1>8, <1>12
  <2>6. Alive(job_list, fate', life')
    BY <2>3, <2>4, <2>5, <1>3 DEF Alive
  <2> QED
    BY <2>1, <2>2, <2>6, <1>10, <1>11 DEF LedgerInv
<1>13. CASE ok
  <2>1. /\ Len(job_list') = n + 1 /\ job_list'[n + 1] = new
        /\ \A k \in 1 .. n : job_list'[k] = job_list[k]
    BY <1>1, <1>2, <1>4, <1>13, AppendProperties
  <2>2. \A k \in 1 .. n + 1 : k \in 1 .. n \/ k = n + 1
    BY <1>1
  <2>3. n + 1 \in 1 .. n + 1 /\ \A k \in 1 .. n : k \in 1 .. n + 1
    BY <1>1
  <2>4. Tally(job_list', tries')
    <3> SUFFICES ASSUME NEW k \in 1 .. n + 1
                 PROVE  tries'[job_list'[k].task] = job_list'[k].redirect_count + 1
      BY <2>1 DEF Tally
    <3>1. CASE k \in 1 .. n
      BY <3>1, <2>1, <1>3, <1>8, <1>9 DEF Tally
    <3>2. CASE k = n + 1
      BY <3>2, <2>1, <1>1, <1>4, <1>8
    <3> QED
      BY <3>1, <3>2, <2>2
  <2>5. ASSUME NEW k \in 1 .. n + 1, NEW m \in 1 .. n + 1, k # m
        PROVE  /\ job_list'[k].task # job_list'[m].task
               /\ job_list'[k].downloader # job_list'[m].downloader
    <3>1. \A j \in 1 .. n : job_list[j].downloader # Len(life) + 1
      BY <1>1, <1>9
    <3>2. CASE k = n + 1
      BY <3>1, <3>2, <2>1, <2>2, <2>5, <1>4, <1>9
    <3>3. CASE m = n + 1
      BY <3>1, <3>3, <2>1, <2>2, <2>5, <1>4, <1>9
    <3>4. CASE k \in 1 .. n /\ m \in 1 .. n
      BY <3>4, <2>1, <2>5, <1>3 DEF Alive
    <3> QED
      BY <3>2, <3>3, <3>4, <2>2
  <2>6. ASSUME NEW k \in 1 .. n + 1
        PROVE  /\ job_list'[k].downloader \in 1 .. Len(life')
               /\ life'[job_list'[k].downloader] = "running"
               /\ fate'[job_list'[k].task] = "running"
    <3>1. CASE k \in 1 .. n
      <4>1. /\ job_list'[k] = job_list[k] /\ job_list[k].downloader \in 1 .. Len(life)
            /\ life[job_list[k].downloader] = "running" /\ job_list[k].task \in Tasks
            /\ fate[job_list[k].task] = "running" /\ job_list[k].task # next
        BY <3>1, <2>1, <1>9
      <4>2. /\ life'[job_list[k].downloader] = "running" /\ fate'[job_list[k].task] = "running"
        BY <4>1, <1>7, <1>8
      <4> QED
        BY <4>1, <4>2, <1>1, <1>7
    <3>2. CASE k = n + 1
      <4>1. Len(life) + 1 \in 1 .. Len(life')
        BY <1>1, <1>7
      <4>2. job_list'[k].downloader = Len(life) + 1 /\ job_list'[k].task = next
        BY <3>2, <2>1, <1>4
      <4> QED
        BY <4>1, <4>2, <1>1, <1>5, <1>7, <1>8, <1>13
    <3> QED
      BY <3>1, <3>2, <2>2
  <2>7. ASSUME NEW d \in 1 .. Len(life'), life'[d] = "running"
        PROVE  \E k \in 1 .. n + 1 : job_list'[k].downloader = d
    <3>1. CASE d \in 1 .. Len(life)
      <4>1. PICK k \in 1 .. n : job_list[k].downloader = d
        BY <3>1, <2>7, <1>3, <1>7 DEF Alive
      <4> QED
        BY <4>1, <2>1, <2>3
    <3>2. CASE d \notin 1 .. Len(life)
      <4>1. d = Len(life) + 1
        BY <3>2, <1>1, <1>7
      <4> QED
        BY <4>1, <2>1, <2>3, <1>4
    <3> QED
      BY <3>1, <3>2
  <2>8. ASSUME NEW t \in Tasks, fate'[t] = "running"
        PROVE  \E k \in 1 .. n + 1 : job_list'[k].task = t
    <3>1. CASE t = next
      BY <3>1, <2>1, <2>3, <1>4
    <3>2. CASE t # next
      <4>1. PICK k \in 1 .. n : job_list[k].task = t
        BY <3>2, <2>8, <1>3, <1>8 DEF Alive
      <4> QED
        BY <4>1, <2>1, <2>3
    <3> QED
      BY <3>1, <3>2
  <2>9. Alive(job_list', fate', life')
    BY <2>1, <2>5, <2>6, <2>7, <2>8 DEF Alive
  <2> QED
    BY <2>4, <2>9, <1>10, <1>11 DEF LedgerInv
<1> QED
  BY <1>12, <1>13

LEMMA LedgerNext == JobInv /\ LedgerInv /\ [Next]_vars => LedgerInv'
<1> SUFFICES ASSUME JobInv, LedgerInv, [Next]_vars PROVE LedgerInv'
  OBVIOUS
<1>1. ASSUME UNCHANGED taskVars PROVE LedgerInv'
  <2>1. UNCHANGED <<next, life, job_list, fate, tries>>
    BY <1>1 DEF taskVars
  <2> QED
    BY <2>1 DEF LedgerInv, RedirectsBounded
<1>2. ASSUME NEW ok \in BOOLEAN, StartTurn(ok) PROVE LedgerInv'
  BY <1>2, StartLedger
<1>3. ASSUME NEW i \in DOMAIN job_list, Notified(i) PROVE LedgerInv'
  <2>1. CASE \E n \in Bytes : Ended(i, "done", n)
    BY <2>1, EndedLedger
  <2>2. CASE \E n \in Bytes : Ended(i, "failed", n)
    BY <2>2, EndedLedger
  <2>3. CASE Redirect(i)
    BY <2>3, RedirectLedger
  <2> QED
    BY <1>3, <2>1, <2>2, <2>3 DEF Notified
<1>4. CASE StopNext
  BY <1>4, EndedLedger DEF StopNext
<1>5. CASE \/ EnterLoop \/ Break \/ EndBreak \/ Exit \/ NotifiedAgain \/ UNCHANGED vars
  BY <1>1, <1>5 DEF EnterLoop, Break, EndBreak, Exit, NotifiedAgain, vars
<1> QED
  BY <1>2, <1>3, <1>4, <1>5 DEF Next, Starting, Breaking

LEMMA LedgerCorrect == Spec => [](JobInv /\ LedgerInv)
<1> QED
  BY JobInit, JobNext, LedgerInit, LedgerNext, PTL DEF Spec

(* Every job has a running downloader and a running task of its own, and nothing that
   runs is without its job: find_job finds the job of every downloader that may notify. *)
THEOREM JobsCorrespond == Spec => []JobsAreAlive
<1>1. JobInv /\ LedgerInv => JobsAreAlive
  BY AliveMeans, TypeSplit DEF JobInv, LedgerInv
<1> QED
  BY <1>1, LedgerCorrect, PTL

(* OnTickSimple::redirect asks for a task at most MaxRedirect + 1 times, whatever becomes
   of the jobs around it. *)
THEOREM RedirectsEnd == Spec => []RedirectsBounded
<1>1. JobInv /\ LedgerInv => RedirectsBounded
  BY DEF LedgerInv
<1> QED
  BY <1>1, LedgerCorrect, PTL

-------------------------------------------------------------------------------
(* The job list as a pool of tasks. *)

(* The pool counts with the Cardinality of its own instance of FiniteSets. *)
LEMMA PoolCardinality == \A S : Pool!Cardinality(S) = Cardinality(S)
  BY DEF Pool!Cardinality, Cardinality

(* As many tasks run as there are jobs, or fewer. *)
LEMMA RunningBound ==
  ASSUME NEW jobs \in Seq(Jobs_), NEW f \in [Tasks -> Fates], NEW l \in Seq(Lives),
         Alive(jobs, f, l), Len(jobs) <= Concurrency
  PROVE  Cardinality({ t \in Tasks : f[t] = "running" }) <= Concurrency
<1> DEFINE n == Len(jobs)
           running == { t \in Tasks : f[t] = "running" }
           g == [i \in 1 .. n |-> jobs[i].task]
<1>1. n \in Nat /\ Concurrency \in Nat /\ \A i \in 1 .. n : jobs[i].task \in Tasks
  <2>1. \A i \in 1 .. n : jobs[i] \in Jobs_
    BY ElementOfSeq
  <2> QED
    BY <2>1, LenProperties, TasksAssumption DEF Jobs_
<1>2. g \in Surjection(1 .. n, running)
  <2>1. g \in [1 .. n -> running]
    BY <1>1 DEF Alive
  <2>2. \A t \in running : \E i \in 1 .. n : g[i] = t
    BY DEF Alive
  <2> HIDE DEF g, running
  <2> QED
    BY <2>1, <2>2 DEF Surjection
<1>3. IsFiniteSet(1 .. n) /\ Cardinality(1 .. n) = n
  <2> HIDE DEF n, g, running
  <2>1. n \in Nat /\ n \in Int /\ 1 \in Int
    BY <1>1
  <2>2. IsFiniteSet(1 .. n) /\ Cardinality(1 .. n) = IF 1 > n THEN 0 ELSE n - 1 + 1
    BY <2>1, FS_Interval
  <2> QED
    BY <2>1, <2>2
<1> HIDE DEF g, running
<1>4. IsFiniteSet(running) /\ Cardinality(running) <= n
  BY <1>2, <1>3, FS_Surjection
<1>5. Cardinality(running) \in Nat
  BY <1>4, FS_CardinalityType
<1> QED
  BY <1>1, <1>4, <1>5 DEF running

(* One task e ends at most, those up to `upto` are taken, and the last of them starts if
   `found`: that is a step of the pool. *)
LEMMA PoolStep ==
  ASSUME fate \in [Tasks -> Fates], fate' \in [Tasks -> Fates],
         Fresh(fate, tries, next), next \in 1 .. NTasks + 1, UNCHANGED broken,
         Cardinality({ t \in Tasks : fate'[t] = "running" }) <= Concurrency,
         NEW e, NEW s \in {"done", "failed"}, e \in Tasks => fate[e] = "running",
         NEW upto \in next - 1 .. NTasks, NEW found \in BOOLEAN,
         found => upto >= next,
         upto >= next => ~broken,
         ~broken /\ e \in Tasks /\ ~found => upto = NTasks,
         \A t \in Tasks : fate'[t] = IF t \notin next .. upto
                                     THEN IF t = e THEN s ELSE fate[t]
                                     ELSE IF found /\ t = upto THEN "running" ELSE "failed"
  PROVE  Pool!Advance
<1> DEFINE taken   == Pool!In(fate, "waiting") \ Pool!In(fate', "waiting")
           started == Pool!In(fate', "running") \ Pool!In(fate, "running")
           ended   == Pool!In(fate, "running") \ Pool!In(fate', "running")
<1>0. /\ NTasks \in Nat /\ next \in Nat /\ upto \in Int /\ Pool!Tasks = Tasks
      /\ \A t \in Tasks : t \in Nat /\ t <= NTasks
  BY TasksAssumption DEF Tasks, Pool!Tasks
<1>1. \A t \in Tasks : fate[t] = "waiting" <=> t >= next
  BY DEF Fresh
<1>2. e \in Tasks => e < next
  BY <1>0, <1>1
<1>3. \A t \in Tasks : fate'[t] = "waiting" <=> t > upto
  <2> TAKE t \in Tasks
  <2>1. CASE t \in next .. upto
    BY <2>1, <1>0
  <2>2. CASE t \notin next .. upto /\ t = e
    BY <2>2, <1>0, <1>2
  <2>3. CASE t \notin next .. upto /\ t # e
    BY <2>3, <1>0, <1>1
  <2> QED
    BY <2>1, <2>2, <2>3
<1>4. \A t : t \in taken <=> t \in Tasks /\ t \in next .. upto
  BY <1>0, <1>1, <1>3 DEF Pool!In
<1>5. \A t : t \in started <=> t \in Tasks /\ found /\ t = upto
  <2>1. \A t \in Tasks : t \in next .. upto => fate[t] # "running"
    BY <1>0, <1>1
  <2>2. \A t : t \in started <=> t \in Tasks /\ fate'[t] = "running" /\ fate[t] # "running"
    BY <1>0 DEF Pool!In
  <2>3. found => upto \in next .. upto
    BY <1>0
  <2> QED
    BY <2>1, <2>2, <2>3
<1>6. ended \subseteq {e} /\ (ended # {} => e \in Tasks)
  <2>1. \A t \in Tasks : fate[t] = "running" /\ fate'[t] # "running" => t = e
    BY <1>0, <1>1
  <2>2. \A t : t \in ended <=> t \in Tasks /\ fate[t] = "running" /\ fate'[t] # "running"
    BY <1>0 DEF Pool!In
  <2> QED
    BY <2>1, <2>2
<1>7. Cardinality(ended) <= 1
  <2> HIDE DEF ended
  <2>1. IsFiniteSet({e}) /\ Cardinality({e}) = 1
    BY FS_Singleton
  <2>2. IsFiniteSet(ended) /\ Cardinality(ended) <= Cardinality({e})
    BY <2>1, <1>6, FS_Subset
  <2> QED
    BY <2>1, <2>2
<1>8. Pool!In(fate', "waiting") = { t \in Tasks : t > upto }
  BY <1>0, <1>3 DEF Pool!In
<1>9. taken # {} => ~broken
  BY <1>0, <1>4
<1>10. \A t \in taken : /\ \A u \in Pool!In(fate', "waiting") : t < u
                        /\ \A u \in started : t <= u
                        /\ t \in started \/ fate'[t] = "failed"
  <2> TAKE t \in taken
  <2>1. t \in Tasks /\ t \in next .. upto
    BY <1>4
  <2>2. \A u \in Pool!In(fate', "waiting") : t < u
    BY <2>1, <1>0, <1>8
  <2>3. \A u \in started : t <= u
    BY <2>1, <1>0, <1>5
  <2>4. t \in started \/ fate'[t] = "failed"
    BY <2>1, <1>5
  <2> QED
    BY <2>2, <2>3, <2>4
<1>11. started \subseteq taken
  BY <1>0, <1>4, <1>5
<1>12. ~broken /\ ended # {} => started # {} \/ Pool!In(fate', "waiting") = {}
  <2> SUFFICES ASSUME ~broken, ended # {}
               PROVE  started # {} \/ Pool!In(fate', "waiting") = {}
    OBVIOUS
  <2>1. CASE found
    <3>1. upto \in Tasks
      BY <2>1, <1>0 DEF Tasks
    <3> QED
      BY <3>1, <2>1, <1>5
  <2>2. CASE ~found
    <3>1. upto = NTasks
      BY <2>2, <1>6
    <3> QED
      BY <3>1, <1>0, <1>8
  <2> QED
    BY <2>1, <2>2
<1>13. \A t \in Tasks : fate[t] \in {"done", "failed"} => fate'[t] = fate[t]
  <2> TAKE t \in Tasks
  <2>1. fate[t] \in {"done", "failed"} => t # e /\ t \notin next .. upto
    BY <1>0, <1>1
  <2> QED
    BY <2>1
<1>14. Cardinality(Pool!In(fate', "running")) <= Concurrency
  BY <1>0 DEF Pool!In
<1>15. Pool!Work(fate')
  <2> HIDE DEF taken, started, ended
  <2>1. /\ taken = Pool!In(fate, "waiting") \ Pool!In(fate', "waiting")
        /\ started = Pool!In(fate', "running") \ Pool!In(fate, "running")
        /\ ended = Pool!In(fate, "running") \ Pool!In(fate', "running")
    BY DEF taken, started, ended
  <2>2. /\ Pool!Cardinality(ended) <= 1
        /\ Pool!Cardinality(Pool!In(fate', "running")) <= Concurrency
    BY <1>7, <1>14, PoolCardinality
  <2> QED
    BY <2>1, <2>2, <1>0, <1>9, <1>10, <1>11, <1>12, <1>13 DEF Pool!Work
<1> QED
  BY <1>0, <1>15 DEF Pool!Advance, Fates

(* A notification that ends task e and goes on with next_task. *)
LEMMA NextTaskPool ==
  ASSUME JobInv, JobInv', LedgerInv, LedgerInv', UNCHANGED broken,
         NEW e \in Tasks, fate[e] = "running", NEW s \in {"done", "failed"},
         NEW rest \in Seq(Jobs_), NEW lives \in Seq(Lives),
         NextTask(rest, [fate EXCEPT ![e] = s], lives)
  PROVE  Pool!Advance
<1> DEFINE f == [fate EXCEPT ![e] = s]
<1>1. /\ fate \in [Tasks -> Fates] /\ fate' \in [Tasks -> Fates]
      /\ next \in 1 .. NTasks + 1 /\ Fresh(fate, tries, next) /\ NTasks \in Nat
  BY TypeSplit, TasksAssumption DEF JobInv, LedgerInv, TypeOK
<1>2. Cardinality({ t \in Tasks : fate'[t] = "running" }) <= Concurrency
  <2>1. /\ job_list' \in Seq(Jobs_) /\ life' \in Seq(Lives)
        /\ Alive(job_list', fate', life') /\ Len(job_list') <= Concurrency
    BY DEF JobInv, LedgerInv, ConcurrencyBound, TypeOK, Jobs_, Lives, Tasks
  <2> QED
    BY <1>1, <2>1, RunningBound
<1>3. /\ f \in [Tasks -> Fates] /\ s \in Fates
      /\ \A t \in Tasks : f[t] = IF t = e THEN s ELSE fate[t]
  BY <1>1 DEF Fates
<1>4. broken <=> ~factory
  BY DEF JobInv
<1> HIDE DEF f
<1>5. CASE ~factory
  <2>1. fate' = f
    BY <1>1, <1>3, <1>5, NextTaskEffect DEF f
  <2>2. PICK upto \in next - 1 .. NTasks, found \in BOOLEAN : upto = next - 1 /\ ~found
    <3>1. next - 1 \in next - 1 .. NTasks
      BY <1>1
    <3>2. \E found \in BOOLEAN : ~found
      OBVIOUS
    <3> QED
      BY <3>1, <3>2
  <2>3. ~(upto >= next) /\ \A t \in Tasks : t \notin next .. upto
    BY <1>1, <2>2 DEF Tasks
  <2>4. \A t \in Tasks : fate'[t] = IF t \notin next .. upto
                                    THEN IF t = e THEN s ELSE fate[t]
                                    ELSE IF found /\ t = upto THEN "running"
                                    ELSE "failed"
    BY <1>3, <2>1, <2>3
  <2> QED
    BY <1>1, <1>2, <1>4, <1>5, <2>2, <2>3, <2>4, PoolStep
<1>6. CASE factory
  <2>1. PICK upto \in next - 1 .. NTasks, found \in BOOLEAN : Taken(upto, found, rest, f, lives)
    BY <1>1, <1>3, <1>6, NextTaskEffect DEF f
  <2>2. /\ found => upto >= next
        /\ ~found => upto = NTasks
        /\ \A t \in Tasks : fate'[t] = IF t \notin next .. upto
                                       THEN IF t = e THEN s ELSE fate[t]
                                       ELSE IF found /\ t = upto THEN "running"
                                       ELSE "failed"
    BY <1>3, <2>1 DEF Taken
  <2> QED
    BY <1>1, <1>2, <1>4, <1>6, <2>1, <2>2, PoolStep
<1> QED
  BY <1>5, <1>6

\* what the pool sees
poolVars == <<fate, ~broken>>

LEMMA PoolInit == Init => Pool!Init
<1> SUFFICES ASSUME Init PROVE Pool!Init
  OBVIOUS
<1>1. Tasks = Pool!Tasks
  BY DEF Tasks, Pool!Tasks
<1> QED
  BY <1>1 DEF Init, Pool!Init

LEMMA PoolNext ==
  JobInv /\ LedgerInv /\ JobInv' /\ LedgerInv' /\ [Next]_vars => [Pool!Next]_poolVars
<1> SUFFICES ASSUME JobInv, LedgerInv, JobInv', LedgerInv', [Next]_vars
             PROVE  Pool!Advance \/ Pool!Interrupt \/ UNCHANGED <<fate, broken>>
  BY DEF Pool!Next, poolVars
<1>1. /\ fate \in [Tasks -> Fates] /\ next \in 1 .. NTasks + 1 /\ tries \in [Tasks -> Nat]
      /\ Fresh(fate, tries, next) /\ NTasks \in Nat /\ fate' \in [Tasks -> Fates]
  BY TypeSplit, TasksAssumption DEF JobInv, LedgerInv, TypeOK
<1>2. ASSUME NEW ok \in BOOLEAN, StartTurn(ok) PROVE Pool!Advance
  <2>1. /\ UNCHANGED broken /\ pc = "start" /\ next \in Tasks /\ ~broken
        /\ fate' = [fate EXCEPT ![next] = IF ok THEN "running" ELSE "failed"]
    BY <1>1, <1>2 DEF StartTurn, JobInv, Tasks
  <2>2. Cardinality({ t \in Tasks : fate'[t] = "running" }) <= Concurrency
    <3>1. /\ job_list' \in Seq(Jobs_) /\ life' \in Seq(Lives)
          /\ Alive(job_list', fate', life') /\ Len(job_list') <= Concurrency
      BY DEF JobInv, LedgerInv, ConcurrencyBound, TypeOK, Jobs_, Lives, Tasks
    <3> QED
      BY <1>1, <3>1, RunningBound
  <2>3. /\ next \in next - 1 .. NTasks /\ 0 \notin Tasks /\ "done" \in {"done", "failed"}
        /\ next >= next
    BY <1>1, <2>1 DEF Tasks
  <2>4. \A t \in Tasks : fate'[t] = IF t \notin next .. next
                                    THEN IF t = 0 THEN "done" ELSE fate[t]
                                    ELSE IF ok /\ t = next THEN "running" ELSE "failed"
    <3>1. \A t \in Tasks : t \in next .. next <=> t = next
      BY <1>1 DEF Tasks
    <3> QED
      BY <1>1, <2>1, <2>3, <3>1
  <2> QED
    BY <1>1, <2>1, <2>2, <2>3, <2>4, PoolStep
<1>3. ASSUME NEW i \in DOMAIN job_list
      PROVE  /\ job_list[i].task \in Tasks /\ fate[job_list[i].task] = "running"
             /\ Without(i) \in Seq(Jobs_) /\ Over(job_list[i]) \in Seq(Lives)
             /\ Append(Over(job_list[i]), "refused") \in Seq(Lives)
  <2>1. "failed" \in Fates
    BY DEF Fates
  <2>2. /\ job_list[i].task \in Tasks /\ i \in 1 .. Len(job_list)
        /\ Without(i) \in Seq(Jobs_) /\ Over(job_list[i]) \in Seq(Lives)
    BY <2>1, EndedSeq
  <2>3. fate[job_list[i].task] = "running"
    BY <2>2 DEF LedgerInv, Alive
  <2>4. Append(Over(job_list[i]), "refused") \in Seq(Lives)
    BY <2>2, AppendProperties DEF Lives
  <2> QED
    BY <2>2, <2>3, <2>4
<1>4. ASSUME NEW i \in DOMAIN job_list, NEW s \in {"done", "failed"}, NEW n, Ended(i, s, n),
             UNCHANGED broken
      PROVE  Pool!Advance
  <2>1. NextTask(Without(i), [fate EXCEPT ![job_list[i].task] = s], Over(job_list[i]))
    BY <1>4 DEF Ended
  <2> QED
    BY <1>3, <1>4, <2>1, NextTaskPool
<1>5. ASSUME NEW i \in DOMAIN job_list, Redirect(i), UNCHANGED broken
      PROVE  Pool!Advance \/ UNCHANGED <<fate, broken>>
  <2> DEFINE f == [fate EXCEPT ![job_list[i].task] = "failed"]
  <2>1. CASE NextTask(Without(i), f, Over(job_list[i]))
    BY <1>3, <1>5, <2>1, NextTaskPool
  <2>2. CASE NextTask(Without(i), f, Append(Over(job_list[i]), "refused"))
    BY <1>3, <1>5, <2>2, NextTaskPool
  <2>3. CASE UNCHANGED fate
    BY <1>5, <2>3
  <2> QED
    BY <1>5, <2>1, <2>2, <2>3 DEF Redirect
<1>6. ASSUME NEW i \in DOMAIN job_list, Notified(i)
      PROVE  Pool!Advance \/ UNCHANGED <<fate, broken>>
  BY <1>4, <1>5, <1>6 DEF Notified
<1>7. CASE StopNext
  BY <1>4, <1>7 DEF StopNext
<1>8. CASE Break
  BY <1>8 DEF Break, Pool!Interrupt, taskVars
<1>9. CASE \/ EnterLoop \/ EndBreak \/ Exit \/ NotifiedAgain \/ UNCHANGED vars
  BY <1>9 DEF EnterLoop, EndBreak, Exit, NotifiedAgain, vars, taskVars
<1> QED
  BY <1>2, <1>6, <1>7, <1>8, <1>9 DEF Next, Starting, Breaking

(* The job list, the factory and the notifications implement the pool: tasks are taken in
   their order, at most -n run, and next_task replaces a job that ends in the same
   notification, until the break or the last task. *)
THEOREM PoolImplemented == Spec => ImplementsPool
<1> QED
  BY JobInit, LedgerInit, JobNext, LedgerNext, PoolInit, PoolNext, PTL
     DEF Spec, ImplementsPool, Pool!Spec, poolVars

-------------------------------------------------------------------------------
(* The tasks are gone through. *)

\* once a download has started, an empty job list means that the tasks are used up
Worked == (\E d \in DOMAIN life : life[d] # "refused") /\ ~broken
             => job_list # <<>> \/ next > NTasks

WorkInv == Worked /\ (pc = "exit" => job_list = <<>>)

LEMMA NextTaskWorks ==
  ASSUME next \in 1 .. NTasks + 1, factory,
         NEW rest \in Seq(Jobs_), NEW f \in [Tasks -> Fates], NEW lives \in Seq(Lives),
         NextTask(rest, f, lives)
  PROVE  job_list' # <<>> \/ next' > NTasks
<1>1. PICK upto \in next - 1 .. NTasks, found \in BOOLEAN : Taken(upto, found, rest, f, lives)
  BY NextTaskEffect
<1>2. CASE found
  <2>1. job_list' = Append(rest, Job(upto, Len(life')))
    BY <1>1, <1>2 DEF Taken
  <2>2. Len(job_list') = Len(rest) + 1 /\ Len(rest) \in Nat
    BY <2>1, AppendProperties, LenProperties
  <2> QED
    BY <2>2
<1>3. CASE ~found
  BY <1>1, <1>3, TasksAssumption DEF Taken
<1> QED
  BY <1>2, <1>3

LEMMA WorkNext == JobInv /\ WorkInv /\ JobInv' /\ [Next]_vars => WorkInv'
<1> SUFFICES ASSUME JobInv, WorkInv, JobInv', [Next]_vars PROVE WorkInv'
  OBVIOUS
<1> USE DEF WorkInv
<1>1. /\ next \in 1 .. NTasks + 1 /\ NTasks \in Nat /\ job_list \in Seq(Jobs_)
      /\ life \in Seq(Lives) /\ (broken' <=> ~factory') /\ "failed" \in Fates
  BY TypeSplit, TasksAssumption DEF JobInv, OtherTypes, TypeOK, Jobs_, Lives, Fates
<1>2. ASSUME NEW ok \in BOOLEAN, StartTurn(ok) PROVE WorkInv'
  <2>1. pc' = "start" /\ next <= NTasks /\ UNCHANGED broken
        /\ life' = Append(life, IF ok THEN "running" ELSE "refused")
    BY <1>2 DEF StartTurn
  <2>2. CASE ok
    <3>1. job_list' = Append(job_list, Job(next, Len(life) + 1))
      BY <1>2, <2>2 DEF StartTurn
    <3>2. Len(job_list') = Len(job_list) + 1 /\ Len(job_list) \in Nat
      BY <1>1, <3>1, AppendProperties, LenProperties
    <3> QED
      BY <2>1, <3>2 DEF Worked
  <2>3. CASE ~ok
    <3>1. life' = Append(life, "refused") /\ job_list' = job_list
      BY <1>2, <2>3 DEF StartTurn
    <3>2. ASSUME NEW d \in DOMAIN life', life'[d] # "refused"
          PROVE  d \in DOMAIN life /\ life[d] # "refused"
      BY <1>1, <3>1, <3>2, AppendProperties, LenProperties
    <3>3. (\E d \in DOMAIN life' : life'[d] # "refused") /\ ~broken => job_list # <<>>
      BY <1>1, <2>1, <3>2 DEF Worked
    <3> QED
      BY <2>1, <3>1, <3>3 DEF Worked
  <2> QED
    BY <2>2, <2>3
<1>3. ASSUME NEW rest \in Seq(Jobs_), NEW f \in [Tasks -> Fates], NEW lives \in Seq(Lives),
             NextTask(rest, f, lives), pc' # "exit", UNCHANGED <<broken, factory>>
      PROVE  WorkInv'
  <2>1. CASE factory
    <3>1. job_list' # <<>> \/ next' > NTasks
      BY <1>1, <1>3, <2>1, NextTaskWorks
    <3> QED
      BY <1>3, <3>1 DEF Worked
  <2>2. CASE ~factory
    BY <1>1, <1>3, <2>2 DEF Worked
  <2> QED
    BY <2>1, <2>2
<1>4. ASSUME NEW i \in DOMAIN job_list
      PROVE  /\ Without(i) \in Seq(Jobs_) /\ Over(job_list[i]) \in Seq(Lives)
             /\ \A s \in Fates : [fate EXCEPT ![job_list[i].task] = s] \in [Tasks -> Fates]
             /\ Append(Over(job_list[i]), "refused") \in Seq(Lives)
  <2>1. Without(i) \in Seq(Jobs_) /\ Over(job_list[i]) \in Seq(Lives)
    BY <1>1, EndedSeq
  <2>2. \A s \in Fates : [fate EXCEPT ![job_list[i].task] = s] \in [Tasks -> Fates]
    BY EndedSeq
  <2> QED
    BY <2>1, <2>2, AppendProperties DEF Lives
<1>5. ASSUME NEW i \in DOMAIN job_list, NEW s \in {"done", "failed"}, NEW n, Ended(i, s, n),
             pc' # "exit", UNCHANGED <<broken, factory>>
      PROVE  WorkInv'
  <2>1. NextTask(Without(i), [fate EXCEPT ![job_list[i].task] = s], Over(job_list[i]))
    BY <1>5 DEF Ended
  <2>2. s \in Fates
    BY DEF Fates
  <2> QED
    BY <1>3, <1>4, <1>5, <2>1, <2>2
<1>6. ASSUME NEW i \in DOMAIN job_list, Redirect(i), pc' # "exit", UNCHANGED <<broken, factory>>
      PROVE  WorkInv'
  <2> DEFINE f == [fate EXCEPT ![job_list[i].task] = "failed"]
  <2>1. f \in [Tasks -> Fates]
    BY <1>1, <1>4
  <2>2. CASE NextTask(Without(i), f, Over(job_list[i]))
    BY <1>3, <1>4, <1>6, <2>1, <2>2
  <2>3. CASE NextTask(Without(i), f, Append(Over(job_list[i]), "refused"))
    BY <1>3, <1>4, <1>6, <2>1, <2>3
  <2>4. CASE job_list' = [job_list EXCEPT ![i].redirect_count = job_list[i].redirect_count + 1,
                                          ![i].downloader = Len(life')]
    <3>1. i \in DOMAIN job_list'
      BY <2>4
    <3>2. job_list' # <<>>
      BY <3>1
    <3> QED
      BY <1>6, <3>2 DEF Worked
  <2> QED
    BY <1>6, <2>2, <2>3, <2>4 DEF Redirect
<1>7. ASSUME NEW i \in DOMAIN job_list, Notified(i) PROVE WorkInv'
  <2>1. pc' # "exit" /\ UNCHANGED <<broken, factory>>
    BY <1>7 DEF Notified
  <2> QED
    BY <1>5, <1>6, <1>7, <2>1 DEF Notified
<1>8. CASE StopNext
  BY <1>5, <1>8 DEF StopNext
<1>9. CASE Break
  BY <1>9 DEF Break, Worked
<1>10. CASE Exit
  BY <1>10 DEF Exit, Worked, taskVars
<1>11. CASE EnterLoop \/ EndBreak \/ NotifiedAgain
  BY <1>11 DEF EnterLoop, EndBreak, NotifiedAgain, Worked, taskVars
<1>12. CASE UNCHANGED vars
  BY <1>12 DEF vars, Worked, taskVars
<1> QED
  BY <1>2, <1>7, <1>8, <1>9, <1>10, <1>11, <1>12 DEF Next, Starting, Breaking

(* The program that nobody interrupted leaves no task untried, if any download has started:
   next_task only lets the job list become empty when the task list has nothing more. *)
THEOREM TasksTried == Spec => []AllTasksProcessed
<1>1. Init => WorkInv
  BY DEF Init, WorkInv, Worked
<1>2. JobInv /\ LedgerInv /\ WorkInv => AllTasksProcessed
  <2> SUFFICES ASSUME JobInv, LedgerInv, WorkInv, pc = "exit", ~broken,
                      \E d \in DOMAIN life : life[d] # "refused", NEW t \in Tasks
               PROVE  fate[t] \in {"done", "failed"}
    BY DEF AllTasksProcessed
  <2>1. job_list = <<>> /\ next > NTasks /\ next \in Nat
    BY TasksAssumption DEF WorkInv, Worked, JobInv
  <2>2. fate[t] # "waiting"
    BY <2>1, TasksAssumption DEF LedgerInv, Fresh, Tasks
  <2>3. fate[t] # "running"
    BY <2>1 DEF LedgerInv, Alive
  <2>4. fate[t] \in Fates
    BY TypeSplit DEF JobInv, TypeOK
  <2> QED
    BY <2>2, <2>3, <2>4 DEF Fates
<1>3. JobInv /\ WorkInv /\ [Next]_vars => WorkInv'
  BY WorkNext, JobNext
<1> QED
  BY <1>1, <1>2, <1>3, LedgerCorrect, PTL DEF Spec

-------------------------------------------------------------------------------
(* The slots. *)

(* Main tries one downloader in each turn of its start loop, and a job or a refusal comes of
   it.  After the loop the number of jobs stays what it was until the tasks are used up. *)
SlotInv ==
  /\ pc = "start" => /\ Len(life) = slot - 1
                     /\ Len(job_list) + Cardinality(RefusedAtStart) = slot - 1
  /\ Len(life) >= slot - 1
  /\ pc # "start" /\ ~broken
       => Len(job_list) = Concurrency - Cardinality(RefusedAtStart) \/ next > NTasks

LEMMA RefusedFinite ==
  ASSUME life \in Seq(Lives)
  PROVE  IsFiniteSet(RefusedAtStart) /\ Cardinality(RefusedAtStart) \in Nat
<1>1. DOMAIN life = 1 .. Len(life) /\ Len(life) \in Nat
  BY LenProperties
<1>2. IsFiniteSet(DOMAIN life)
  BY <1>1, FS_Interval
<1>3. IsFiniteSet(RefusedAtStart)
  BY <1>2, FS_Subset DEF RefusedAtStart
<1> QED
  BY <1>3, FS_CardinalityType

\* what a notification keeps while main holds the factory
SlotKept == \/ Len(job_list') = Len(job_list) /\ next' >= next
            \/ next' > NTasks

(* The downloaders that are made after the start loop, and those that end, are not among
   the ones refused in it. *)
LEMMA RefusedKept ==
  ASSUME slot \in Nat, life \in Seq(Lives), life' \in Seq(Lives), slot' = slot,
         Len(life) >= slot - 1, Len(life') >= Len(life),
         \A d \in 1 .. Len(life) : life'[d] = "refused" <=> life[d] = "refused"
  PROVE  RefusedAtStart' = RefusedAtStart
<1>1. /\ DOMAIN life = 1 .. Len(life) /\ DOMAIN life' = 1 .. Len(life')
      /\ Len(life) \in Nat /\ Len(life') \in Nat
  BY LenProperties
<1>2. \A d \in Nat : d < slot => (d \in DOMAIN life' <=> d \in DOMAIN life)
  BY <1>1
<1> QED
  BY <1>1, <1>2 DEF RefusedAtStart

LEMMA NextTaskSlots ==
  ASSUME next \in 1 .. NTasks + 1, factory, job_list \in Seq(Jobs_),
         NEW rest \in Seq(Jobs_), NEW f \in [Tasks -> Fates], NEW lives \in Seq(Lives),
         NextTask(rest, f, lives), Len(rest) = Len(job_list) - 1
  PROVE  /\ SlotKept /\ life' \in Seq(Lives) /\ Len(life') >= Len(lives)
         /\ \A d \in 1 .. Len(lives) : life'[d] = lives[d]
<1>1. PICK upto \in next - 1 .. NTasks, found \in BOOLEAN : Taken(upto, found, rest, f, lives)
  BY NextTaskEffect
<1>2. NTasks \in Nat /\ Len(rest) \in Nat /\ Len(lives) \in Nat /\ Len(job_list) \in Nat
  BY TasksAssumption, LenProperties
<1>3. /\ life' \in Seq(Lives) /\ Len(life') >= Len(lives)
      /\ \A d \in 1 .. Len(lives) : life'[d] = lives[d]
  BY <1>1, <1>2 DEF Taken
<1>4. CASE found
  <2>1. job_list' = Append(rest, Job(upto, Len(life'))) /\ next' = upto + 1
    BY <1>1, <1>4 DEF Taken
  <2>2. Len(job_list') = Len(rest) + 1
    BY <2>1, AppendProperties
  <2> QED
    BY <1>2, <1>3, <2>1, <2>2 DEF SlotKept
<1>5. CASE ~found
  BY <1>1, <1>2, <1>3, <1>5 DEF Taken, SlotKept
<1> QED
  BY <1>4, <1>5

(* A notification leaves as many jobs as there were, or no task. *)
LEMMA NotifiedSlots ==
  ASSUME JobInv, LedgerInv, factory, NEW i \in DOMAIN job_list,
         \/ \E s \in {"done", "failed"}, n \in Nat : Ended(i, s, n)
         \/ Redirect(i)
  PROVE  /\ SlotKept /\ life' \in Seq(Lives) /\ Len(life') >= Len(life)
         /\ \A d \in 1 .. Len(life) : life'[d] = "refused" <=> life[d] = "refused"
<1> DEFINE job == job_list[i]
           more == Append(Over(job), "refused")
<1>0. /\ job_list \in Seq(Jobs_) /\ life \in Seq(Lives) /\ next \in 1 .. NTasks + 1
      /\ "done" \in Fates /\ "failed" \in Fates /\ Len(life) \in Nat
  BY TypeSplit, LenProperties DEF JobInv, Fates
<1>1. /\ i \in 1 .. Len(job_list) /\ Without(i) \in Seq(Jobs_) /\ job.task \in Tasks
      /\ Over(job) \in Seq(Lives) /\ Len(Over(job)) = Len(life)
      /\ \A d \in 1 .. Len(life) : Over(job)[d] = IF d = job.downloader THEN "over" ELSE life[d]
  BY <1>0, EndedSeq
<1>2. Len(Without(i)) = Len(job_list) - 1
  BY <1>0, WithoutSeq
<1>3. \A s \in {"done", "failed"} : [fate EXCEPT ![job.task] = s] \in [Tasks -> Fates]
  BY <1>0, EndedSeq
<1>4. life[job.downloader] = "running"
  BY <1>1 DEF LedgerInv, Alive
<1>5. \A d \in 1 .. Len(life) : Over(job)[d] = "refused" <=> life[d] = "refused"
  BY <1>1, <1>4
<1>6. /\ more \in Seq(Lives) /\ Len(more) = Len(life) + 1
      /\ \A d \in 1 .. Len(life) : more[d] = Over(job)[d]
  <2>1. "refused" \in Lives
    BY DEF Lives
  <2> QED
    BY <1>0, <1>1, <2>1, AppendProperties
<1> HIDE DEF job, more
<1>7. ASSUME NEW s \in {"done", "failed"}, NEW lives \in {Over(job), more},
             NextTask(Without(i), [fate EXCEPT ![job.task] = s], lives)
      PROVE  /\ SlotKept /\ life' \in Seq(Lives) /\ Len(life') >= Len(life)
             /\ \A d \in 1 .. Len(life) : life'[d] = "refused" <=> life[d] = "refused"
  <2>0. lives \in Seq(Lives)
    BY <1>1, <1>6
  <2> DEFINE rest == Without(i)
             f == [fate EXCEPT ![job.task] = s]
  <2>3. /\ NextTask(rest, f, lives) /\ f \in [Tasks -> Fates]
        /\ rest \in Seq(Jobs_) /\ Len(rest) = Len(job_list) - 1
    BY <1>1, <1>2, <1>3, <1>7
  <2> HIDE DEF rest, f
  <2>1. /\ SlotKept /\ life' \in Seq(Lives) /\ Len(life') >= Len(lives)
        /\ \A d \in 1 .. Len(lives) : life'[d] = lives[d]
    BY ONLY <1>0, <2>0, <2>3, factory, NextTaskSlots
  <2>2. /\ Len(lives) \in Nat /\ Len(lives) >= Len(life) /\ Len(life') \in Nat
        /\ \A d \in 1 .. Len(life) : lives[d] = Over(job)[d]
    <3>1. Len(lives) \in Nat /\ Len(life') \in Nat
      BY ONLY <2>0, <2>1, LenProperties
    <3>2. CASE lives = Over(job)
      BY ONLY <1>0, <1>1, <3>1, <3>2
    <3>3. CASE lives = more
      BY ONLY <1>0, <1>6, <3>1, <3>3
    <3> QED
      BY ONLY <3>1, <3>2, <3>3, lives \in {Over(job), more}
  <2>4. \A d \in 1 .. Len(life) : life'[d] = Over(job)[d]
    BY ONLY <1>0, <2>1, <2>2
  <2> QED
    BY ONLY <1>0, <1>5, <2>1, <2>2, <2>4
<1>8. CASE \E s \in {"done", "failed"}, n \in Nat : Ended(i, s, n)
  BY <1>7, <1>8 DEF Ended, job
<1>9. CASE Redirect(i)
  <2>1. CASE NextTask(Without(i), [fate EXCEPT ![job.task] = "failed"], Over(job))
    BY <1>7, <2>1
  <2>2. CASE NextTask(Without(i), [fate EXCEPT ![job.task] = "failed"], more)
    BY <1>7, <2>2
  <2>3. CASE /\ life' = Append(Over(job), "running") /\ next' = next
             /\ job_list' = [job_list EXCEPT ![i].redirect_count = job.redirect_count + 1,
                                             ![i].downloader = Len(life')]
    <3>1. "running" \in Lives
      BY DEF Lives
    <3>2. /\ life' \in Seq(Lives) /\ Len(life') = Len(life) + 1
          /\ \A d \in 1 .. Len(life) : life'[d] = Over(job)[d]
      BY <1>0, <1>1, <2>3, <3>1, AppendProperties
    <3>3. Len(job_list') = Len(job_list)
      BY <1>0, <2>3
    <3> QED
      BY <1>0, <1>5, <2>3, <3>2, <3>3, TasksAssumption DEF SlotKept
  <2> QED
    BY <1>9, <2>1, <2>2, <2>3 DEF Redirect, job, more
<1> QED
  BY <1>8, <1>9

LEMMA SlotNext == JobInv /\ LedgerInv /\ SlotInv /\ [Next]_vars => SlotInv'
<1> SUFFICES ASSUME JobInv, LedgerInv, SlotInv, [Next]_vars PROVE SlotInv'
  OBVIOUS
<1>0. /\ job_list \in Seq(Jobs_) /\ life \in Seq(Lives) /\ slot \in Nat
      /\ next \in 1 .. NTasks + 1 /\ NTasks \in Nat /\ Concurrency \in Nat
      /\ Len(job_list) \in Nat /\ Len(life) \in Nat /\ (broken <=> ~factory)
      /\ Bytes \subseteq Nat
  BY TypeSplit, LenProperties, TasksAssumption DEF JobInv, OtherTypes
<1>1. IsFiniteSet(RefusedAtStart) /\ Cardinality(RefusedAtStart) \in Nat
  BY <1>0, RefusedFinite
<1>2. ASSUME NEW ok \in BOOLEAN, StartTurn(ok) PROVE SlotInv'
  <2>1. /\ pc = "start" /\ pc' = "start" /\ slot' = slot + 1
        /\ life' = Append(life, IF ok THEN "running" ELSE "refused")
        /\ job_list' = IF ok THEN Append(job_list, Job(next, Len(life) + 1)) ELSE job_list
    BY <1>2 DEF StartTurn
  <2>2. /\ Len(life) = slot - 1 /\ Len(job_list) + Cardinality(RefusedAtStart) = slot - 1
    BY <2>1 DEF SlotInv
  <2>3. /\ Len(life') = slot /\ DOMAIN life' = 1 .. slot /\ DOMAIN life = 1 .. slot - 1
        /\ life'[slot] = (IF ok THEN "running" ELSE "refused")
        /\ \A d \in 1 .. slot - 1 : life'[d] = life[d]
    <3>1. (IF ok THEN "running" ELSE "refused") \in Lives
      BY DEF Lives
    <3>2. /\ life' \in Seq(Lives) /\ Len(life') = Len(life) + 1
          /\ \A d \in 1 .. Len(life) : life'[d] = life[d]
          /\ life'[Len(life) + 1] = IF ok THEN "running" ELSE "refused"
      BY <1>0, <2>1, <3>1, AppendProperties
    <3>3. DOMAIN life' = 1 .. Len(life') /\ DOMAIN life = 1 .. Len(life)
      BY <1>0, <3>2, LenProperties
    <3>4. Len(life) + 1 = slot
      BY <1>0, <2>2
    <3> QED
      BY <2>2, <3>2, <3>3, <3>4
  <2>4. CASE ok
    <3>1. RefusedAtStart' = RefusedAtStart
      BY <1>0, <2>1, <2>3, <2>4 DEF RefusedAtStart
    <3>2. Len(job_list') = Len(job_list) + 1
      BY <1>0, <2>1, <2>4, AppendProperties
    <3> QED
      BY <1>0, <1>1, <2>1, <2>2, <2>3, <3>1, <3>2 DEF SlotInv
  <2>5. CASE ~ok
    <3>0. slot \in 1 .. slot
      BY <1>0, <2>2
    <3>1. RefusedAtStart' = RefusedAtStart \cup {slot} /\ slot \notin RefusedAtStart
      BY <1>0, <2>1, <2>3, <2>5, <3>0 DEF RefusedAtStart
    <3>2. Cardinality(RefusedAtStart') = Cardinality(RefusedAtStart) + 1
      BY <1>1, <3>1, FS_AddElement
    <3> QED
      BY <1>0, <1>1, <2>1, <2>2, <2>3, <2>5, <3>2 DEF SlotInv
  <2> QED
    BY <2>4, <2>5
<1>3. CASE EnterLoop
  <2>1. /\ pc = "start" /\ (slot > Concurrency \/ next > NTasks) /\ pc' = "loop"
        /\ UNCHANGED <<slot, life, job_list, next>>
    BY <1>3 DEF EnterLoop, taskVars
  <2>2. RefusedAtStart' = RefusedAtStart
    BY <2>1 DEF RefusedAtStart
  <2>3. slot <= Concurrency + 1
    BY <2>1 DEF JobInv
  <2> QED
    BY <1>0, <1>1, <2>1, <2>2, <2>3 DEF SlotInv
<1>4. ASSUME NEW i \in DOMAIN job_list,
             \/ \E s \in {"done", "failed"}, n \in Nat : Ended(i, s, n)
             \/ Redirect(i),
             pc # "start", pc' # "start", ~broken, UNCHANGED slot
      PROVE  SlotInv'
  <2>1. /\ SlotKept /\ life' \in Seq(Lives) /\ Len(life') >= Len(life)
        /\ \A d \in 1 .. Len(life) : life'[d] = "refused" <=> life[d] = "refused"
    BY <1>0, <1>4, NotifiedSlots
  <2>2. RefusedAtStart' = RefusedAtStart
    BY <1>0, <1>4, <2>1, RefusedKept DEF SlotInv
  <2>3. Len(life') \in Nat /\ next' \in Nat
    <3>1. JobInv'
      BY JobNext
    <3> QED
      BY <2>1, <3>1, LenProperties, TasksAssumption DEF JobInv
  <2>4. Len(job_list) = Concurrency - Cardinality(RefusedAtStart) \/ next > NTasks
    BY <1>4 DEF SlotInv
  <2>5. Len(job_list') = Concurrency - Cardinality(RefusedAtStart) \/ next' > NTasks
    BY <1>0, <2>1, <2>3, <2>4 DEF SlotKept
  <2> QED
    BY <1>0, <1>4, <2>1, <2>2, <2>3, <2>5 DEF SlotInv
<1>5. ASSUME NEW i \in DOMAIN job_list, NEW s \in {"done", "failed"}, NEW n \in Nat, Ended(i, s, n),
             pc # "start", pc' # "start", broken, broken', UNCHANGED slot
      PROVE  SlotInv'
  <2>1. life' = Over(job_list[i])
    BY <1>0, <1>5 DEF Ended, NextTask
  <2>2. s \in Fates
    BY DEF Fates
  <2>3. Len(life') = Len(life)
    BY <2>1, <2>2, EndedSeq
  <2> QED
    BY <1>5, <2>3 DEF SlotInv
<1>6. ASSUME NEW i \in DOMAIN job_list, Redirect(i),
             pc # "start", pc' # "start", broken, broken', UNCHANGED slot
      PROVE  SlotInv'
  <2>1. Len(life') = Len(life)
    BY <1>0, <1>6, RedirectKept
  <2> QED
    BY <1>6, <2>1 DEF SlotInv
<1>7. ASSUME NEW i \in DOMAIN job_list, Notified(i) PROVE SlotInv'
  <2>1. pc # "start" /\ pc' # "start" /\ UNCHANGED <<slot, broken>>
    BY <1>7 DEF Notified
  <2>2. \/ \E s \in {"done", "failed"}, n \in Nat : Ended(i, s, n)
        \/ Redirect(i)
    BY <1>0, <1>7 DEF Notified
  <2> QED
    BY <1>4, <1>5, <1>6, <2>1, <2>2
<1>8. CASE StopNext
  <2>1. pc # "start" /\ pc' # "start" /\ UNCHANGED <<slot, broken>>
    BY <1>8 DEF StopNext
  <2> QED
    BY <1>4, <1>5, <1>8, <2>1 DEF StopNext
<1>9. CASE Break \/ EndBreak \/ Exit \/ NotifiedAgain
  <2>1. /\ pc # "start" /\ pc' # "start" /\ UNCHANGED <<slot, life, job_list, next>>
        /\ ~broken' => ~broken
    BY <1>9 DEF Break, EndBreak, Exit, NotifiedAgain, taskVars
  <2>2. RefusedAtStart' = RefusedAtStart
    BY <2>1 DEF RefusedAtStart
  <2> QED
    BY <2>1, <2>2 DEF SlotInv
<1>10. CASE UNCHANGED vars
  <2>1. UNCHANGED <<pc, slot, life, job_list, next, broken>>
    BY <1>10 DEF vars, taskVars
  <2>2. RefusedAtStart' = RefusedAtStart
    BY <2>1 DEF RefusedAtStart
  <2> QED
    BY <2>1, <2>2 DEF SlotInv
<1> QED
  BY <1>2, <1>3, <1>7, <1>8, <1>9, <1>10 DEF Next, Starting, Breaking

(* The program keeps all its slots in use but those lost in the start loop, whatever the
   downloads do: a notification that erases a job adds one, or has tried every task. *)
THEOREM SlotsKept == Spec => []SlotsStayInUse
<1>1. Init => SlotInv
  <2> SUFFICES ASSUME Init PROVE SlotInv
    OBVIOUS
  <2>1. RefusedAtStart = {} /\ Len(life) = 0 /\ Len(job_list) = 0
    BY DEF Init, RefusedAtStart
  <2> QED
    BY <2>1, FS_EmptySet DEF Init, SlotInv
<1>2. JobInv /\ SlotInv => SlotsStayInUse
  BY DEF JobInv, SlotInv, SlotsStayInUse
<1> QED
  BY <1>1, <1>2, SlotNext, LedgerCorrect, PTL DEF Spec

-------------------------------------------------------------------------------
(* The break. *)

(* What the signal handler relies on: it runs after the break only, and what it has to stop
   is what runs, each once. *)
BreakInv == /\ pc = "break" => broken
            /\ BreakStopsJobs

LEMMA BreakNext == JobInv /\ LedgerInv /\ BreakInv /\ [Next]_vars => BreakInv'
<1> SUFFICES ASSUME JobInv, LedgerInv, BreakInv, [Next]_vars PROVE BreakInv'
  OBVIOUS
<1>0. /\ job_list \in Seq(Jobs_) /\ life \in Seq(Lives) /\ fate \in [Tasks -> Fates]
      /\ stopping \in Seq(Nat) /\ (broken <=> ~factory)
  BY TypeSplit DEF JobInv, OtherTypes
<1>1. CASE Break
  <2>1. JobsAreAlive
    BY <1>0, AliveMeans DEF LedgerInv
  <2>2. /\ broken' /\ stopping' = [i \in DOMAIN job_list |-> job_list[i].downloader]
        /\ life' = life
    BY <1>1 DEF Break, taskVars
  <2>3. DOMAIN stopping' = DOMAIN job_list
    BY <2>2
  <2>4. \A i \in DOMAIN stopping' : stopping'[i] = job_list[i].downloader
    BY <2>2
  <2>5. { stopping'[i] : i \in DOMAIN stopping' } = { job_list[i].downloader : i \in DOMAIN job_list }
    <3>1. \A x : x \in { stopping'[i] : i \in DOMAIN stopping' }
                   <=> \E i \in DOMAIN job_list : x = job_list[i].downloader
      BY ONLY <2>3, <2>4
    <3> QED
      BY ONLY <3>1
  <2>6. \A i, j \in DOMAIN stopping' : i # j => stopping'[i] # stopping'[j]
    BY <2>1, <2>3, <2>4 DEF JobsAreAlive
  <2>7. { stopping'[i] : i \in DOMAIN stopping' } = { d \in DOMAIN life' : life'[d] = "running" }
    BY <2>1, <2>2, <2>5 DEF JobsAreAlive
  <2> QED
    BY <2>2, <2>6, <2>7 DEF BreakInv, BreakStopsJobs
<1>2. CASE StopNext
  <2>1. /\ pc = "break" /\ broken /\ broken' = broken /\ ~factory
        /\ stopping # <<>> /\ stopping' = Tail(stopping)
    BY <1>0, <1>2 DEF StopNext, BreakInv
  <2>2. PICK i \in DOMAIN job_list : /\ job_list[i].downloader = Head(stopping)
                                     /\ Ended(i, "failed", 0)
    BY <1>2 DEF StopNext
  <2>3. "failed" \in Fates
    BY DEF Fates
  <2>4. /\ Over(job_list[i]) \in Seq(Lives) /\ Len(Over(job_list[i])) = Len(life)
        /\ \A d \in 1 .. Len(life) :
             Over(job_list[i])[d] = IF d = Head(stopping) THEN "over" ELSE life[d]
        /\ Without(i) \in Seq(Jobs_) /\ [fate EXCEPT ![job_list[i].task] = "failed"] \in [Tasks -> Fates]
    BY <2>2, <2>3, EndedSeq
  <2>5. life' = Over(job_list[i])
    BY <2>1, <2>2 DEF Ended, NextTask
  <2>6. { d \in DOMAIN life' : life'[d] = "running" }
          = { d \in DOMAIN life : life[d] = "running" } \ {Head(stopping)}
    <3>1. DOMAIN life = 1 .. Len(life) /\ DOMAIN life' = 1 .. Len(life)
      BY <1>0, <2>4, <2>5, LenProperties
    <3> QED
      BY <2>4, <2>5, <3>1
  <2>7. /\ \A k \in DOMAIN stopping' : k + 1 \in DOMAIN stopping /\ stopping'[k] = stopping[k + 1]
        /\ \A k \in DOMAIN stopping : k = 1 \/ k - 1 \in DOMAIN stopping'
        /\ DOMAIN stopping \subseteq Nat \ {0} /\ DOMAIN stopping' \subseteq Nat \ {0}
        /\ 1 \in DOMAIN stopping /\ Head(stopping) = stopping[1]
    BY <1>0, <2>1, HeadTailProperties, LenProperties
  <2>8. \A k, l \in DOMAIN stopping : k # l => stopping[k] # stopping[l]
    BY <2>1 DEF BreakInv, BreakStopsJobs
  <2>9. { stopping[k] : k \in DOMAIN stopping } = { d \in DOMAIN life : life[d] = "running" }
    BY <2>1 DEF BreakInv, BreakStopsJobs
  <2>10. { stopping'[k] : k \in DOMAIN stopping' } = { stopping[k] : k \in DOMAIN stopping } \ {Head(stopping)}
    <3>1. ASSUME NEW k \in DOMAIN stopping'
          PROVE  stopping'[k] \in { stopping[l] : l \in DOMAIN stopping } \ {Head(stopping)}
      <4>0. k \in Nat \ {0}
        BY <2>7, <3>1
      <4>1. k + 1 \in DOMAIN stopping /\ stopping'[k] = stopping[k + 1] /\ k + 1 # 1
        BY <2>7, <3>1, <4>0
      <4>2. stopping[k + 1] # stopping[1]
        BY <2>7, <2>8, <4>1
      <4> QED
        BY <2>7, <4>1, <4>2
    <3>2. ASSUME NEW k \in DOMAIN stopping, stopping[k] # Head(stopping)
          PROVE  \E l \in DOMAIN stopping' : stopping'[l] = stopping[k]
      <4>1. k # 1 /\ k - 1 \in DOMAIN stopping' /\ (k - 1) + 1 = k
        BY <2>7, <3>2
      <4> QED
        BY <2>7, <4>1
    <3>3. { stopping'[k] : k \in DOMAIN stopping' }
            \subseteq { stopping[k] : k \in DOMAIN stopping } \ {Head(stopping)}
      BY <3>1
    <3>4. ASSUME NEW d \in { stopping[k] : k \in DOMAIN stopping } \ {Head(stopping)}
          PROVE  d \in { stopping'[k] : k \in DOMAIN stopping' }
      <4>1. PICK k \in DOMAIN stopping : d = stopping[k] /\ stopping[k] # Head(stopping)
        OBVIOUS
      <4>2. PICK l \in DOMAIN stopping' : stopping'[l] = stopping[k]
        BY <3>2, <4>1
      <4> QED
        BY <4>1, <4>2
    <3> QED
      BY <3>3, <3>4
  <2>11. \A k, l \in DOMAIN stopping' : k # l => stopping'[k] # stopping'[l]
    <3> TAKE k, l \in DOMAIN stopping'
    <3>1. k # l => k + 1 # l + 1
      BY <2>7
    <3> QED
      BY <2>7, <2>8, <3>1
  <2> QED
    BY <2>1, <2>6, <2>9, <2>10, <2>11 DEF BreakInv, BreakStopsJobs
<1>3. CASE UNCHANGED vars
  BY <1>3 DEF vars, taskVars, BreakInv, BreakStopsJobs
<1>4. ASSUME \/ Starting \/ EndBreak \/ Exit \/ NotifiedAgain
             \/ \E i \in DOMAIN job_list : Notified(i)
      PROVE  BreakInv'
  <2>1. pc' # "break"
    BY <1>4 DEF Starting, EnterLoop, StartTurn, EndBreak, Exit, NotifiedAgain, Notified
  <2> QED
    BY <2>1 DEF BreakInv, BreakStopsJobs
<1> QED
  BY <1>1, <1>2, <1>3, <1>4 DEF Next, Breaking

LEMMA BreakCorrect == Spec => []BreakInv
<1>1. Init => BreakInv
  BY DEF Init, BreakInv, BreakStopsJobs
<1> QED
  BY <1>1, BreakNext, LedgerCorrect, PTL DEF Spec

(* After the break the signal handler stops every download that runs, once: none is missed,
   none of those it stops is over, and none is stopped twice. *)
THEOREM BreakStopsAll == Spec => []BreakStopsJobs
<1>1. BreakInv => BreakStopsJobs
  BY DEF BreakInv
<1> QED
  BY <1>1, BreakCorrect, PTL

===============================================================================
