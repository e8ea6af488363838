--------------------------- MODULE DashboardProofs ----------------------------
(***************************************************************************)
(* What of Jobs is a sum over the tasks: the totals of the dashboard are   *)
(* those of the tasks that are done, and what is still to come gets less   *)
(* with every step, for every number of tasks and every order of           *)
(* notifications.  What one task changes in a sum is a lemma of            *)
(* InductionLemmas.                                                        *)
(***************************************************************************)
EXTENDS JobsProofs, InductionLemmas

DoneTasks(f) == { t \in Tasks : f[t] = "done" }

LEMMA DoneFinite == \A f : IsFiniteSet(DoneTasks(f))
<1>1. IsFiniteSet(Tasks)
  BY FS_Interval, TasksAssumption DEF Tasks
<1> QED
  BY <1>1, FS_Subset DEF DoneTasks

(* A step that makes no task done or undone, and leaves the totals, keeps the agreement. *)
LEMMA SameTotals ==
  ASSUME DashboardAgrees, UNCHANGED boardVars, \A t \in Tasks : fate'[t] = "done" <=> fate[t] = "done"
  PROVE  DashboardAgrees'
<1>1. DoneTasks(fate') = DoneTasks(fate)
  BY DEF DoneTasks
<1>2. UNCHANGED <<done_tasks, total_downloaded, size>>
  BY DEF boardVars
<1> QED
  BY <1>1, <1>2 DEF DashboardAgrees, DoneTasks

(* A task that is done adds its bytes, once. *)
LEMMA OneMoreDone ==
  ASSUME TypeOK, DashboardAgrees, NEW k \in Tasks, fate[k] # "done", NEW n \in Nat,
         update(k, "done", n),
         \A t \in Tasks : fate'[t] = "done" <=> t = k \/ fate[t] = "done"
  PROVE  DashboardAgrees'
<1> DEFINE D == DoneTasks(fate)
           E == DoneTasks(fate')
<1>1. /\ done_tasks' = done_tasks + 1 /\ total_downloaded' = total_downloaded + n
      /\ size' = [size EXCEPT ![k] = n] /\ size \in [Tasks -> Nat]
  BY TypeSplit DEF update, Counted, BoardTypes
<1>2. k \notin D /\ k \in E /\ E = D \cup {k} /\ E \ {k} = D
  BY DEF DoneTasks
<1>3. IsFiniteSet(D) /\ IsFiniteSet(E) /\ E \subseteq Tasks
  BY DoneFinite DEF DoneTasks
<1>4. done_tasks = Cardinality(D) /\ total_downloaded = SumFunctionOnSet(size, D)
  BY DEF DashboardAgrees, DoneTasks
<1> HIDE DEF D, E
<1>5. Cardinality(E) = Cardinality(D) + 1
  BY <1>2, <1>3, FS_AddElement
<1>6. SumFunctionOnSet(size', D) = SumFunctionOnSet(size, D)
  <2>1. \A x \in D : size'[x] = size[x]
    BY <1>1, <1>2, <1>3
  <2> QED
    BY <1>3, <2>1, SumAgree
<1>7. /\ SumFunctionOnSet(size', E) = n + SumFunctionOnSet(size', D)
      /\ SumFunctionOnSet(size', D) \in Nat
  <2>1. \A x \in E : size'[x] \in Nat
    BY <1>1, <1>3
  <2>2. SumFunctionOnSet(size', E) = size'[k] + SumFunctionOnSet(size', E \ {k})
    BY <1>2, <1>3, <2>1, SumAdd
  <2>3. size'[k] = n
    BY <1>1
  <2>4. SumFunctionOnSet(size', D) \in Nat
    <3>1. CASE D = {}
      BY <3>1, SumNone
    <3>2. CASE D # {}
      <4>1. PICK y : y \in D
        BY <3>2
      <4>2. \A x \in D : size'[x] \in Nat
        BY <1>2, <2>1
      <4> QED
        BY <1>3, <4>1, <4>2, SumAdd
    <3> QED
      BY <3>1, <3>2
  <2> QED
    BY <1>2, <2>2, <2>3, <2>4
<1>8. done_tasks' = Cardinality(E) /\ total_downloaded' = SumFunctionOnSet(size', E)
  BY <1>1, <1>4, <1>5, <1>6, <1>7
<1> QED
  BY <1>8 DEF DashboardAgrees, E, DoneTasks

(* next_task takes waiting tasks only, and none of them is done by it. *)
LEMMA NextTaskDone ==
  ASSUME next \in 1 .. NTasks + 1,
         NEW rest \in Seq(Jobs_), NEW f \in [Tasks -> Fates], NEW lives \in Seq(Lives),
         \A t \in Tasks : t >= next => f[t] # "done",
         NextTask(rest, f, lives)
  PROVE  \A t \in Tasks : fate'[t] = "done" <=> f[t] = "done"
<1>1. CASE ~factory
  BY <1>1, NextTaskEffect
<1>2. CASE factory
  <2>1. PICK upto \in next - 1 .. NTasks, found \in BOOLEAN : Taken(upto, found, rest, f, lives)
    BY <1>2, NextTaskEffect
  <2>2. \A t \in Tasks : fate'[t] = IF t \notin next .. upto THEN f[t]
                                    ELSE IF found /\ t = upto THEN "running" ELSE "failed"
    BY <2>1 DEF Taken
  <2>3. \A t \in next .. upto : t >= next
    BY TasksAssumption
  <2> QED
    BY <2>2, <2>3
<1> QED
  BY <1>1, <1>2

LEMMA BoardNext == JobInv /\ LedgerInv /\ DashboardAgrees /\ [Next]_vars => DashboardAgrees'
<1> SUFFICES ASSUME JobInv, LedgerInv, DashboardAgrees, [Next]_vars PROVE DashboardAgrees'
  OBVIOUS
<1>1. /\ TypeOK /\ fate \in [Tasks -> Fates] /\ next \in 1 .. NTasks + 1
      /\ NTasks \in Nat /\ Bytes \subseteq Nat
      /\ \A t \in Tasks : t >= next <=> fate[t] = "waiting"
  BY TypeSplit, TasksAssumption DEF JobInv, LedgerInv, Fresh, TypeOK
<1>2. ASSUME NEW i \in DOMAIN job_list
      PROVE  /\ job_list[i].task \in Tasks /\ fate[job_list[i].task] = "running"
             /\ Without(i) \in Seq(Jobs_) /\ Over(job_list[i]) \in Seq(Lives)
             /\ Append(Over(job_list[i]), "refused") \in Seq(Lives)
  <2>1. "failed" \in Fates
    BY DEF Fates
  <2>2. /\ job_list[i].task \in Tasks /\ i \in 1 .. Len(job_list)
        /\ Without(i) \in Seq(Jobs_) /\ Over(job_list[i]) \in Seq(Lives)
    BY <2>1, EndedSeq
  <2>3. fate[job_list[i].task] = "running"
    BY <2>2 DEF LedgerInv, Alive
  <2>4. Append(Over(job_list[i]), "refused") \in Seq(Lives)
    BY <2>2, AppendProperties DEF Lives
  <2> QED
    BY <2>2, <2>3, <2>4
<1>3. ASSUME NEW i \in DOMAIN job_list, NEW s \in {"done", "failed"}, NEW lives \in Seq(Lives),
             NextTask(Without(i), [fate EXCEPT ![job_list[i].task] = s], lives)
      PROVE  \A t \in Tasks : fate'[t] = "done" <=>
               (IF t = job_list[i].task THEN s = "done" ELSE fate[t] = "done")
  <2> DEFINE f == [fate EXCEPT ![job_list[i].task] = s]
  <2>1. \A t \in Tasks : f[t] = IF t = job_list[i].task THEN s ELSE fate[t]
    BY <1>1
  <2>2. f \in [Tasks -> Fates]
    BY <1>1 DEF Fates
  <2>3. \A t \in Tasks : t >= next => f[t] # "done"
    BY <1>1, <1>2, <2>1
  <2>4. NextTask(Without(i), f, lives) /\ Without(i) \in Seq(Jobs_)
    BY <1>2, <1>3
  <2> HIDE DEF f
  <2>5. \A t \in Tasks : fate'[t] = "done" <=> f[t] = "done"
    BY <1>1, <2>2, <2>3, <2>4, NextTaskDone
  <2> QED
    BY <2>1, <2>5
<1>4. ASSUME NEW i \in DOMAIN job_list, NEW n \in Nat, Ended(i, "done", n)
      PROVE  DashboardAgrees'
  <2> DEFINE k == job_list[i].task
  <2>1. update(k, "done", n) /\ k \in Tasks /\ fate[k] # "done"
    BY <1>2, <1>4 DEF Ended
  <2>2. NextTask(Without(i), [fate EXCEPT ![k] = "done"], Over(job_list[i]))
    BY <1>4 DEF Ended
  <2>3. \A t \in Tasks : fate'[t] = "done" <=> t = k \/ fate[t] = "done"
    BY <1>2, <1>3, <2>2
  <2> HIDE DEF k
  <2> QED
    BY <1>1, <2>1, <2>3, OneMoreDone
<1>5. ASSUME NEW i \in DOMAIN job_list, UNCHANGED boardVars, NEW lives \in Seq(Lives),
             NextTask(Without(i), [fate EXCEPT ![job_list[i].task] = "failed"], lives)
      PROVE  DashboardAgrees'
  <2>1. \A t \in Tasks : fate'[t] = "done" <=> fate[t] = "done"
    BY <1>2, <1>3, <1>5
  <2> QED
    BY <1>5, <2>1, SameTotals
<1>6. ASSUME NEW i \in DOMAIN job_list, NEW n, Ended(i, "failed", n) PROVE DashboardAgrees'
  <2>1. UNCHANGED boardVars
    BY <1>6 DEF Ended, update, Counted
  <2> QED
    BY <1>2, <1>5, <1>6, <2>1 DEF Ended
<1>7. ASSUME NEW i \in DOMAIN job_list, Redirect(i) PROVE DashboardAgrees'
  <2>1. UNCHANGED boardVars
    BY <1>7 DEF Redirect, update, Counted
  <2>2. CASE UNCHANGED fate
    BY <2>1, <2>2, SameTotals
  <2> QED
    BY <1>2, <1>5, <1>7, <2>1, <2>2 DEF Redirect
<1>8. ASSUME NEW i \in DOMAIN job_list, Notified(i) PROVE DashboardAgrees'
  BY <1>1, <1>4, <1>6, <1>7, <1>8 DEF Notified
<1>9. ASSUME NEW ok \in BOOLEAN, StartTurn(ok) PROVE DashboardAgrees'
  <2>1. /\ fate' = [fate EXCEPT ![next] = IF ok THEN "running" ELSE "failed"]
        /\ UNCHANGED boardVars /\ next \in Tasks
    BY <1>1, <1>9 DEF StartTurn, Tasks
  <2>2. fate[next] = "waiting"
    BY <1>1, <2>1 DEF Tasks
  <2>3. \A t \in Tasks : fate'[t] = "done" <=> fate[t] = "done"
    BY <1>1, <2>1, <2>2
  <2> QED
    BY <2>1, <2>3, SameTotals
<1>10. CASE StopNext
  BY <1>6, <1>10 DEF StopNext
<1>11. CASE \/ EnterLoop \/ Break \/ EndBreak \/ Exit \/ NotifiedAgain \/ UNCHANGED vars
  <2>1. UNCHANGED boardVars /\ UNCHANGED fate
    BY <1>11 DEF EnterLoop, Break, EndBreak, Exit, NotifiedAgain, vars, taskVars
  <2> QED
    BY <2>1, SameTotals
<1> QED
  BY <1>8, <1>9, <1>10, <1>11 DEF Next, Starting, Breaking

(* The dashboard counts every task that is done and its bytes exactly once, and nothing of
   a download that was redirected or failed, through every order of the notifications. *)
THEOREM TotalsCorrect == Spec => []DashboardAgrees
<1>1. Init => DashboardAgrees
  <2> SUFFICES ASSUME Init PROVE DashboardAgrees
    OBVIOUS
  <2>1. { t \in Tasks : fate[t] = "done" } = {}
    BY DEF Init
  <2> QED
    BY <2>1, SumNone, FS_EmptySet DEF Init, DashboardAgrees
<1> QED
  BY <1>1, BoardNext, LedgerCorrect, PTL DEF Spec

-------------------------------------------------------------------------------
(* The program comes to an end. *)

(* What a task has to come is a natural number, as long as it was not asked for too often. *)
LEMMA ToComeNatural ==
  ASSUME fate \in [Tasks -> Fates], tries \in [Tasks -> Nat], RedirectsBounded
  PROVE  /\ \A t \in Tasks : TaskToCome(t) \in Nat
         /\ \A t \in Tasks : fate[t] = "waiting" => TaskToCome(t) = MaxRedirect + 2
         /\ \A t \in Tasks : fate[t] = "running" => TaskToCome(t) = MaxRedirect + 2 - tries[t]
         /\ \A t \in Tasks : fate[t] \in {"done", "failed"} => TaskToCome(t) = 0
         /\ \A t \in Tasks : fate[t] \in {"waiting", "running"} => TaskToCome(t) >= 1
<1> SUFFICES ASSUME NEW t \in Tasks
             PROVE  /\ TaskToCome(t) \in Nat
                    /\ fate[t] = "waiting" => TaskToCome(t) = MaxRedirect + 2
                    /\ fate[t] = "running" => TaskToCome(t) = MaxRedirect + 2 - tries[t]
                    /\ fate[t] \in {"done", "failed"} => TaskToCome(t) = 0
                    /\ fate[t] \in {"waiting", "running"} => TaskToCome(t) >= 1
  OBVIOUS
<1>1. tries[t] \in Nat /\ MaxRedirect \in Nat /\ tries[t] <= MaxRedirect + 1
  BY TasksAssumption DEF RedirectsBounded
<1>2. fate[t] \in {"waiting", "running", "done", "failed"}
  BY DEF Fates
<1> QED
  BY <1>1, <1>2 DEF TaskToCome

(* The whole grows smaller when nothing in it grows, and something in it gets smaller. *)
LEMMA LessToCome ==
  ASSUME \A t \in Tasks : /\ TaskToCome(t) \in Nat /\ TaskToCome(t)' \in Nat
                          /\ TaskToCome(t)' <= TaskToCome(t),
         MainToCome \in Nat, MainToCome' \in Nat, MainToCome' <= MainToCome,
         \/ MainToCome' < MainToCome
         \/ \E k \in Tasks : TaskToCome(k)' < TaskToCome(k)
  PROVE  ToCome' < ToCome
<1> DEFINE F == [t \in Tasks |-> TaskToCome(t)]
           G == [t \in Tasks |-> TaskToCome(t)']
<1>1. IsFiniteSet(Tasks)
  BY FS_Interval, TasksAssumption DEF Tasks
<1>2. \A t \in Tasks : F[t] \in Nat /\ G[t] \in Nat /\ G[t] <= F[t]
  OBVIOUS
<1>3. ToCome = MainToCome + SumFunctionOnSet(F, Tasks)
  BY DEF ToCome
<1>4. ToCome' = MainToCome' + SumFunctionOnSet(G, Tasks)
  BY DEF ToCome, Tasks
<1>5. (\E k \in Tasks : TaskToCome(k)' < TaskToCome(k)) => \E k \in Tasks : G[k] < F[k]
  OBVIOUS
<1> HIDE DEF F, G
<1>6. SumFunctionOnSet(F, Tasks) \in Nat /\ SumFunctionOnSet(G, Tasks) \in Nat
  BY <1>1, <1>2, SumNatural
<1>7. SumFunctionOnSet(G, Tasks) <= SumFunctionOnSet(F, Tasks)
  BY <1>1, <1>2, SumLess
<1>8. CASE MainToCome' < MainToCome
  BY <1>3, <1>4, <1>6, <1>7, <1>8
<1>9. CASE \E k \in Tasks : TaskToCome(k)' < TaskToCome(k)
  <2>1. SumFunctionOnSet(G, Tasks) < SumFunctionOnSet(F, Tasks)
    BY <1>1, <1>2, <1>5, <1>9, SumSmaller
  <2> QED
    BY <1>3, <1>4, <1>6, <2>1
<1> QED
  BY <1>8, <1>9

(* A notification that ends the job of task k, and whatever next_task takes after it. *)
LEMMA NextTaskToCome ==
  ASSUME JobInv, LedgerInv, JobInv', LedgerInv',
         NEW k \in Tasks, fate[k] = "running", NEW s \in {"done", "failed"},
         NEW rest \in Seq(Jobs_), NEW lives \in Seq(Lives),
         NextTask(rest, [fate EXCEPT ![k] = s], lives)
  PROVE  /\ \A t \in Tasks : TaskToCome(t)' <= TaskToCome(t)
         /\ TaskToCome(k)' < TaskToCome(k)
<1> DEFINE f == [fate EXCEPT ![k] = s]
<1>1. /\ fate \in [Tasks -> Fates] /\ tries \in [Tasks -> Nat] /\ RedirectsBounded
      /\ fate' \in [Tasks -> Fates] /\ tries' \in [Tasks -> Nat] /\ RedirectsBounded'
      /\ next \in 1 .. NTasks + 1 /\ MaxRedirect \in Nat /\ NTasks \in Nat
      /\ \A t \in Tasks : t >= next <=> fate[t] = "waiting"
  BY TypeSplit, TasksAssumption DEF JobInv, LedgerInv, Fresh, TypeOK
<1>2. f \in [Tasks -> Fates] /\ \A t \in Tasks : f[t] = IF t = k THEN s ELSE fate[t]
  BY <1>1 DEF Fates
<1>3. ~(k >= next)
  BY <1>1
<1>4. ASSUME NEW t \in Tasks
      PROVE  \/ t # k /\ fate'[t] = fate[t] /\ tries'[t] = tries[t]
             \/ fate[t] = "waiting" /\ fate'[t] \in {"running", "failed"} /\ tries'[t] = 1
             \/ t = k /\ fate'[t] = s
  <2> HIDE DEF f
  <2>0. NextTask(rest, f, lives)
    BY DEF f
  <2>1. CASE ~factory
    <3>1. fate' = f /\ tries' = tries
      BY <1>1, <1>2, <2>0, <2>1, NextTaskEffect
    <3> QED
      BY <1>2, <3>1
  <2>2. CASE factory
    <3>1. PICK upto \in next - 1 .. NTasks, found \in BOOLEAN : Taken(upto, found, rest, f, lives)
      BY <1>1, <1>2, <2>0, <2>2, NextTaskEffect
    <3>2. /\ fate'[t] = IF t \notin next .. upto THEN f[t]
                        ELSE IF found /\ t = upto THEN "running" ELSE "failed"
          /\ tries'[t] = IF t \in next .. upto THEN 1 ELSE tries[t]
      BY <3>1 DEF Taken
    <3>3. t \in next .. upto => t >= next /\ t # k
      BY <1>1, <1>3
    <3>4. CASE t \in next .. upto
      BY <1>1, <3>2, <3>3, <3>4
    <3>5. CASE t \notin next .. upto
      BY <1>2, <3>2, <3>5
    <3> QED
      BY <3>4, <3>5
  <2> QED
    BY <2>1, <2>2
<1>5. /\ \A t \in Tasks : fate[t] = "waiting" => TaskToCome(t) = MaxRedirect + 2
      /\ \A t \in Tasks : fate[t] = "running" => TaskToCome(t) = MaxRedirect + 2 - tries[t]
      /\ \A t \in Tasks : TaskToCome(t) \in Nat
      /\ TaskToCome(k) >= 1
  BY <1>1, ToComeNatural
<1>6. /\ \A t \in Tasks : fate'[t] = "running" => TaskToCome(t)' = MaxRedirect + 2 - tries'[t]
      /\ \A t \in Tasks : fate'[t] \in {"done", "failed"} => TaskToCome(t)' = 0
  BY DEF TaskToCome
<1>7. TaskToCome(k)' = 0
  BY <1>4, <1>6
<1>8. ASSUME NEW t \in Tasks PROVE TaskToCome(t)' <= TaskToCome(t)
  <2>1. CASE t # k /\ fate'[t] = fate[t] /\ tries'[t] = tries[t]
    <3>1. TaskToCome(t)' = TaskToCome(t)
      BY <2>1 DEF TaskToCome
    <3> QED
      BY <1>5, <3>1
  <2>2. CASE fate[t] = "waiting" /\ fate'[t] \in {"running", "failed"} /\ tries'[t] = 1
    <3>1. TaskToCome(t) = MaxRedirect + 2
      BY <1>5, <2>2
    <3>2. TaskToCome(t)' = MaxRedirect + 1 \/ TaskToCome(t)' = 0
      BY <1>1, <1>6, <2>2
    <3> QED
      BY <1>1, <3>1, <3>2
  <2>3. CASE t = k
    BY <1>5, <1>7, <2>3
  <2> QED
    BY <1>4, <2>1, <2>2, <2>3
<1> QED
  BY <1>5, <1>7, <1>8

LEMMA StepToCome ==
  ASSUME JobInv, LedgerInv, JobInv', LedgerInv', BreakInv, Next
  PROVE  ToCome' < ToCome
<1>0. /\ fate \in [Tasks -> Fates] /\ tries \in [Tasks -> Nat] /\ RedirectsBounded
      /\ fate' \in [Tasks -> Fates] /\ tries' \in [Tasks -> Nat] /\ RedirectsBounded'
      /\ MaxRedirect \in Nat /\ next \in Nat /\ broken \in BOOLEAN /\ broken' \in BOOLEAN
      /\ \A t \in Tasks : t >= next <=> fate[t] = "waiting"
      /\ Bytes \subseteq Nat
  BY TypeSplit, TasksAssumption DEF JobInv, LedgerInv, Fresh, TypeOK
<1>1. \A t \in Tasks : TaskToCome(t) \in Nat
  BY <1>0, ToComeNatural
<1>2. \A t \in Tasks : TaskToCome(t)' \in Nat
  BY <1>0 DEF TaskToCome, Fates, RedirectsBounded
<1>3. MainToCome \in Nat /\ MainToCome' \in Nat
  BY DEF MainToCome
<1>4. ASSUME UNCHANGED <<pc, broken>>, NEW k \in Tasks, TaskToCome(k)' < TaskToCome(k),
             \A t \in Tasks : TaskToCome(t)' <= TaskToCome(t)
      PROVE  ToCome' < ToCome
  <2>1. MainToCome' = MainToCome
    BY <1>4 DEF MainToCome
  <2> QED
    BY <1>1, <1>2, <1>3, <1>4, <2>1, LessToCome
<1>5. ASSUME UNCHANGED taskVars, MainToCome' < MainToCome
      PROVE  ToCome' < ToCome
  <2>1. \A t \in Tasks : TaskToCome(t)' = TaskToCome(t)
    BY <1>5 DEF TaskToCome, taskVars
  <2> QED
    BY <1>1, <1>3, <1>5, <2>1, LessToCome
<1>6. ASSUME NEW i \in DOMAIN job_list
      PROVE  /\ job_list[i].task \in Tasks /\ fate[job_list[i].task] = "running"
             /\ Without(i) \in Seq(Jobs_) /\ Over(job_list[i]) \in Seq(Lives)
             /\ Append(Over(job_list[i]), "refused") \in Seq(Lives)
  <2>1. "failed" \in Fates
    BY DEF Fates
  <2>2. /\ job_list[i].task \in Tasks /\ i \in 1 .. Len(job_list)
        /\ Without(i) \in Seq(Jobs_) /\ Over(job_list[i]) \in Seq(Lives)
    BY <2>1, EndedSeq
  <2>3. fate[job_list[i].task] = "running"
    BY <2>2 DEF LedgerInv, Alive
  <2>4. Append(Over(job_list[i]), "refused") \in Seq(Lives)
    BY <2>2, AppendProperties DEF Lives
  <2> QED
    BY <2>2, <2>3, <2>4
<1>7. ASSUME NEW i \in DOMAIN job_list, NEW s \in {"done", "failed"}, NEW lives \in Seq(Lives),
             NextTask(Without(i), [fate EXCEPT ![job_list[i].task] = s], lives),
             UNCHANGED <<pc, broken>>
      PROVE  ToCome' < ToCome
  <2>p. PICK k \in Tasks : k = job_list[i].task
    BY <1>6
  <2> DEFINE rest == Without(i)
  <2>0. fate[k] = "running" /\ rest \in Seq(Jobs_)
        /\ NextTask(rest, [fate EXCEPT ![k] = s], lives)
    BY <1>6, <1>7, <2>p
  <2> HIDE DEF rest
  <2>1. /\ \A t \in Tasks : TaskToCome(t)' <= TaskToCome(t)
        /\ TaskToCome(k)' < TaskToCome(k)
    BY <1>7, <2>0, NextTaskToCome
  <2> QED
    BY <1>4, <1>7, <2>0, <2>1
<1>8. ASSUME NEW i \in DOMAIN job_list, NEW s \in {"done", "failed"}, NEW n, Ended(i, s, n),
             UNCHANGED <<pc, broken>>
      PROVE  ToCome' < ToCome
  BY <1>6, <1>7, <1>8 DEF Ended
<1>9. ASSUME NEW i \in DOMAIN job_list, Redirect(i), UNCHANGED <<pc, broken>>
      PROVE  ToCome' < ToCome
  <2>p. PICK k \in Tasks : k = job_list[i].task
    BY <1>6
  <2>1. CASE tries' = [tries EXCEPT ![k] = @ + 1] /\ fate' = fate
    <3>1. /\ k \in Tasks /\ fate[k] = "running" /\ fate'[k] = "running"
          /\ tries'[k] = tries[k] + 1 /\ tries[k] \in Nat
      BY <1>0, <1>6, <2>1, <2>p
    <3>2. TaskToCome(k) = MaxRedirect + 2 - tries[k] /\ TaskToCome(k)' = MaxRedirect + 2 - tries'[k]
      BY <3>1 DEF TaskToCome
    <3>3. TaskToCome(k)' < TaskToCome(k)
      BY <1>0, <3>1, <3>2
    <3>4. ASSUME NEW t \in Tasks, t # k PROVE TaskToCome(t)' = TaskToCome(t)
      <4>1. tries'[t] = tries[t] /\ fate'[t] = fate[t]
        BY <1>0, <2>1, <3>4
      <4> QED
        BY <4>1 DEF TaskToCome
    <3>5. \A t \in Tasks : TaskToCome(t)' <= TaskToCome(t)
      <4> TAKE t \in Tasks
      <4>1. CASE t = k
        BY <1>1, <1>2, <3>3, <4>1
      <4>2. CASE t # k
        BY <1>1, <3>4, <4>2
      <4> QED
        BY <4>1, <4>2
    <3> QED
      BY <1>4, <1>9, <3>3, <3>5
  <2>2. CASE NextTask(Without(i), [fate EXCEPT ![k] = "failed"], Over(job_list[i]))
    BY <1>6, <1>7, <1>9, <2>2, <2>p
  <2>3. CASE NextTask(Without(i), [fate EXCEPT ![k] = "failed"],
                      Append(Over(job_list[i]), "refused"))
    BY <1>6, <1>7, <1>9, <2>3, <2>p
  <2> QED
    BY <1>9, <2>1, <2>2, <2>3, <2>p DEF Redirect
<1>10. ASSUME NEW i \in DOMAIN job_list, Notified(i) PROVE ToCome' < ToCome
  <2>1. UNCHANGED <<pc, broken>>
    BY <1>10 DEF Notified
  <2> QED
    BY <1>8, <1>9, <1>10, <2>1 DEF Notified
<1>11. ASSUME NEW ok \in BOOLEAN, StartTurn(ok) PROVE ToCome' < ToCome
  <2>1. /\ fate' = [fate EXCEPT ![next] = IF ok THEN "running" ELSE "failed"]
        /\ tries' = [tries EXCEPT ![next] = 1] /\ next \in Tasks /\ UNCHANGED <<pc, broken>>
    <3>1. next \in 1 .. NTasks + 1 /\ next <= NTasks
      BY <1>11 DEF StartTurn, JobInv
    <3> QED
      BY <1>11, <3>1, TasksAssumption DEF StartTurn, Tasks
  <2>2. fate[next] = "waiting" /\ fate'[next] \in {"running", "failed"} /\ tries'[next] = 1
    BY <1>0, <2>1
  <2>3. TaskToCome(next) = MaxRedirect + 2
    BY <2>2 DEF TaskToCome
  <2>6. \A t \in Tasks : t = next => TaskToCome(t)' < TaskToCome(t)
    BY <1>0, <2>1, <2>2, <2>3 DEF TaskToCome
  <2>7. \A t \in Tasks : t # next => TaskToCome(t)' = TaskToCome(t)
    <3> SUFFICES ASSUME NEW t \in Tasks, t # next PROVE TaskToCome(t)' = TaskToCome(t)
      OBVIOUS
    <3>1. fate'[t] = fate[t] /\ tries'[t] = tries[t]
      BY <1>0, <2>1
    <3> QED
      BY <3>1 DEF TaskToCome
  <2>8. PICK t \in Tasks : t = next
    BY <2>1
  <2>9. \A u \in Tasks : TaskToCome(u)' <= TaskToCome(u)
    BY <1>1, <1>2, <2>6, <2>7
  <2> QED
    BY <1>4, <2>1, <2>6, <2>8, <2>9
<1>12. CASE StopNext
  BY <1>8, <1>12 DEF StopNext
<1>13. CASE EnterLoop \/ Break \/ EndBreak \/ Exit \/ NotifiedAgain
  <2>1. UNCHANGED taskVars
    BY <1>13 DEF EnterLoop, Break, EndBreak, Exit, NotifiedAgain
  <2>2. MainToCome' < MainToCome
    <3>1. pc = "start" => ~broken
      BY DEF JobInv
    <3>2. CASE EnterLoop
      BY <3>1, <3>2 DEF EnterLoop, MainToCome
    <3>3. CASE Break
      BY <3>3 DEF Break, MainToCome
    <3>4. CASE EndBreak
      <4>1. broken
        BY <3>4 DEF EndBreak, BreakInv
      <4> QED
        BY <3>4, <4>1 DEF EndBreak, MainToCome
    <3>5. CASE Exit
      BY <3>5, <1>0 DEF Exit, MainToCome
    <3>6. CASE NotifiedAgain
      BY <3>6, <1>0 DEF NotifiedAgain, MainToCome
    <3> QED
      BY <1>13, <3>2, <3>3, <3>4, <3>5, <3>6
  <2> QED
    BY <1>5, <2>1, <2>2
<1> QED
  BY <1>10, <1>11, <1>12, <1>13 DEF Next, Starting, Breaking

(* Every step counts down what is still to come, so there are finitely many of them: no order
   of refusals, redirects, failures and the break keeps the program going for ever. *)
THEOREM StepsAreFinite == Spec => EveryStepCounts
<1>1. JobInv /\ LedgerInv /\ BreakInv /\ [Next]_vars => [ToCome' < ToCome]_vars
  BY StepToCome, JobNext, LedgerNext
<1> QED
  BY <1>1, LedgerCorrect, BreakCorrect, PTL DEF Spec, EveryStepCounts

===============================================================================
