-------------------------- MODULE DownloaderContract --------------------------
(***************************************************************************)
(* What one Downloader promises to the job list that owns it               *)
(* (include/downloader.h, and OnTickSimple::invoke, which relies on it):   *)
(* run() answers once; if it answers true, the owner is told of progress   *)
(* any number of times and then of exactly one final state, and after the  *)
(* final state it is told nothing more.  The owner forgets the downloader  *)
(* on the final notification, so a later one finds no job and throws.      *)
(***************************************************************************)
EXTENDS Naturals

VARIABLES ret,     \* what run() answered: "none" yet, "started" or "refused"
          told,    \* the state passed to the last on_tick->invoke
          finals   \* how many final notifications were made

vars == <<ret, told, finals>>

Final == {"Done", "Failed", "Redirect"}

Init == ret = "none" /\ told = "none" /\ finals = 0

Answer(r) == /\ ret = "none"
             /\ ret' = r
             /\ UNCHANGED <<told, finals>>

Progress == /\ ret = "started"
            /\ finals = 0
            /\ told' = "OnTheGo"
            /\ UNCHANGED <<ret, finals>>

Finish(s) == /\ ret = "started"
             /\ finals = 0
             /\ told' = s
             /\ finals' = 1
             /\ UNCHANGED ret

Next == \/ \E r \in {"started", "refused"} : Answer(r)
        \/ Progress
        \/ \E s \in Final : Finish(s)

Safe == Init /\ [][Next]_vars

\* A download that was started is finished, whatever the server does.
Spec == Safe /\ WF_vars(\E s \in Final : Finish(s))
===============================================================================
