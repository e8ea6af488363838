-------------------------------- MODULE MCJobs --------------------------------
(***************************************************************************)
(* Bounds for model-checking Jobs.  With four tasks for two slots every    *)
(* way a slot changes hands happens more than once; one redirect is        *)
(* allowed and a second is too many; two sizes make a byte counted twice,  *)
(* or for the wrong task, show in the total.                               *)
(***************************************************************************)
EXTENDS Jobs

MCBytes == {1, 2}
===============================================================================
