----------------------------- MODULE MCDownloader -----------------------------
(***************************************************************************)
(* Bounds for model-checking Downloader.  A queue of two chunks is filled  *)
(* by one parse that delivers two, or by two parses; chunks of two bytes   *)
(* are written whole or in part; four reads let the socket be stopped,     *)
(* resumed and stopped again before the response ends.                     *)
(***************************************************************************)
EXTENDS Downloader

MCSizes == {1, 2}

NoAdversity     == {}
EarlyShutdown   == {"early_shutdown"}
SilentEnd       == {"silent_end"}
ShutdownRefused == {"shutdown_error"}
===============================================================================
