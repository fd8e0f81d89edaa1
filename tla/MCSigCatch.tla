------------------------------ MODULE MCSigCatch ------------------------------
(***************************************************************************)
(* SIGINT, SIGUSR1 and SIGTERM, in the order of installSignalHandlers().   *)
(***************************************************************************)
EXTENDS SigCatch

MCSig == <<2, 10, 15>>

===============================================================================
