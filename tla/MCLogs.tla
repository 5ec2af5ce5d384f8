------------------------------- MODULE MCLogs --------------------------------
(***************************************************************************)
(* Logs with slices of two to four lines, and a log of five.               *)
(***************************************************************************)
EXTENDS Logs
=============================================================================
