-------------------------- MODULE MCLiveConnection --------------------------
(***************************************************************************)
(* LiveConnection for TLC: enough messages to fill the channel of the      *)
(* debounce goroutine and the send buffer while both pumps are at work.    *)
(***************************************************************************)
EXTENDS LiveConnection
=============================================================================
