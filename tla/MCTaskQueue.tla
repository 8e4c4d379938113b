---------------------------- MODULE MCTaskQueue ----------------------------
(* TaskQueue with the retry limits of queue/client.go. *)
EXTENDS TaskQueue
=============================================================================
