---------------------------- MODULE MCWorkQueue -----------------------------
(* The work queue with three workflow keys and two workers: enough for a key *)
(* to wait behind another, to be re-added while held, and for one worker to  *)
(* sleep in enqueueAfter while the other drains the queue.                   *)
EXTENDS WorkQueue
=============================================================================
