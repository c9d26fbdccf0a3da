------------------------------ MODULE MCEvents ------------------------------
(***************************************************************************)
(* Instance of EventHistory for TLC: two events are one too many for the   *)
(* queue of the first stream, and can change places in that of the second. *)
(* (The code gives every stream a queue of 256.)                           *)
(***************************************************************************)
EXTENDS EventHistory, TLC

CONSTANTS c1, c2

MCQueueSize == (c1 :> 1) @@ (c2 :> 2)
=============================================================================
