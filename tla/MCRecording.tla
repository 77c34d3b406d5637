---------------------------- MODULE MCRecording ----------------------------
(***************************************************************************)
(* One duel with two calls of start or stop in flight, one webhook request *)
(* and the job.                                                            *)
(***************************************************************************)
EXTENDS Recording, TLC

CONSTANTS duel, c1, c2, h1

MCSource == c1 :> duel @@ c2 :> duel
=============================================================================
