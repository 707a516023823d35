--------------------------- MODULE MCWorkerEpisode ---------------------------
(* Instances of WorkerEpisode for TLC. *)
EXTENDS WorkerEpisode
=============================================================================
