-------------------------- MODULE MCWorkerSessions --------------------------
(* Instances of WorkerSessions for TLC. *)
EXTENDS WorkerSessions, TLC

CONSTANTS s1, s2

MindSymmetry == Permutations(Mind)

\* Pods that end fail.  The code treats a Pod that succeeded without a durable
\* finish as a protocol failure, so the two ends lead to the same steps.
PodsFail == \A s \in Session : pod'[s] # "succeeded"

\* Bound of the run with two sessions: the second one asks for the place of the
\* first at any point of its life, and is claimed, recovered, dismissed or fails
\* before its Pod is made.
Visitor ==
  /\ status'[s2] \in {"none", "spawning", "failed"}
  /\ start'[s2] \in {"no", "source"}
  /\ inbox'[s2] = 0 /\ s2 \notin claimed'
=============================================================================
