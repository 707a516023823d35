-------------------------- MODULE MCAgentHistory --------------------------
(* The batches are the empty one and one whose first call is not a run. A  *)
(* watch message, whose frames are read from disk and later stripped, and  *)
(* ambient chat, which wakes nothing, stand for the kinds of input. The    *)
(* first start finds no transcript, or one that was compacted before.      *)
EXTENDS AgentHistory

MCBatches == {<<>>, <<"think", "run">>}

MCInputs == {"watch", "ambient"}

MCTranscripts == {<<>>, <<Summary({1}), [id |-> 2] @@ User(FALSE)>>}
=============================================================================
