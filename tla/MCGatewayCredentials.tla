------------------------- MODULE MCGatewayCredentials -------------------------
(* Small instances of GatewayCredentials.                                  *)
EXTENDS GatewayCredentials, TLC

Symmetric == Permutations(Resident) \cup Permutations(Grant) \cup Permutations(Cred)
=============================================================================
