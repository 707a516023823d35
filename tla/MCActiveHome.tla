---------------------------- MODULE MCActiveHome ----------------------------
(* Small instances of the active home conversation for TLC. *)
EXTENDS ActiveHome

=============================================================================
