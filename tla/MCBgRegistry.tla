---------------------------- MODULE MCBgRegistry ----------------------------
(* Small instances of BgRegistry.                                          *)
EXTENDS BgRegistry
=============================================================================
