------------------------- MODULE MCConnectRecovery -------------------------
(* Bounded instance of ConnectRecovery.                                      *)
EXTENDS ConnectRecovery

MCAlias == {1}
MCKinds == {"playing", "paused", "selected_alias", "connect_transfer"}
=============================================================================
