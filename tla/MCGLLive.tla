------------------------------ MODULE MCGLLive ------------------------------
(* Bounded instances of GLLive: the configurations choose the event kinds.   *)
EXTENDS GLLive

MCAlias == {1, 2}
MCOneAlias == {1}
MCMirror == {"playing", "selected_alias"}
MCNative == {"selected_alias", "volume", "volume_action", "connect_transfer"}
=============================================================================
