-------------------------------- MODULE MCPush --------------------------------
(***************************************************************************)
(* An instance of Push for TLC: its constants are in the configuration.    *)
(***************************************************************************)
EXTENDS Push
=============================================================================
