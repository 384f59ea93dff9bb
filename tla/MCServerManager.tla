--------------------------- MODULE MCServerManager ---------------------------
(* Small instance of ServerManager: the constants are in MCServerManager.cfg. *)
EXTENDS ServerManager
=============================================================================
