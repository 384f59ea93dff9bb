--------------------------- MODULE MCSecureChannel ---------------------------
(* Small instance of SecureChannel: the constants are in the .cfg files. *)
EXTENDS SecureChannel
=============================================================================
