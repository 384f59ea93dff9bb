-------------------------- MODULE MCSourceLimiters --------------------------
(* Small instance of SourceLimiters: the constants are in the .cfg file. *)
EXTENDS SourceLimiters
=============================================================================
