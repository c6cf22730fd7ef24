------------------------------ MODULE MCStrCli ------------------------------
(* Small instances of StrCli for TLC. *)
EXTENDS StrCli
=============================================================================
