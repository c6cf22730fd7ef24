---------------------------- MODULE MCExecDaemon ----------------------------
(* Small instances of ExecDaemon for TLC. *)
EXTENDS ExecDaemon

CONSTANTS c1, c2, c3

MCClients == {c1, c2, c3}
=============================================================================
