---------------------------- MODULE MCSshSession ----------------------------
(* A small instance of SshSession for TLC.                                 *)
EXTENDS SshSession
=============================================================================
