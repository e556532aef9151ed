-------------------------- MODULE MCClientSession --------------------------
(* Small instances of ClientSession for TLC: the tasks, messages and task  *)
(* identities of the cfg files are model values.                           *)
EXTENDS ClientSession, TLC
===========================================================================
