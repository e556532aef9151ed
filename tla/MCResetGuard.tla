--------------------------- MODULE MCResetGuard ---------------------------
(* Small instances of ResetGuard for TLC: the watchers and keys of the cfg *)
(* files are model values.                                                  *)
EXTENDS ResetGuard, TLC
===========================================================================
