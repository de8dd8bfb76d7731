--------------------------- MODULE MCDesktopGuard ---------------------------
(* Small instances of DesktopGuard for TLC.                                *)
EXTENDS DesktopGuardContract, TLC

(* Restore calls are interchangeable; used in runs without liveness only.  *)
RestorerSymmetry == Permutations(Restorers)
=============================================================================
