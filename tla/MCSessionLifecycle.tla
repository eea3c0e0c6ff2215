------------------------- MODULE MCSessionLifecycle -------------------------
(***************************************************************************)
(* SessionLifecycle for TLC.  The runs differ in the faults they allow and *)
(* in their bounds: see the .cfg files.                                    *)
(***************************************************************************)
EXTENDS SessionLifecycle, TLC

Symmetry == Permutations(Sessions)
=============================================================================
