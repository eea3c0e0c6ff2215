----------------------------- MODULE MCOverview -----------------------------
(***************************************************************************)
(* Overview for TLC: one viewer and one machine, one of which goes away,   *)
(* under fairness.                                                         *)
(***************************************************************************)
EXTENDS Overview
=============================================================================
