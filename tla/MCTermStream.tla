---------------------------- MODULE MCTermStream ----------------------------
(***************************************************************************)
(* TermStream for TLC: one client, see MCTermStream.cfg.  The safety       *)
(* properties are proved for any number of clients (TermStreamProofs).     *)
(***************************************************************************)
EXTENDS TermStream
=============================================================================
