----------------------------- MODULE MCHostLink -----------------------------
(* A small instance of HostLink; the constants are in the cfg file. *)
EXTENDS HostLink
=============================================================================
