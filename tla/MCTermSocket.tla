---------------------------- MODULE MCTermSocket ----------------------------
(* The attachment with the default ratio of its timers; the constants are in *)
(* the cfg file.                                                             *)
EXTENDS TermSocket
=============================================================================
