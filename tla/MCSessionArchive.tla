-------------------------- MODULE MCSessionArchive --------------------------
(***************************************************************************)
(* SessionArchive for TLC: MCArchive.cfg is one life of the host with two  *)
(* sessions, MCArchiveLives.cfg one session over two lives.                *)
(***************************************************************************)
EXTENDS SessionArchive, TLC

Symmetry == Permutations(Sessions)
=============================================================================
