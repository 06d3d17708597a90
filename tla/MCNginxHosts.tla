---------------------------- MODULE MCNginxHosts ----------------------------
(***************************************************************************)
(* NginxHosts on a small instance: handlers are interchangeable, and so    *)
(* are the configurations that nginx accepts.                              *)
(***************************************************************************)
EXTENDS NginxHosts, TLC

Symmetry == Permutations(Handler) \cup Permutations(Config \ Broken)
=============================================================================
