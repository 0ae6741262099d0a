---------------------------- MODULE MCStreamHub ----------------------------
(* StreamHub for TLC: viewers and sources are interchangeable. *)
EXTENDS StreamHub, TLC

Symmetry == Permutations(Viewer) \cup Permutations(Source)
=============================================================================
