---------------------------- MODULE MCProcessing ----------------------------
(* Model-checking instances of Processing. *)
EXTENDS Processing, TLC

Symmetry == Permutations(Docs) \cup Permutations(Texts) \cup Permutations(Sidecars)

=============================================================================
