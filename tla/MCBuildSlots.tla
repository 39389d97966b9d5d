---------------------------- MODULE MCBuildSlots ----------------------------
(***************************************************************************)
(* Model-checking instance of BuildSlots: images are interchangeable.      *)
(***************************************************************************)
EXTENDS BuildSlots, TLC

Symmetry == Permutations(Images)
=============================================================================
