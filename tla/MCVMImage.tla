----------------------------- MODULE MCVMImage -----------------------------
(* Model values for the checks of VMImage.                                 *)
EXTENDS VMImage

AllPolicies == {"Never", "OnFailure", "Always"}
OnlyNever == {"Never"}
OnlyOnFailure == {"OnFailure"}
=============================================================================
