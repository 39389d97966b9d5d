--------------------------- MODULE MCBuildEngine ---------------------------
(***************************************************************************)
(* Manifests for the model checker: a step of the builder before one of a  *)
(* sidecar, which is the example of docs/user-guide/vmimage.md; a sidecar  *)
(* before sysprep; and a build that asks nothing of the guest.             *)
(***************************************************************************)
EXTENDS BuildEngine

ShellFirst == {<<"shell", "ansible">>}
Mixed == ShellFirst \cup {<<"ansible", "sysprep">>, <<"cloud-init">>}
=============================================================================
