----------------------------- MODULE MCArtifacts -----------------------------
(* An instance of Artifacts for TLC. *)
EXTENDS Artifacts
=============================================================================
