---------------------------- MODULE MCArtifacts -----------------------------
(* One artifact, the manifest worker and two threads that serve requests.  *)
EXTENDS Artifacts, TLC

CONSTANTS a1, h1, h2

Symmetric == Permutations(Handlers)
=============================================================================
