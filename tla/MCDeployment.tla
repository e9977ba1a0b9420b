---------------------------- MODULE MCDeployment ----------------------------
(* Small instances of Deployment for TLC. *)
EXTENDS Deployment, TLC

Interchangeable == Permutations(Bootstraps) \union Permutations(Operations)
=============================================================================
