---------------------------- MODULE MCDeployment ----------------------------
(* A small instance of Deployment for TLC. *)
EXTENDS Deployment, TLC

CONSTANTS i1, i2    \* model values

\* Runs of the lambda differ by name only.
LambdaSymmetry == Permutations({i1, i2})
=============================================================================
