----------------------------- MODULE MCDeployment -----------------------------
(***************************************************************************)
(* Deployment with interchangeable people, teams and days.                 *)
(***************************************************************************)
EXTENDS Deployment, TLC

Interchangeable == Permutations(People) \cup Permutations(TeamNames) \cup Permutations(Days)

=============================================================================
