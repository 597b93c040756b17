------------------------------ MODULE MCTeamView ------------------------------
(***************************************************************************)
(* TeamView with interchangeable days and people.                          *)
(***************************************************************************)
EXTENDS TeamView, TLC

Interchangeable == Permutations(Days) \cup Permutations(People)

=============================================================================
