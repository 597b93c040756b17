----------------------------- MODULE MCWebClient -----------------------------
(***************************************************************************)
(* WebClient with interchangeable tabs, jobs and users.                    *)
(***************************************************************************)
EXTENDS WebClient, TLC

Interchangeable == Permutations(Tabs) \cup Permutations(Jobs) \cup Permutations(Users)

=============================================================================
