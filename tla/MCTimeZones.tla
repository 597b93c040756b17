----------------------------- MODULE MCTimeZones ------------------------------
(***************************************************************************)
(* TimeZones with two people in Seattle, where clocks change, and one in   *)
(* Tokyo, where they do not.                                               *)
(***************************************************************************)
EXTENDS TimeZones

CONSTANTS ann, bob, cyd,
          MaxPosts  \* bound on the windows posted, by all users together

Interchangeable == Permutations({ann, bob}) \cup Permutations(Days)

WinterZones == [u \in Users |-> IF u = cyd THEN 9 ELSE -8]
SummerZones == [u \in Users |-> IF u = cyd THEN 9 ELSE -7]

Instants == {24 + h - z : h \in Hours, z \in {9, -8}}

PostsBounded ==
    Len(userSchedules[ann]) + Len(userSchedules[bob]) + Len(userSchedules[cyd]) <= MaxPosts

=============================================================================
