------------------------------- MODULE Weights --------------------------------
(***************************************************************************)
(* The prototype of availability as counts (servers/schedules/dev/weights):*)
(* a team has a weight for each hour, the number of its members who are    *)
(* free then, and is available where the weight is the number of members.  *)
(* No handler uses it; TimeZones compares it with what the handlers do.    *)
(*                                                                         *)
(* An array is a function from the hours it has an element for.            *)
(***************************************************************************)
EXTENDS SequencesExt

NoWeights(hours) == [h \in hours |-> 0]

AddUser(userArr, teamArr) ==
    [h \in DOMAIN teamArr |-> IF userArr[h] THEN teamArr[h] + 1 ELSE teamArr[h]]

WeightsToSchedule(arr, n) == [h \in DOMAIN arr |-> arr[h] = n]

\* The script: users are added one after the other, and then the team is shown.
TeamSchedule(users, hours) ==
    WeightsToSchedule(FoldRight(AddUser, users, NoWeights(hours)), Len(users))

=============================================================================
