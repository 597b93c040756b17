------------------------------ MODULE MCDirector ------------------------------
(***************************************************************************)
(* Small workloads for Director.                                           *)
(***************************************************************************)
EXTENDS Director, TLC

CONSTANTS s1, s2, ann, bob

MCSessionIds == {s1, s2}
MCUsers == {ann, bob}
MCOwner == (s1 :> ann) @@ (s2 :> bob)

Anonymous(id, header) ==
    [id |-> id, credential |-> "missing", session |-> s1, xUser |-> header]
CutShort(id) == [Anonymous(id, NoUser) EXCEPT !.credential = "truncated"]
SignedIn(id, sid, header) ==
    [id |-> id, credential |-> "session", session |-> sid, xUser |-> header]

\* Every kind of request, with headers X-User of their own.
Mixed == {SignedIn(1, s1, NoUser), SignedIn(2, s1, Forged), SignedIn(3, s2, Forged),
          Anonymous(4, Forged), CutShort(5)}

=============================================================================
