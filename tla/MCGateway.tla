------------------------------ MODULE MCGateway ------------------------------
(***************************************************************************)
(* Small workloads for Gateway.  People are told apart by their email.     *)
(***************************************************************************)
EXTENDS Gateway

CONSTANTS ann, bob, pa, pb, na, nb

MCEmails == {ann, bob}
MCUserNames == {ann, bob}
MCPasswords == {pa, pb}
MCNames == {na, nb}

SignUp(id, email, userName, password) ==
    [type |-> "signUp", id |-> id, json |-> TRUE, valid |-> TRUE, email |-> email,
     userName |-> userName, password |-> password, name |-> na]

SignIn(id, email, password) ==
    [type |-> "signIn", id |-> id, json |-> TRUE, email |-> email, password |-> password]

WithSession(sid) == [credential |-> "session", session |-> sid]
WithoutSession == [credential |-> "missing", session |-> 0]
CutShortID == [credential |-> "truncated", session |-> 0]

Profile(id, auth, who) == [type |-> "profile", id |-> id, auth |-> auth, who |-> who]

Update(id, auth, who, name) ==
    [type |-> "update", id |-> id, auth |-> auth, who |-> who, json |-> TRUE, name |-> name]

SignOut(id, auth) == [type |-> "signOut", id |-> id, auth |-> auth, mine |-> TRUE]

Other(id, auth) == [type |-> "other", id |-> id, auth |-> auth, specific |-> TRUE]

-----------------------------------------------------------------------------
\* Three sign up for two emails and two user names; one of them signs in.
Accounts == {SignUp(1, ann, ann, pa), SignUp(2, ann, bob, pb), SignUp(3, bob, ann, pb),
             SignIn(4, ann, pb)}

\* Two users, one of whom changes and reads profiles and signs out meanwhile.
Profiles == {SignUp(1, ann, ann, pa), SignUp(6, bob, bob, pb),
             Update(7, WithSession(1), 0, nb), Update(8, WithSession(1), 2, nb),
             Profile(9, WithSession(1), 2), SignOut(10, WithSession(1))}

\* Early returns, and an update that changes nothing.
Refusals == {SignUp(1, ann, ann, pa),
             [SignUp(11, bob, bob, pb) EXCEPT !.valid = FALSE],
             [SignIn(12, ann, pa) EXCEPT !.json = FALSE],
             Profile(13, WithoutSession, 0),
             Profile(14, CutShortID, 0),
             Other(18, WithSession(1)),
             [Other(19, WithoutSession) EXCEPT !.specific = FALSE],
             [Update(15, WithSession(1), 1, nb) EXCEPT !.json = FALSE],
             [SignOut(16, WithSession(1)) EXCEPT !.mine = FALSE],
             Update(17, WithSession(1), 0, na)}

MCMixes == {Accounts, Profiles, Refusals}

=============================================================================
