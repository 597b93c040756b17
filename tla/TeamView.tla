------------------------------- MODULE TeamView -------------------------------
(***************************************************************************)
(* The page of schedules and teams of the web client                       *)
(* (MainPageContent.js): what one tab shows, and the requests it has in    *)
(* flight.  Fetches run concurrently: the service handles each of them in  *)
(* one step, the page uses its answer in another, and two answers may come *)
(* in either order.  The page keeps no track of which answer is the last   *)
(* it asked for.                                                           *)
(*                                                                         *)
(* Of a team's availability only whose it is is modelled.  The service is  *)
(* taken at its word (AtomicSchedules): nothing stored is lost again.      *)
(***************************************************************************)
EXTENDS Naturals, Sequences, FiniteSets

CONSTANTS
    Days, Teams,
    OldTeams,      \* teams of others the user is in
    People,        \* people who may be added to a team, its creator apart
    NoTeam,        \* the option "Select a team"
    Slots,         \* room for posts in flight
    MaxFetches,    \* bound on the fetches in flight
    MaxFaults      \* bound on requests without an answer, or with an error

ASSUME OldTeamsAreTeams == OldTeams \subseteq Teams
ASSUME NoTeamIsNoTeam == NoTeam \notin Teams
ASSUME BoundsAreNumbers == MaxFetches \in Nat /\ MaxFaults \in Nat

VARIABLES
    stored,    \* the collections: the user's days and teams, and their members
    teamID,    \* the team selected
    shown,     \* what is on the page, of each kind, and of which team
    fetches,   \* the fetches in flight of each kind, in the order of sending
    posts,     \* the posts in flight
    stale,     \* history, of each kind: the page asked for it, and then the answer
               \* did not come, or came and an older one after it
    acked,     \* history: what this browser was told is stored
    faults

page == <<teamID, shown, fetches, stale>>
vars == <<stored, teamID, shown, fetches, posts, stale, acked, faults>>

Kind == {"schedule", "teams", "teamSchedule", "members"}
Item == Days \cup Teams \cup People
Content == [team : Teams \cup {NoTeam}, items : SUBSET Item]

\* `answered' is FALSE until the service has read the items.
Fetch == [team : Teams \cup {NoTeam}, answered : BOOLEAN, items : SUBSET Item,
          overtaken : BOOLEAN]

\* `mine' is FALSE if the page that sent it is gone.
Post == [kind : {"schedule", "teams", "members"}, team : Teams \cup {NoTeam},
         item : Item, at : {"sent", "created"}, mine : BOOLEAN]

Idle == [at |-> "idle"]

Collections == [schedule : SUBSET Days, teams : SUBSET Teams, members : [Teams -> SUBSET People]]

TypeOK ==
    /\ stored \in Collections /\ acked \in Collections
    /\ teamID \in Teams \cup {NoTeam}
    /\ shown \in [Kind -> Content]
    /\ fetches \in [Kind -> Seq(Fetch)]
    /\ posts \in [Slots -> Post \cup {Idle}]
    /\ stale \in [Kind -> BOOLEAN]
    /\ faults \in 0 .. MaxFaults

Blank == [team |-> NoTeam, items |-> {}]

Sent(team) == [team |-> team, answered |-> FALSE, items |-> {}, overtaken |-> FALSE]

\* The constructor of the page.
Mounted(k) == IF k \in {"schedule", "teams"} THEN <<Sent(NoTeam)>> ELSE <<>>

Nothing == [schedule |-> {}, teams |-> {}, members |-> [t \in Teams |-> {}]]

Init ==
    /\ stored = [Nothing EXCEPT !.teams = OldTeams] /\ acked = Nothing
    /\ teamID = NoTeam
    /\ shown = [k \in Kind |-> Blank]
    /\ fetches = [k \in Kind |-> Mounted(k)]
    /\ posts = [s \in Slots |-> Idle]
    /\ stale = [k \in Kind |-> FALSE]
    /\ faults = 0

-----------------------------------------------------------------------------
Room(n) ==
    Len(fetches["schedule"]) + Len(fetches["teams"])
      + Len(fetches["teamSchedule"]) + Len(fetches["members"]) + n <= MaxFetches

\* The page asks for the kinds ks, of a team or of the user.
Ask(ks, team) ==
    /\ Room(Cardinality(ks))
    /\ fetches' = [k \in Kind |-> IF k \in ks THEN Append(fetches[k], Sent(team)) ELSE fetches[k]]
    /\ stale' = [k \in Kind |-> stale[k] /\ k \notin ks]

Fault == faults < MaxFaults /\ faults' = faults + 1

With(collections, kind, team, item) ==
    IF kind = "members" THEN [collections EXCEPT !.members[team] = @ \cup {item}]
    ELSE [collections EXCEPT ![kind] = @ \cup {item}]

(***************************************************************************)
(* The handlers that read: getUserScheduleHandler, getTeamsHandler,        *)
(* getSpecificTeamHandler and getMembersHandler.                           *)
(***************************************************************************)
Read(kind, team) ==
    CASE kind \in {"schedule", "teams"} -> stored[kind]
      [] kind = "members" -> stored.members[team]
      [] kind = "teamSchedule" -> {}

Answer(k, i) ==
    /\ i \in DOMAIN fetches[k] /\ ~fetches[k][i].answered
    /\ fetches' = [fetches EXCEPT ![k][i].answered = TRUE,
                                  ![k][i].items = Read(k, fetches[k][i].team)]
    /\ UNCHANGED <<stored, teamID, shown, posts, stale, acked, faults>>

\* The fetches of kind k once fetch i is over: those sent before it are overtaken.
Without(k, i) ==
    [j \in 1 .. Len(fetches[k]) - 1 |->
        IF j < i THEN [fetches[k][j] EXCEPT !.overtaken = TRUE] ELSE fetches[k][j + 1]]

\* getSchedule and getTeams leave the page as it is when there is nothing (404).
Use(k, i) ==
    /\ i \in DOMAIN fetches[k] /\ fetches[k][i].answered
    /\ LET f == fetches[k][i]
       IN  /\ shown' = IF k \in {"schedule", "teams"} /\ f.items = {} THEN shown
                       ELSE [shown EXCEPT ![k] = [team |-> f.team, items |-> f.items]]
           /\ stale' = [stale EXCEPT ![k] = f.overtaken]
    /\ fetches' = [fetches EXCEPT ![k] = Without(k, i)]
    /\ UNCHANGED <<stored, teamID, posts, acked, faults>>

\* An error or none: an alert at most, and the page stays as it is.
Fail(k, i) ==
    /\ i \in DOMAIN fetches[k]
    /\ Fault
    /\ stale' = [stale EXCEPT ![k] = @ \/ (i = Len(fetches[k]) /\ ~fetches[k][i].overtaken)]
    /\ fetches' = [fetches EXCEPT ![k] = Without(k, i)]
    /\ UNCHANGED <<stored, teamID, shown, posts, acked>>

-----------------------------------------------------------------------------
(***************************************************************************)
(* onTeamChange.  Selecting no team clears the availability and sends      *)
(* nothing; the members stay on the page.                                  *)
(***************************************************************************)
\* Mutant: the members of the new team are not fetched.
SelectScheduleOnly(t) ==
    /\ t \in shown["teams"].items /\ t # teamID
    /\ teamID' = t
    /\ Ask({"teamSchedule"}, t)
    /\ UNCHANGED <<stored, shown, posts, acked, faults>>

Select(t) ==
    /\ t \in shown["teams"].items /\ t # teamID
    /\ teamID' = t
    /\ Ask({"teamSchedule", "members"}, t)
    /\ UNCHANGED <<stored, shown, posts, acked, faults>>

Unselect ==
    /\ teamID # NoTeam
    /\ teamID' = NoTeam
    /\ shown' = [shown EXCEPT !["teamSchedule"] = Blank]
    /\ fetches' = [fetches EXCEPT !["teamSchedule"] =
                     [j \in DOMAIN @ |-> [@[j] EXCEPT !.overtaken = TRUE]]]
    /\ stale' = [stale EXCEPT !["teamSchedule"] = FALSE]
    /\ UNCHANGED <<stored, posts, acked, faults>>

-----------------------------------------------------------------------------
(***************************************************************************)
(* postSchedule, postTeam and postTeamMembers.                             *)
(***************************************************************************)
Submit(s, kind, item) ==
    /\ posts[s] = Idle
    /\ kind = "members" => teamID # NoTeam
    /\ With(acked, kind, teamID, item) # acked
    /\ posts' = [posts EXCEPT ![s] =
                   [kind |-> kind, team |-> IF kind = "members" THEN teamID ELSE NoTeam,
                    item |-> item, at |-> "sent", mine |-> TRUE]]
    /\ UNCHANGED <<stored, page, acked, faults>>

\* The service stores the item, or refuses to, which raises an alert at most:
\* what is stored already, and an addition by one who is not the creator.
Handle(s) ==
    LET p == posts[s]
    IN  /\ p.at = "sent"
        /\ \/ /\ stored' = With(stored, p.kind, p.team, p.item)
              /\ stored' # stored /\ p.team \notin OldTeams
              /\ posts' = [posts EXCEPT ![s] = IF p.mine THEN [p EXCEPT !.at = "created"] ELSE Idle]
           \/ UNCHANGED stored /\ posts' = [posts EXCEPT ![s] = Idle]
        /\ UNCHANGED <<page, acked, faults>>

\* Mutant: the team's members are fetched, the user's days and teams are not.
AcknowledgedUnlessOwn(s) ==
    LET p == posts[s]
    IN  /\ p.at = "created"
        /\ acked' = With(acked, p.kind, p.team, p.item)
        /\ Ask(IF p.kind # "members" \/ teamID = NoTeam THEN {} ELSE {p.kind}, teamID)
        /\ posts' = [posts EXCEPT ![s] = Idle]
        /\ UNCHANGED <<stored, teamID, shown, faults>>

\* The members fetched are those of the team selected by then.
Acknowledged(s) ==
    LET p == posts[s]
    IN  /\ p.at = "created"
        /\ acked' = With(acked, p.kind, p.team, p.item)
        /\ IF p.kind # "members" THEN Ask({p.kind}, NoTeam)
           ELSE Ask(IF teamID = NoTeam THEN {} ELSE {"members"}, teamID)
        /\ posts' = [posts EXCEPT ![s] = Idle]
        /\ UNCHANGED <<stored, teamID, shown, faults>>

\* The answer is lost.
Lost(s) ==
    /\ posts[s].at = "created"
    /\ Fault
    /\ posts' = [posts EXCEPT ![s] = Idle]
    /\ UNCHANGED <<stored, page, acked>>

(***************************************************************************)
(* The page is left and opened again, or the tab reloaded: a new instance  *)
(* of the component, which the answers to the old one do not reach.        *)
(***************************************************************************)
Remount ==
    /\ teamID' = NoTeam
    /\ shown' = [k \in Kind |-> Blank]
    /\ fetches' = [k \in Kind |-> Mounted(k)]
    /\ stale' = [k \in Kind |-> FALSE]
    /\ posts' = [s \in Slots |-> IF posts[s].at = "sent" THEN [posts[s] EXCEPT !.mine = FALSE]
                                 ELSE Idle]
    /\ UNCHANGED <<stored, acked, faults>>

ItemsOf == [schedule |-> Days, teams |-> Teams, members |-> People]

Next ==
    \/ \E k \in Kind : \E i \in DOMAIN fetches[k] : Answer(k, i) \/ Use(k, i) \/ Fail(k, i)
    \/ Unselect \/ Remount \/ \E t \in Teams : Select(t)
    \/ \E s \in Slots : Handle(s) \/ Acknowledged(s) \/ Lost(s)
    \/ \E s \in Slots, kind \in DOMAIN ItemsOf : \E item \in ItemsOf[kind] : Submit(s, kind, item)

Spec == Init /\ [][Next]_vars

-----------------------------------------------------------------------------
\* Nothing of this kind is on its way, and answers did not overtake each other.
Settled(k) == fetches[k] = <<>> /\ ~stale[k]

(***************************************************************************)
(* The availability and the members on the page are those of the team      *)
(* selected, whatever was selected before and whatever answers came late,  *)
(* unless one overtook another.  With no team selected no availability is  *)
(* left (the members are).                                                 *)
(***************************************************************************)
ShownIsSelected ==
    /\ Settled("teamSchedule") => shown["teamSchedule"].team = teamID
    /\ Settled("members") /\ teamID # NoTeam => shown["members"].team = teamID

(***************************************************************************)
(* What the user was told is stored is on the page, also when it was left  *)
(* while the request was on its way: own days, own teams, and the members  *)
(* of the team selected, in whichever order posts and selections ended.    *)
(***************************************************************************)
AckedShown ==
    /\ Settled("schedule") => acked.schedule \subseteq shown["schedule"].items
    /\ Settled("teams") => acked.teams \subseteq shown["teams"].items
    /\ Settled("members") /\ teamID # NoTeam => acked.members[teamID] \subseteq shown["members"].items

=============================================================================
