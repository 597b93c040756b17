---------------------------- MODULE TeamViewProofs ----------------------------
(***************************************************************************)
(* What the page of teams shows, for any days, teams and people, any       *)
(* number of posts and fetches in flight and any answers lost.             *)
(***************************************************************************)
EXTENDS TeamView, TLAPS

\* An item is of the kind it is posted as.
Fits(kind, team, item) ==
    /\ kind \in {"schedule", "teams", "members"}
    /\ kind = "schedule" => item \in Days
    /\ kind = "teams" => item \in Teams
    /\ kind = "members" => item \in People /\ team \in Teams

Has(collections, kind, team, item) ==
    IF kind = "members" THEN item \in collections.members[team] ELSE item \in collections[kind]

\* A post under way is one that can be stored; one that was answered was.
GoodPost(p) ==
    p # Idle => /\ Fits(p.kind, p.team, p.item)
                /\ p.at = "created" => Has(stored, p.kind, p.team, p.item)

AckedStored ==
    /\ acked.schedule \subseteq stored.schedule /\ acked.teams \subseteq stored.teams
    /\ \A t \in Teams : acked.members[t] \subseteq stored.members[t]

OfTeam == \A k \in {"teamSchedule", "members"} : \A i \in DOMAIN fetches[k] : fetches[k][i].team \in Teams

-----------------------------------------------------------------------------
(***************************************************************************)
(* What the page may show of kind k when nothing is left to come: the      *)
(* properties, of the content c.                                           *)
(***************************************************************************)
UpToDate(k, c) ==
    /\ k \in {"schedule", "teams"} => acked[k] \subseteq c.items
    /\ k = "teamSchedule" => c.team = teamID
    /\ k = "members" /\ teamID # NoTeam => c.team = teamID /\ acked.members[teamID] \subseteq c.items

\* What fetch f will show, if its answer is used.
ToShow(k, f) ==
    [team |-> f.team, items |-> IF f.answered THEN f.items ELSE Read(k, f.team)]

(***************************************************************************)
(* The fetches that were overtaken are the first ones.  The last one, if   *)
(* it was not, will bring what may be shown; once all were, what is shown  *)
(* may be, unless it is stale.                                             *)
(***************************************************************************)
Overtaken(k) == {i \in DOMAIN fetches[k] : fetches[k][i].overtaken}

OvertakenFirst(k) == \A i, j \in DOMAIN fetches[k] : i < j /\ j \in Overtaken(k) => i \in Overtaken(k)

LatestIsGood(k) ==
    LET n == Len(fetches[k])
    IN  n > 0 /\ n \notin Overtaken(k) => UpToDate(k, ToShow(k, fetches[k][n]))

ShownIsGood(k) ==
    Overtaken(k) = DOMAIN fetches[k] /\ ~stale[k] => UpToDate(k, shown[k])

Good(k) == OvertakenFirst(k) /\ LatestIsGood(k) /\ ShownIsGood(k)

Inv ==
    /\ TypeOK
    /\ \A s \in Slots : GoodPost(posts[s])
    /\ AckedStored
    /\ OfTeam
    /\ \A k \in Kind : Good(k)

-----------------------------------------------------------------------------
\* The records and sequences of the state.
LEMMA Types ==
    ASSUME TypeOK
    PROVE  /\ \A k \in Kind : fetches[k] \in Seq(Fetch) /\ shown[k] \in Content /\ stale[k] \in BOOLEAN
           /\ \A s \in Slots : posts[s] \in Post \cup {Idle}
           /\ stored.schedule \subseteq Days /\ stored.teams \subseteq Teams
           /\ acked.schedule \subseteq Days /\ acked.teams \subseteq Teams
           /\ \A t \in Teams : stored.members[t] \subseteq People /\ acked.members[t] \subseteq People
BY DEF TypeOK, Collections

LEMMA IdleIsNoPost ==
    /\ Idle.at = "idle" /\ Idle \notin Post
    /\ \A p \in Post \cup {Idle} : p.at \in {"sent", "created"} => p # Idle /\ p \in Post
<1>1. Idle.at = "idle"
  BY DEF Idle
<1>2. \A p \in Post : p.at \in {"sent", "created"}
  BY DEF Post
<1> QED
  BY <1>1, <1>2

\* What With stores, and that it stores nothing else.
Stores(c, d, kind, team, item) ==
    /\ d.schedule = IF kind = "schedule" THEN c.schedule \cup {item} ELSE c.schedule
    /\ d.teams = IF kind = "teams" THEN c.teams \cup {item} ELSE c.teams
    /\ \A t \in Teams : d.members[t] =
          IF kind = "members" /\ t = team THEN c.members[t] \cup {item} ELSE c.members[t]

LEMMA WithStores ==
    ASSUME NEW c \in Collections, NEW kind, NEW team, NEW item, Fits(kind, team, item)
    PROVE  /\ With(c, kind, team, item) \in Collections
           /\ Stores(c, With(c, kind, team, item), kind, team, item)
<1> DEFINE d == With(c, kind, team, item)
<1>1. CASE kind = "schedule"
  <2>1. d = [c EXCEPT !.schedule = @ \cup {item}]
    BY <1>1 DEF With
  <2> QED
    BY <1>1, <2>1 DEF Collections, Fits, Stores
<1>2. CASE kind = "teams"
  <2>1. d = [c EXCEPT !.teams = @ \cup {item}]
    BY <1>2 DEF With
  <2> QED
    BY <1>2, <2>1 DEF Collections, Fits, Stores
<1>3. CASE kind = "members"
  <2>1. d = [c EXCEPT !.members[team] = @ \cup {item}]
    BY <1>3 DEF With
  <2>2. c.members \in [Teams -> SUBSET People] /\ team \in Teams /\ item \in People
    BY <1>3 DEF Collections, Fits
  <2>3. d.members = [c.members EXCEPT ![team] = @ \cup {item}]
    BY <2>1 DEF Collections
  <2>4. d.members \in [Teams -> SUBSET People]
    BY <2>2, <2>3
  <2>5. d.schedule = c.schedule /\ d.teams = c.teams /\ d \in Collections
    BY <2>1, <2>4 DEF Collections
  <2> QED
    BY <1>3, <2>2, <2>3, <2>5 DEF Stores
<1> QED
  BY <1>1, <1>2, <1>3 DEF Fits

LEMMA WithHas ==
    ASSUME NEW c \in Collections, NEW kind, NEW team, NEW item, Fits(kind, team, item)
    PROVE  /\ Has(With(c, kind, team, item), kind, team, item)
           /\ \A k, t, i : Fits(k, t, i) /\ Has(c, k, t, i) => Has(With(c, kind, team, item), k, t, i)
<1> DEFINE d == With(c, kind, team, item)
<1>1. Stores(c, d, kind, team, item)
  BY WithStores
<1> HIDE DEF d
<1>2. ASSUME NEW k, NEW t, NEW i, Fits(k, t, i), Has(c, k, t, i) \/ (k = kind /\ t = team /\ i = item)
      PROVE  Has(d, k, t, i)
  <2>1. CASE k = "schedule"
    BY <1>1, <1>2, <2>1 DEF Has, Stores
  <2>2. CASE k = "teams"
    BY <1>1, <1>2, <2>2 DEF Has, Stores
  <2>3. CASE k = "members"
    BY <1>1, <1>2, <2>3 DEF Has, Stores, Fits
  <2> QED
    BY <1>2, <2>1, <2>2, <2>3 DEF Fits
<1> QED
  BY <1>2 DEF d

LEMMA NothingIsStored == Nothing \in Collections /\ [Nothing EXCEPT !.teams = OldTeams] \in Collections
BY OldTeamsAreTeams DEF Nothing, Collections

LEMMA ReadItems ==
    ASSUME TypeOK, NEW k \in Kind, NEW team, k = "members" => team \in Teams
    PROVE  Read(k, team) \subseteq Item
<1>1. CASE k = "schedule"
  BY <1>1, Types DEF Read, Item
<1>2. CASE k = "teams"
  BY <1>2, Types DEF Read, Item
<1>3. CASE k = "members"
  BY <1>3, Types DEF Read, Item
<1>4. CASE k = "teamSchedule"
  BY <1>4 DEF Read
<1> QED
  BY <1>1, <1>2, <1>3, <1>4 DEF Kind

-----------------------------------------------------------------------------
(***************************************************************************)
(* One kind of fetches, by what becomes of them.                           *)
(***************************************************************************)
LEMMA FetchFacts ==
    ASSUME TypeOK, NEW k \in Kind
    PROVE  /\ Len(fetches[k]) \in Nat /\ DOMAIN fetches[k] = 1 .. Len(fetches[k])
           /\ \A i \in DOMAIN fetches[k] : fetches[k][i] \in Fetch
           /\ Overtaken(k) \subseteq DOMAIN fetches[k]
BY Types DEF Overtaken

\* Nothing of what may be shown has changed but that more is stored.
Steady(k) ==
    /\ k \in {"teamSchedule", "members"} => teamID' = teamID
    /\ k \in {"schedule", "teams"} => acked'[k] = acked[k] /\ stored[k] \subseteq stored'[k]
    /\ k = "members" => \A t \in Teams : /\ acked'.members[t] = acked.members[t]
                                         /\ stored.members[t] \subseteq stored'.members[t]

LEMMA SteadyKeeps ==
    ASSUME TypeOK, NEW k \in Kind, Steady(k)
    PROVE  /\ \A c : UpToDate(k, c) => UpToDate(k, c)'
           /\ \A f : UpToDate(k, ToShow(k, f)) => UpToDate(k, ToShow(k, f))'
<1>1. teamID \in Teams \cup {NoTeam}
  BY DEF TypeOK
<1>2. \A c : UpToDate(k, c) => UpToDate(k, c)'
  BY <1>1 DEF Steady, UpToDate
<1>3. ASSUME NEW f, UpToDate(k, ToShow(k, f))
      PROVE  UpToDate(k, ToShow(k, f))'
  <2>1. CASE f.answered
    BY <1>2, <1>3, <2>1 DEF ToShow
  <2>2. CASE ~f.answered
    <3>1. /\ ToShow(k, f).team = f.team /\ ToShow(k, f)'.team = f.team
          /\ ToShow(k, f).items = Read(k, f.team) /\ ToShow(k, f)'.items = Read(k, f.team)'
      BY <2>2 DEF ToShow
    <3>2. CASE k \in {"schedule", "teams"}
      BY <1>3, <3>1, <3>2 DEF Steady, UpToDate, Read
    <3>3. CASE k = "teamSchedule"
      BY <1>3, <3>1, <3>3 DEF Steady, UpToDate
    <3>4. CASE k = "members"
      BY <1>1, <1>3, <3>1, <3>4 DEF Steady, UpToDate, Read
    <3> QED
      BY <3>2, <3>3, <3>4 DEF Kind
  <2> QED
    BY <2>1, <2>2
<1> QED
  BY <1>2, <1>3

\* Nothing happens to the fetches.
LEMMA KeptGood ==
    ASSUME TypeOK, NEW k \in Kind, Good(k), Steady(k),
           fetches'[k] = fetches[k], shown'[k] = shown[k], stale'[k] = stale[k]
    PROVE  Good(k)'
<1>1. Overtaken(k)' = Overtaken(k)
  BY DEF Overtaken
<1>2. OvertakenFirst(k)'
  BY <1>1 DEF Good, OvertakenFirst
<1>3. LatestIsGood(k)'
  BY <1>1, SteadyKeeps DEF Good, LatestIsGood
<1>4. ShownIsGood(k)'
  BY <1>1, SteadyKeeps DEF Good, ShownIsGood
<1> QED
  BY <1>2, <1>3, <1>4 DEF Good

\* A fetch is sent that will bring what may be shown.
LEMMA AskedGood ==
    ASSUME TypeOK, NEW k \in Kind, Good(k), NEW team,
           fetches'[k] = Append(fetches[k], Sent(team)),
           UpToDate(k, ToShow(k, Sent(team)))'
    PROVE  Good(k)'
<1> DEFINE n == Len(fetches[k])
<1>1. fetches[k] \in Seq(Fetch) /\ n \in Nat /\ DOMAIN fetches[k] = 1 .. n
  BY Types, FetchFacts
<1>2. /\ Len(fetches'[k]) = n + 1 /\ DOMAIN fetches'[k] = 1 .. (n + 1)
      /\ fetches'[k][n + 1] = Sent(team)
      /\ \A i \in 1 .. n : fetches'[k][i] = fetches[k][i]
  BY <1>1
<1>3. ~Sent(team).overtaken
  BY DEF Sent
<1>4. Overtaken(k)' = Overtaken(k)
  BY <1>1, <1>2, <1>3 DEF Overtaken
<1>5. OvertakenFirst(k)'
  BY <1>1, <1>2, <1>4, FetchFacts DEF Good, OvertakenFirst
<1>6. LatestIsGood(k)'
  BY <1>2 DEF LatestIsGood
<1>7. n + 1 \notin Overtaken(k)'
  BY <1>1, <1>4, FetchFacts
<1>8. ShownIsGood(k)'
  BY <1>1, <1>2, <1>7 DEF ShownIsGood
<1> QED
  BY <1>5, <1>6, <1>8 DEF Good

(***************************************************************************)
(* The service has read for a fetch: it brings what it was to bring.       *)
(***************************************************************************)
LEMMA AnsweredGood ==
    ASSUME TypeOK, NEW k \in Kind, Good(k), NEW i \in DOMAIN fetches[k], ~fetches[k][i].answered,
           fetches'[k] = [fetches[k] EXCEPT ![i] =
                            [fetches[k][i] EXCEPT !.answered = TRUE, !.items = Read(k, fetches[k][i].team)]],
           UNCHANGED <<stored, teamID, acked>>, shown'[k] = shown[k], stale'[k] = stale[k]
    PROVE  Good(k)'
<1>1. PICK f \in Fetch : f = fetches[k][i]
  BY FetchFacts
<1>2. PICK g : g = [f EXCEPT !.answered = TRUE, !.items = Read(k, f.team)]
  OBVIOUS
<1>3. g.team = f.team /\ g.answered /\ g.items = Read(k, f.team) /\ g.overtaken = f.overtaken
  BY <1>2 DEF Fetch
<1>4. /\ Len(fetches'[k]) = Len(fetches[k]) /\ DOMAIN fetches'[k] = DOMAIN fetches[k]
      /\ fetches'[k][i] = g
      /\ \A j \in DOMAIN fetches[k] \ {i} : fetches'[k][j] = fetches[k][j]
  BY <1>1, <1>2, Types
<1>5. Overtaken(k)' = Overtaken(k)
  BY <1>1, <1>3, <1>4 DEF Overtaken
<1>6. Steady(k)
  BY DEF Steady
<1>7. LatestIsGood(k)'
  <2> SUFFICES ASSUME NEW n \in DOMAIN fetches[k], n = Len(fetches[k]), n \notin Overtaken(k)
               PROVE  UpToDate(k, ToShow(k, fetches[k][n]))'
    BY <1>4, <1>5, FetchFacts DEF LatestIsGood
  <2>1. PICK h : h = fetches[k][n]
    OBVIOUS
  <2>2. UpToDate(k, ToShow(k, h))'
    BY <1>6, <2>1, SteadyKeeps, FetchFacts DEF Good, LatestIsGood
  <2>3. CASE n = i
    <3>1. ToShow(k, g)' = ToShow(k, h)'
      BY <1>1, <1>3, <2>1, <2>3 DEF ToShow, Read
    <3> QED
      BY <1>4, <2>2, <2>3, <3>1
  <2>4. CASE n # i
    BY <1>4, <2>1, <2>2, <2>4
  <2> QED
    BY <2>3, <2>4
<1>8. OvertakenFirst(k)'
  BY <1>4, <1>5 DEF Good, OvertakenFirst
<1>9. ShownIsGood(k)'
  BY <1>4, <1>5, <1>6, SteadyKeeps DEF Good, ShownIsGood
<1> QED
  BY <1>7, <1>8, <1>9 DEF Good

LEMMA MarkedFetch ==
    ASSUME NEW f \in Fetch
    PROVE  [f EXCEPT !.overtaken = TRUE] \in Fetch /\ [f EXCEPT !.overtaken = TRUE].overtaken
BY DEF Fetch

(***************************************************************************)
(* Fetch i is over.  When all that is left was overtaken, either all was   *)
(* before, or fetch i was the last and was not.                            *)
(***************************************************************************)
LEMMA OverFacts ==
    ASSUME TypeOK, NEW k \in Kind, NEW i \in DOMAIN fetches[k], fetches'[k] = Without(k, i)
    PROVE  /\ fetches'[k] \in Seq(Fetch) /\ Len(fetches'[k]) = Len(fetches[k]) - 1
           /\ DOMAIN fetches'[k] = 1 .. Len(fetches[k]) - 1
           /\ \A j \in 1 .. Len(fetches[k]) - 1 :
                 /\ j < i => fetches'[k][j] = [fetches[k][j] EXCEPT !.overtaken = TRUE]
                 /\ j >= i => fetches'[k][j] = fetches[k][j + 1]
           /\ \A j \in 1 .. Len(fetches[k]) - 1 :
                 j \in Overtaken(k)' <=> j < i \/ j + 1 \in Overtaken(k)
<1> DEFINE n == Len(fetches[k])
<1>1. n \in Nat /\ DOMAIN fetches[k] = 1 .. n /\ \A j \in 1 .. n : fetches[k][j] \in Fetch
  BY FetchFacts
<1>2. i \in 1 .. n /\ n - 1 \in Nat
  BY <1>1
<1>3. \A j \in 1 .. n - 1 : [fetches[k][j] EXCEPT !.overtaken = TRUE] \in Fetch
  BY <1>1, MarkedFetch
<1>4. /\ fetches'[k] = [j \in 1 .. n - 1 |-> IF j < i THEN [fetches[k][j] EXCEPT !.overtaken = TRUE]
                                             ELSE fetches[k][j + 1]]
  BY DEF Without
<1>5. ASSUME NEW j \in 1 .. n - 1
      PROVE  fetches'[k][j] \in Fetch
  <2>1. CASE j < i
    BY <1>3, <1>4, <2>1
  <2>2. CASE ~(j < i)
    <3>1. j + 1 \in 1 .. n
      BY <1>1
    <3> QED
      BY <1>1, <1>4, <2>2, <3>1
  <2> QED
    BY <2>1, <2>2
<1>6. fetches'[k] \in [1 .. n - 1 -> Fetch]
  BY <1>4, <1>5
<1>7. fetches'[k] \in Seq(Fetch) /\ Len(fetches'[k]) = n - 1 /\ DOMAIN fetches'[k] = 1 .. n - 1
  BY <1>2, <1>6
<1>8. \A j \in 1 .. n - 1 :
         /\ j < i => fetches'[k][j] = [fetches[k][j] EXCEPT !.overtaken = TRUE]
         /\ j >= i => fetches'[k][j] = fetches[k][j + 1]
  BY <1>2, <1>4
<1>9. ASSUME NEW j \in 1 .. n - 1
      PROVE  j \in Overtaken(k)' <=> j < i \/ j + 1 \in Overtaken(k)
  <2>1. j \in Overtaken(k)' <=> fetches'[k][j].overtaken
    BY <1>7 DEF Overtaken
  <2>2. CASE j < i
    <3>1. fetches[k][j] \in Fetch
      BY <1>1
    <3> QED
      BY <1>8, <2>1, <2>2, <3>1 DEF Fetch
  <2>3. CASE j >= i
    <3>1. j + 1 \in DOMAIN fetches[k] /\ ~(j < i)
      BY <1>1, <1>2, <2>3
    <3> QED
      BY <1>8, <2>1, <2>3, <3>1 DEF Overtaken
  <2> QED
    BY <1>2, <2>2, <2>3
<1> QED
  BY <1>7, <1>8, <1>9

LEMMA OverGood ==
    ASSUME TypeOK, NEW k \in Kind, Good(k), NEW i \in DOMAIN fetches[k],
           fetches'[k] = Without(k, i), UNCHANGED <<stored, teamID, acked>>,
           (Overtaken(k) = DOMAIN fetches[k] \/ (i = Len(fetches[k]) /\ i \notin Overtaken(k)))
              /\ ~stale'[k]
              => UpToDate(k, shown[k])'
    PROVE  Good(k)'
<1> DEFINE n == Len(fetches[k])
<1>1. n \in Nat /\ DOMAIN fetches[k] = 1 .. n /\ i \in 1 .. n /\ Overtaken(k) \subseteq 1 .. n
  BY FetchFacts
<1>2. /\ Len(fetches'[k]) = n - 1 /\ DOMAIN fetches'[k] = 1 .. n - 1
      /\ \A j \in 1 .. n - 1 : j >= i => fetches'[k][j] = fetches[k][j + 1]
      /\ \A j \in 1 .. n - 1 : j \in Overtaken(k)' <=> j < i \/ j + 1 \in Overtaken(k)
  BY OverFacts
<1>3. \A a, b \in 1 .. n : a < b /\ b \in Overtaken(k) => a \in Overtaken(k)
  BY <1>1 DEF Good, OvertakenFirst
<1>4. OvertakenFirst(k)'
  <2> SUFFICES ASSUME NEW a \in 1 .. n - 1, NEW b \in 1 .. n - 1, a < b, b \in Overtaken(k)'
               PROVE  a \in Overtaken(k)'
    BY <1>2 DEF OvertakenFirst
  <2>1. a + 1 \in 1 .. n /\ b + 1 \in 1 .. n /\ a + 1 < b + 1
    BY <1>1
  <2> QED
    BY <1>1, <1>2, <1>3, <2>1
<1>5. LatestIsGood(k)'
  <2> SUFFICES ASSUME n - 1 > 0, n - 1 \notin Overtaken(k)'
               PROVE  LatestIsGood(k)'
    BY <1>2 DEF LatestIsGood
  <2>1. n - 1 \in 1 .. n - 1
    BY <1>1
  <2>2. n - 1 >= i /\ n \notin Overtaken(k)
    BY <1>1, <1>2, <2>1
  <2>3. PICK f : f = fetches[k][n]
    OBVIOUS
  <2>4. fetches'[k][n - 1] = f
    BY <1>1, <1>2, <2>1, <2>2, <2>3
  <2>5. UpToDate(k, ToShow(k, f))
    BY <1>1, <2>2, <2>3 DEF Good, LatestIsGood
  <2>6. Steady(k)
    BY DEF Steady
  <2>7. UpToDate(k, ToShow(k, f))'
    BY <2>5, <2>6, SteadyKeeps
  <2> QED
    BY <1>2, <2>4, <2>7 DEF LatestIsGood
<1>6. ShownIsGood(k)'
  <2> SUFFICES ASSUME Overtaken(k)' = 1 .. n - 1, ~stale'[k]
               PROVE  UpToDate(k, shown[k])'
    BY <1>2 DEF ShownIsGood
  <2>1. CASE i = n /\ i \notin Overtaken(k)
    BY <2>1
  <2>2. CASE i = n /\ i \in Overtaken(k)
    <3>1. \A a \in 1 .. n : a \in Overtaken(k)
      BY <1>1, <1>3, <2>2
    <3> QED
      BY <1>1, <3>1
  <2>3. CASE i < n
    <3>1. n - 1 \in 1 .. n - 1 /\ ~(n - 1 < i) /\ n - 1 + 1 = n
      BY <1>1, <2>3
    <3>2. n \in Overtaken(k)
      BY <1>2, <3>1
    <3>3. \A a \in 1 .. n : a \in Overtaken(k)
      BY <1>1, <1>3, <3>2
    <3> QED
      BY <1>1, <3>3
  <2> QED
    BY <1>1, <2>1, <2>2, <2>3
<1> QED
  BY <1>4, <1>5, <1>6 DEF Good

-----------------------------------------------------------------------------
\* The fetches of one kind change, and nothing that is stored or selected.
LEMMA OneKind ==
    ASSUME Inv, NEW k \in Kind, NEW fs \in Seq(Fetch), fetches' = [fetches EXCEPT ![k] = fs],
           k \in {"teamSchedule", "members"} => \A i \in DOMAIN fs : fs[i].team \in Teams,
           UNCHANGED <<stored, teamID, posts, acked>>,
           \A q \in Kind \ {k} : shown'[q] = shown[q] /\ stale'[q] = stale[q],
           shown' \in [Kind -> Content], stale' \in [Kind -> BOOLEAN],
           faults' \in 0 .. MaxFaults, Good(k)'
    PROVE  Inv'
<1>1. TypeOK /\ fetches \in [Kind -> Seq(Fetch)]
  BY DEF Inv, TypeOK
<1>2. \A q \in Kind : fetches'[q] = IF q = k THEN fs ELSE fetches[q]
  BY <1>1
<1>3. TypeOK'
  <2>1. fetches' \in [Kind -> Seq(Fetch)]
    BY <1>1
  <2> QED
    BY <1>1, <2>1 DEF TypeOK
<1>4. (\A s \in Slots : GoodPost(posts[s]))'
  BY DEF Inv, GoodPost, Has
<1>5. AckedStored'
  BY DEF Inv, AckedStored
<1>6. OfTeam'
  <2>1. {"teamSchedule", "members"} \subseteq Kind
    BY DEF Kind
  <2> QED
    BY <1>2, <2>1 DEF Inv, OfTeam
<1>7. ASSUME NEW q \in Kind \ {k}
      PROVE  Good(q)'
  <2>1. Steady(q)
    BY DEF Steady
  <2>2. fetches'[q] = fetches[q] /\ Good(q)
    BY <1>2 DEF Inv
  <2> QED
    BY <1>1, <2>1, <2>2, KeptGood
<1> QED
  BY <1>3, <1>4, <1>5, <1>6, <1>7 DEF Inv

LEMMA AnswerInv ==
    ASSUME Inv, NEW k \in Kind, NEW i \in DOMAIN fetches[k], Answer(k, i)
    PROVE  Inv'
<1> DEFINE g == [fetches[k][i] EXCEPT !.answered = TRUE, !.items = Read(k, fetches[k][i].team)]
           fs == [fetches[k] EXCEPT ![i] = g]
<1>1. TypeOK /\ fetches \in [Kind -> Seq(Fetch)] /\ fetches[k] \in Seq(Fetch) /\ Good(k)
  BY DEF Inv, TypeOK
<1>2. /\ ~fetches[k][i].answered /\ fetches' = [fetches EXCEPT ![k] = fs]
      /\ UNCHANGED <<stored, teamID, shown, posts, stale, acked, faults>>
  BY <1>1 DEF Answer
<1>3. fetches[k][i] \in Fetch /\ (k = "members" => fetches[k][i].team \in Teams)
  BY <1>1, FetchFacts DEF Inv, OfTeam
<1>4. Read(k, fetches[k][i].team) \subseteq Item
  BY <1>1, <1>3, ReadItems
<1>5. g \in Fetch /\ g.team = fetches[k][i].team
  BY <1>3, <1>4 DEF Fetch
<1>6. fs \in Seq(Fetch)
  BY <1>1, <1>5
<1>7. k \in {"teamSchedule", "members"} => \A j \in DOMAIN fs : fs[j].team \in Teams
  BY <1>1, <1>5 DEF Inv, OfTeam
<1>8. fetches'[k] = fs
  BY <1>1, <1>2
<1>9. Good(k)'
  BY <1>1, <1>2, <1>8, AnsweredGood
<1>10. shown' \in [Kind -> Content] /\ stale' \in [Kind -> BOOLEAN] /\ faults' \in 0 .. MaxFaults
  BY <1>1, <1>2 DEF TypeOK
<1> HIDE DEF fs
<1> QED
  BY <1>2, <1>6, <1>7, <1>9, <1>10, OneKind

\* What is left of the fetches of a kind is of teams where it was.
LEMMA LeftOver ==
    ASSUME Inv, NEW k \in Kind, NEW i \in DOMAIN fetches[k],
           fetches' = [fetches EXCEPT ![k] = Without(k, i)]
    PROVE  /\ fetches'[k] = Without(k, i) /\ Without(k, i) \in Seq(Fetch)
           /\ k \in {"teamSchedule", "members"} =>
                 \A j \in DOMAIN Without(k, i) : Without(k, i)[j].team \in Teams
<1>1. TypeOK /\ fetches'[k] = Without(k, i)
  BY DEF Inv, TypeOK
<1>2. \A j \in DOMAIN fetches[k] : fetches[k][j] \in Fetch
  BY <1>1, FetchFacts
<1>3. DOMAIN fetches[k] = 1 .. Len(fetches[k]) /\ Len(fetches[k]) \in Nat
  BY <1>1, FetchFacts
<1>4. ASSUME k \in {"teamSchedule", "members"}, NEW j \in DOMAIN fetches'[k]
      PROVE  fetches'[k][j].team \in Teams
  <2>1. j \in 1 .. Len(fetches[k]) - 1
    BY <1>1, OverFacts
  <2>2. j \in DOMAIN fetches[k] /\ j + 1 \in DOMAIN fetches[k]
    BY <1>3, <2>1
  <2>3. fetches[k][j].team \in Teams /\ fetches[k][j + 1].team \in Teams
    BY <1>4, <2>2 DEF Inv, OfTeam
  <2>4. CASE j < i
    <3>1. fetches'[k][j] = [fetches[k][j] EXCEPT !.overtaken = TRUE] /\ fetches[k][j] \in Fetch
      BY <1>1, <1>2, <2>1, <2>2, <2>4, OverFacts
    <3> QED
      BY <2>3, <3>1 DEF Fetch
  <2>5. CASE j >= i
    BY <1>1, <2>1, <2>3, <2>5, OverFacts
  <2> QED
    BY <1>3, <2>1, <2>4, <2>5
<1> QED
  BY <1>1, <1>4, OverFacts

LEMMA UseInv ==
    ASSUME Inv, NEW k \in Kind, NEW i \in DOMAIN fetches[k], Use(k, i)
    PROVE  Inv'
<1>1. PICK f \in Fetch : f = fetches[k][i]
  BY FetchFacts DEF Inv
<1> DEFINE new == [team |-> f.team, items |-> f.items]
<1>2. /\ f.answered /\ fetches' = [fetches EXCEPT ![k] = Without(k, i)]
      /\ shown' = IF k \in {"schedule", "teams"} /\ f.items = {} THEN shown
                  ELSE [shown EXCEPT ![k] = new]
      /\ stale' = [stale EXCEPT ![k] = f.overtaken]
      /\ UNCHANGED <<stored, teamID, posts, acked, faults>>
  BY <1>1 DEF Use
<1>3. TypeOK /\ Good(k) /\ shown \in [Kind -> Content] /\ stale \in [Kind -> BOOLEAN]
      /\ faults \in 0 .. MaxFaults
  BY DEF Inv, TypeOK
<1>4. new \in Content /\ f.overtaken \in BOOLEAN
  BY DEF Content, Fetch
<1>5. shown' \in [Kind -> Content] /\ stale' \in [Kind -> BOOLEAN] /\ stale'[k] = f.overtaken
  BY <1>2, <1>3, <1>4
<1>6. ASSUME i = Len(fetches[k]), i \notin Overtaken(k)
      PROVE  UpToDate(k, shown[k])'
  <2>1. Len(fetches[k]) > 0
    BY <1>3, <1>6, FetchFacts
  <2>2. UpToDate(k, ToShow(k, f))
    BY <1>1, <1>3, <1>6, <2>1 DEF Good, LatestIsGood
  <2>3. ToShow(k, f).items = f.items /\ ToShow(k, f).team = f.team
    BY <1>2 DEF ToShow
  <2>4. CASE k \in {"schedule", "teams"} /\ f.items = {}
    BY <1>2, <2>2, <2>3, <2>4 DEF UpToDate
  <2>5. CASE ~(k \in {"schedule", "teams"} /\ f.items = {})
    <3>1. shown'[k] = new
      BY <1>2, <1>3, <2>5
    <3> QED
      BY <1>2, <2>2, <2>3, <3>1 DEF UpToDate
  <2> QED
    BY <2>4, <2>5
<1>7. ~stale'[k] => i \notin Overtaken(k)
  BY <1>1, <1>5 DEF Overtaken
<1>8. Good(k)'
  BY <1>2, <1>3, <1>6, <1>7, LeftOver, OverGood
<1>9. \A q \in Kind \ {k} : shown'[q] = shown[q] /\ stale'[q] = stale[q]
  BY <1>2, <1>3
<1> QED
  BY <1>2, <1>3, <1>5, <1>8, <1>9, LeftOver, OneKind

LEMMA FailInv ==
    ASSUME Inv, NEW k \in Kind, NEW i \in DOMAIN fetches[k], Fail(k, i)
    PROVE  Inv'
<1>1. /\ faults < MaxFaults /\ faults' = faults + 1
      /\ stale' = [stale EXCEPT ![k] = @ \/ (i = Len(fetches[k]) /\ ~fetches[k][i].overtaken)]
      /\ fetches' = [fetches EXCEPT ![k] = Without(k, i)]
      /\ UNCHANGED <<stored, teamID, shown, posts, acked>>
  BY DEF Fail, Fault
<1>2. TypeOK /\ Good(k) /\ shown \in [Kind -> Content] /\ stale \in [Kind -> BOOLEAN]
  BY DEF Inv, TypeOK
<1>3. fetches[k][i] \in Fetch
  BY <1>2, FetchFacts
<1>4. stale' \in [Kind -> BOOLEAN]
      /\ (stale'[k] <=> stale[k] \/ (i = Len(fetches[k]) /\ ~fetches[k][i].overtaken))
  BY <1>1, <1>2, <1>3 DEF Fetch
<1>5. ASSUME Overtaken(k) = DOMAIN fetches[k], ~stale'[k]
      PROVE  UpToDate(k, shown[k])'
  BY <1>1, <1>2, <1>4, <1>5 DEF Good, ShownIsGood, UpToDate
<1>6. ~stale'[k] => ~(i = Len(fetches[k]) /\ i \notin Overtaken(k))
  BY <1>4 DEF Overtaken
<1>7. Good(k)'
  BY <1>1, <1>2, <1>5, <1>6, LeftOver, OverGood
<1>8. faults' \in 0 .. MaxFaults
  BY <1>1, <1>2, BoundsAreNumbers DEF TypeOK
<1>9. \A q \in Kind \ {k} : shown'[q] = shown[q] /\ stale'[q] = stale[q]
  BY <1>1, <1>2
<1> QED
  BY <1>1, <1>2, <1>4, <1>7, <1>8, <1>9, LeftOver, OneKind

-----------------------------------------------------------------------------
\* What the page asks for now will bring what may be shown.
LEMMA SentUpToDate ==
    ASSUME (AckedStored /\ teamID \in Teams \cup {NoTeam})', NEW k \in Kind, NEW team,
           k \in {"teamSchedule", "members"} => team = teamID'
    PROVE  UpToDate(k, ToShow(k, Sent(team)))'
<1>1. /\ ToShow(k, Sent(team))'.team = team
      /\ ToShow(k, Sent(team))'.items = Read(k, team)'
  BY DEF ToShow, Sent
<1>2. CASE k \in {"schedule", "teams"}
  BY <1>1, <1>2 DEF UpToDate, Read, AckedStored
<1>3. CASE k = "teamSchedule"
  BY <1>1, <1>3 DEF UpToDate
<1>4. CASE k = "members"
  BY <1>1, <1>4 DEF UpToDate, Read, AckedStored
<1> QED
  BY <1>2, <1>3, <1>4 DEF Kind

LEMMA AskFacts ==
    ASSUME TypeOK, NEW ks \in SUBSET Kind, NEW team \in Teams \cup {NoTeam}, Ask(ks, team)
    PROVE  /\ fetches' \in [Kind -> Seq(Fetch)] /\ stale' \in [Kind -> BOOLEAN]
           /\ \A k \in ks : fetches'[k] = Append(fetches[k], Sent(team))
           /\ \A k \in Kind \ ks : fetches'[k] = fetches[k] /\ stale'[k] = stale[k]
<1>1. /\ fetches' = [k \in Kind |-> IF k \in ks THEN Append(fetches[k], Sent(team)) ELSE fetches[k]]
      /\ stale' = [k \in Kind |-> stale[k] /\ k \notin ks]
  BY DEF Ask
<1>2. Sent(team) \in Fetch
  BY DEF Sent, Fetch
<1>3. \A k \in Kind : fetches[k] \in Seq(Fetch) /\ stale[k] \in BOOLEAN
  BY Types
<1>4. \A k \in Kind : Append(fetches[k], Sent(team)) \in Seq(Fetch)
  BY <1>2, <1>3
<1>5. fetches' \in [Kind -> Seq(Fetch)]
  BY <1>1, <1>3, <1>4
<1>6. \A k \in Kind : (stale[k] /\ k \notin ks) \in BOOLEAN
  OBVIOUS
<1>7. stale' \in [Kind -> BOOLEAN]
  BY <1>1, <1>6
<1>8. ASSUME NEW k \in Kind \ ks
      PROVE  stale'[k] = stale[k]
  <2>1. stale'[k] = (stale[k] /\ k \notin ks)
    BY <1>1
  <2> QED
    BY <1>3, <2>1
<1> QED
  BY <1>1, <1>5, <1>7, <1>8

LEMMA AskOfTeam ==
    ASSUME Inv, NEW ks \in SUBSET Kind, NEW team \in Teams \cup {NoTeam}, Ask(ks, team),
           team \in Teams \/ ks \subseteq {"schedule", "teams"}
    PROVE  OfTeam'
<1> SUFFICES ASSUME NEW k \in {"teamSchedule", "members"}, NEW i \in DOMAIN fetches'[k]
             PROVE  fetches'[k][i].team \in Teams
  BY DEF OfTeam
<1>1. TypeOK /\ k \in Kind /\ \A j \in DOMAIN fetches[k] : fetches[k][j].team \in Teams
  BY DEF Inv, OfTeam, Kind
<1>2. CASE k \in ks
  <2>1. team \in Teams /\ fetches'[k] = Append(fetches[k], Sent(team))
    BY <1>1, <1>2, AskFacts
  <2>2. fetches[k] \in Seq(Fetch) /\ Sent(team).team = team
    BY <1>1, Types DEF Sent
  <2> QED
    BY <1>1, <2>1, <2>2
<1>3. CASE k \notin ks
  BY <1>1, <1>3, AskFacts
<1> QED
  BY <1>2, <1>3

LEMMA SelectInv ==
    ASSUME Inv, NEW t \in Teams, Select(t)
    PROVE  Inv'
<1> DEFINE ks == {"teamSchedule", "members"}
<1>1. teamID' = t /\ Ask(ks, t) /\ UNCHANGED <<stored, shown, posts, acked, faults>>
  BY DEF Select
<1>2. TypeOK /\ ks \in SUBSET Kind
  BY DEF Inv, Kind
<1>3. /\ fetches' \in [Kind -> Seq(Fetch)] /\ stale' \in [Kind -> BOOLEAN]
      /\ \A k \in ks : fetches'[k] = Append(fetches[k], Sent(t))
      /\ \A k \in Kind \ ks : fetches'[k] = fetches[k] /\ stale'[k] = stale[k]
  BY <1>1, <1>2, AskFacts
<1>4. TypeOK'
  BY <1>1, <1>2, <1>3 DEF TypeOK
<1>5. (\A s \in Slots : GoodPost(posts[s]))'
  BY <1>1 DEF Inv, GoodPost, Has
<1>6. AckedStored'
  BY <1>1 DEF Inv, AckedStored
<1>7. OfTeam'
  BY <1>1, <1>2, AskOfTeam
<1>8. ASSUME NEW k \in ks
      PROVE  Good(k)'
  <2>1. k \in Kind /\ Good(k) /\ (teamID \in Teams \cup {NoTeam})'
    BY <1>1, <1>2 DEF Inv
  <2>2. UpToDate(k, ToShow(k, Sent(t)))'
    BY <1>1, <1>6, <2>1, SentUpToDate
  <2> QED
    BY <1>2, <1>3, <2>1, <2>2, AskedGood
<1>9. ASSUME NEW k \in Kind \ ks
      PROVE  Good(k)'
  <2>1. Good(k) /\ Steady(k)
    BY <1>1 DEF Inv, Steady
  <2> QED
    BY <1>1, <1>2, <1>3, <2>1, KeptGood
<1> QED
  BY <1>4, <1>5, <1>6, <1>7, <1>8, <1>9 DEF Inv

\* With no team selected anything may be shown as its members.
LEMMA NoMembersGood ==
    ASSUME Inv, teamID' = NoTeam, fetches'["members"] = fetches["members"]
    PROVE  Good("members")'
<1>1. OvertakenFirst("members")'
  BY DEF Inv, Kind, Good, OvertakenFirst, Overtaken
<1>2. \A c : UpToDate("members", c)'
  BY DEF UpToDate
<1>3. LatestIsGood("members")' /\ ShownIsGood("members")'
  BY <1>2 DEF LatestIsGood, ShownIsGood
<1> QED
  BY <1>1, <1>3 DEF Good

LEMMA UnselectInv ==
    ASSUME Inv, Unselect
    PROVE  Inv'
<1>1. /\ teamID' = NoTeam
      /\ shown' = [shown EXCEPT !["teamSchedule"] = Blank]
      /\ fetches' = [fetches EXCEPT !["teamSchedule"] =
                       [j \in DOMAIN fetches["teamSchedule"] |->
                          [fetches["teamSchedule"][j] EXCEPT !.overtaken = TRUE]]]
      /\ stale' = [stale EXCEPT !["teamSchedule"] = FALSE]
      /\ UNCHANGED <<stored, posts, acked, faults>>
  BY DEF Unselect
<1>2. /\ TypeOK /\ {"schedule", "teams", "teamSchedule", "members"} = Kind
      /\ shown \in [Kind -> Content] /\ stale \in [Kind -> BOOLEAN] /\ fetches \in [Kind -> Seq(Fetch)]
  BY DEF Inv, TypeOK, Kind
<1> DEFINE n == Len(fetches["teamSchedule"])
           fs == [j \in 1 .. n |-> [fetches["teamSchedule"][j] EXCEPT !.overtaken = TRUE]]
<1>3. n \in Nat /\ DOMAIN fetches["teamSchedule"] = 1 .. n
      /\ \A j \in 1 .. n : fetches["teamSchedule"][j] \in Fetch
  BY <1>2, FetchFacts
<1>4. \A j \in 1 .. n : fs[j] \in Fetch /\ fs[j].overtaken /\ fs[j].team = fetches["teamSchedule"][j].team
  BY <1>3 DEF Fetch
<1>5. fs \in Seq(Fetch) /\ DOMAIN fs = 1 .. n /\ Len(fs) = n
  <2>1. fs \in [1 .. n -> Fetch]
    BY <1>4
  <2> QED
    BY <1>3, <2>1
<1>6. fetches' = [fetches EXCEPT !["teamSchedule"] = fs]
  BY <1>1, <1>3
<1> HIDE DEF fs
<1>7. fetches' \in [Kind -> Seq(Fetch)] /\ fetches'["teamSchedule"] = fs
      /\ \A k \in Kind \ {"teamSchedule"} : fetches'[k] = fetches[k]
  BY <1>2, <1>5, <1>6
<1>8. shown' \in [Kind -> Content] /\ stale' \in [Kind -> BOOLEAN]
      /\ shown'["teamSchedule"] = Blank
      /\ \A k \in Kind \ {"teamSchedule"} : shown'[k] = shown[k] /\ stale'[k] = stale[k]
  <2>1. Blank \in Content
    BY DEF Blank, Content
  <2> QED
    BY <1>1, <1>2, <2>1
<1>9. TypeOK'
  BY <1>1, <1>2, <1>7, <1>8 DEF TypeOK
<1>10. (\A s \in Slots : GoodPost(posts[s]))'
  BY <1>1 DEF Inv, GoodPost, Has
<1>11. AckedStored'
  BY <1>1 DEF Inv, AckedStored
<1>12. OfTeam'
  BY <1>2, <1>3, <1>4, <1>5, <1>7 DEF Inv, OfTeam
<1>13. Good("teamSchedule")'
  <2>1. Overtaken("teamSchedule")' = 1 .. n
    BY <1>4, <1>5, <1>7 DEF Overtaken
  <2>2. OvertakenFirst("teamSchedule")'
    BY <1>5, <1>7, <2>1 DEF OvertakenFirst
  <2>3. LatestIsGood("teamSchedule")'
    BY <1>3, <1>5, <1>7, <2>1 DEF LatestIsGood
  <2>4. ShownIsGood("teamSchedule")'
    BY <1>1, <1>8 DEF ShownIsGood, UpToDate, Blank
  <2> QED
    BY <2>2, <2>3, <2>4 DEF Good
<1>14. Good("members")'
  BY <1>1, <1>2, <1>7, NoMembersGood
<1>15. ASSUME NEW k \in {"schedule", "teams"}
       PROVE  Good(k)'
  <2>1. k \in Kind /\ Good(k) /\ Steady(k)
    BY <1>1, <1>2 DEF Inv, Steady
  <2> QED
    BY <1>2, <1>7, <1>8, <2>1, KeptGood
<1> QED
  BY <1>2, <1>9, <1>10, <1>11, <1>12, <1>13, <1>14, <1>15 DEF Inv

-----------------------------------------------------------------------------
\* The page as it comes up.
Fresh ==
    /\ teamID = NoTeam
    /\ shown = [k \in Kind |-> Blank]
    /\ fetches = [k \in Kind |-> Mounted(k)]
    /\ stale = [k \in Kind |-> FALSE]

LEMMA MountedFacts ==
    /\ [k \in Kind |-> Mounted(k)] \in [Kind -> Seq(Fetch)]
    /\ [k \in Kind |-> Blank] \in [Kind -> Content]
    /\ \A k \in {"schedule", "teams"} : Mounted(k) = <<Sent(NoTeam)>>
    /\ \A k \in {"teamSchedule", "members"} : Mounted(k) = <<>>
<1>1. Sent(NoTeam) \in Fetch /\ Blank \in Content
  BY DEF Sent, Fetch, Blank, Content
<1> QED
  BY <1>1 DEF Mounted, Kind

LEMMA FreshIsGood == Fresh /\ AckedStored => OfTeam /\ \A k \in Kind : Good(k)
<1> SUFFICES ASSUME Fresh, AckedStored
             PROVE  OfTeam /\ \A k \in Kind : Good(k)
  OBVIOUS
<1>1. /\ Kind = {"schedule", "teams", "teamSchedule", "members"}
      /\ \A k \in {"schedule", "teams"} : fetches[k] = <<Sent(NoTeam)>>
      /\ \A k \in {"teamSchedule", "members"} : fetches[k] = <<>> /\ shown[k].team = NoTeam
      /\ teamID = NoTeam
  BY MountedFacts DEF Fresh, Kind, Blank
<1>2. OfTeam
  BY <1>1 DEF OfTeam
<1>3. ASSUME NEW k \in {"schedule", "teams"}
      PROVE  Good(k)
  <2>1. Len(fetches[k]) = 1 /\ DOMAIN fetches[k] = 1 .. 1 /\ fetches[k][1] = Sent(NoTeam)
    <3>1. PICK f : f = Sent(NoTeam)
      OBVIOUS
    <3>2. fetches[k] = <<f>>
      BY <1>1, <1>3, <3>1
    <3>3. Len(fetches[k]) = 1 /\ fetches[k][1] = f
      BY <3>2
    <3>4. DOMAIN fetches[k] = 1 .. 1
      BY <3>2
    <3> QED
      BY <3>1, <3>3, <3>4
  <2>2. Overtaken(k) = {}
    BY <2>1 DEF Overtaken, Sent
  <2>3. UpToDate(k, ToShow(k, Sent(NoTeam)))
    BY DEF UpToDate, ToShow, Sent, Read, AckedStored
  <2> QED
    BY <2>1, <2>2, <2>3 DEF Good, OvertakenFirst, LatestIsGood, ShownIsGood
<1>4. ASSUME NEW k \in {"teamSchedule", "members"}
      PROVE  Good(k)
  <2>1. Len(fetches[k]) = 0 /\ DOMAIN fetches[k] = {} /\ UpToDate(k, shown[k])
    BY <1>1, <1>4 DEF UpToDate
  <2> QED
    BY <2>1 DEF Good, OvertakenFirst, LatestIsGood, ShownIsGood
<1> QED
  BY <1>1, <1>2, <1>3, <1>4

LEMMA InitInv == Init => Inv
<1> SUFFICES ASSUME Init
             PROVE  Inv
  OBVIOUS
<1>1. /\ stored = [Nothing EXCEPT !.teams = OldTeams] /\ acked = Nothing
      /\ posts = [s \in Slots |-> Idle] /\ faults = 0 /\ Fresh
  BY DEF Init, Fresh
<1>2. TypeOK
  <2>1. stored \in Collections /\ acked \in Collections
    BY <1>1, NothingIsStored
  <2>2. fetches \in [Kind -> Seq(Fetch)] /\ shown \in [Kind -> Content] /\ stale \in [Kind -> BOOLEAN]
        /\ teamID \in Teams \cup {NoTeam}
    BY <1>1, MountedFacts DEF Fresh
  <2>3. posts \in [Slots -> Post \cup {Idle}] /\ faults \in 0 .. MaxFaults
    BY <1>1, BoundsAreNumbers
  <2> QED
    BY <2>1, <2>2, <2>3 DEF TypeOK
<1>3. \A s \in Slots : GoodPost(posts[s])
  BY <1>1 DEF GoodPost
<1>4. AckedStored
  BY <1>1 DEF AckedStored, Nothing
<1> QED
  BY <1>1, <1>2, <1>3, <1>4, FreshIsGood DEF Inv

LEMMA RemountInv ==
    ASSUME Inv, Remount
    PROVE  Inv'
<1>1. /\ Fresh' /\ UNCHANGED <<stored, acked, faults>>
      /\ posts' = [s \in Slots |-> IF posts[s].at = "sent" THEN [posts[s] EXCEPT !.mine = FALSE]
                                   ELSE Idle]
  BY DEF Remount, Fresh
<1>2. ASSUME NEW s \in Slots
      PROVE  posts'[s] \in Post \cup {Idle} /\ GoodPost(posts[s])'
  <2>1. PICK p : p = posts[s]
    OBVIOUS
  <2>2. p \in Post \cup {Idle} /\ GoodPost(p)
    BY <2>1 DEF Inv, TypeOK
  <2>3. CASE p.at = "sent"
    <3>1. posts'[s] = [p EXCEPT !.mine = FALSE] /\ p \in Post /\ p # Idle
      BY <1>1, <2>1, <2>2, <2>3, IdleIsNoPost
    <3>2. /\ posts'[s] \in Post /\ posts'[s].at = "sent" /\ posts'[s].kind = p.kind
          /\ posts'[s].team = p.team /\ posts'[s].item = p.item
      BY <2>3, <3>1 DEF Post
    <3> QED
      BY <2>2, <3>1, <3>2 DEF GoodPost
  <2>4. CASE p.at # "sent"
    BY <1>1, <2>1, <2>4 DEF GoodPost
  <2> QED
    BY <2>3, <2>4
<1>3. TypeOK'
  <2>1. posts' \in [Slots -> Post \cup {Idle}]
    BY <1>1, <1>2
  <2>2. (fetches \in [Kind -> Seq(Fetch)] /\ shown \in [Kind -> Content] /\ stale \in [Kind -> BOOLEAN]
         /\ teamID \in Teams \cup {NoTeam})'
    BY <1>1, MountedFacts DEF Fresh
  <2> QED
    BY <1>1, <2>1, <2>2 DEF TypeOK, Inv
<1>4. AckedStored'
  BY <1>1 DEF Inv, AckedStored
<1>5. (Fresh /\ AckedStored => OfTeam /\ \A k \in Kind : Good(k))'
  BY FreshIsGood, PTL
<1> QED
  BY <1>1, <1>2, <1>3, <1>4, <1>5 DEF Inv

-----------------------------------------------------------------------------
LEMMA SubmitInv ==
    ASSUME Inv, NEW s \in Slots, NEW kind \in DOMAIN ItemsOf, NEW item \in ItemsOf[kind],
           Submit(s, kind, item)
    PROVE  Inv'
<1>0. PICK p : p = [kind |-> kind, team |-> IF kind = "members" THEN teamID ELSE NoTeam,
                    item |-> item, at |-> "sent", mine |-> TRUE]
  OBVIOUS
<1>1. /\ kind = "members" => teamID # NoTeam
      /\ posts' = [posts EXCEPT ![s] = p]
      /\ UNCHANGED <<stored, teamID, shown, fetches, stale, acked, faults>>
  BY <1>0 DEF Submit, page
<1>2. TypeOK /\ teamID \in Teams \cup {NoTeam} /\ posts \in [Slots -> Post \cup {Idle}]
  BY DEF Inv, TypeOK
<1>3. kind \in {"schedule", "teams", "members"} /\ item \in Item
      /\ Fits(kind, p.team, item)
  BY <1>0, <1>1, <1>2 DEF ItemsOf, Item, Fits
<1>4. p \in Post
  BY <1>0, <1>2, <1>3 DEF Post
<1>5. GoodPost(p)'
  BY <1>0, <1>3 DEF GoodPost
<1>6. posts' \in [Slots -> Post \cup {Idle}] /\ posts'[s] = p
      /\ \A x \in Slots \ {s} : posts'[x] = posts[x]
  BY <1>1, <1>2, <1>4
<1>7. TypeOK'
  BY <1>1, <1>2, <1>6 DEF TypeOK
<1>8. (\A x \in Slots : GoodPost(posts[x]))'
  <2> SUFFICES ASSUME NEW x \in Slots
               PROVE  GoodPost(posts[x])'
    OBVIOUS
  <2>1. CASE x = s
    BY <1>5, <1>6, <2>1 DEF GoodPost, Has
  <2>2. CASE x # s
    BY <1>1, <1>6, <2>2 DEF Inv, GoodPost, Has
  <2> QED
    BY <2>1, <2>2
<1>9. AckedStored' /\ OfTeam'
  BY <1>1 DEF Inv, AckedStored, OfTeam
<1>10. ASSUME NEW k \in Kind
       PROVE  Good(k)'
  <2>1. Good(k) /\ Steady(k)
    BY <1>1 DEF Inv, Steady
  <2> QED
    BY <1>1, <1>2, <2>1, KeptGood
<1> QED
  BY <1>7, <1>8, <1>9, <1>10 DEF Inv

\* A slot becomes free, and all that may change with it.
LEMMA Freed ==
    ASSUME TypeOK, NEW s \in Slots, posts' = [posts EXCEPT ![s] = Idle]
    PROVE  /\ posts' \in [Slots -> Post \cup {Idle}] /\ posts'[s] = Idle
           /\ \A x \in Slots \ {s} : posts'[x] = posts[x]
BY DEF TypeOK

LEMMA LostInv ==
    ASSUME Inv, NEW s \in Slots, Lost(s)
    PROVE  Inv'
<1>1. /\ faults < MaxFaults /\ faults' = faults + 1 /\ posts' = [posts EXCEPT ![s] = Idle]
      /\ UNCHANGED <<stored, teamID, shown, fetches, stale, acked>>
  BY DEF Lost, Fault, page
<1>2. TypeOK
  BY DEF Inv
<1>3. TypeOK'
  BY <1>1, <1>2, Freed, BoundsAreNumbers DEF TypeOK
<1>4. (\A x \in Slots : GoodPost(posts[x]))'
  BY <1>1, <1>2, Freed DEF Inv, GoodPost, Has
<1>5. AckedStored' /\ OfTeam'
  BY <1>1 DEF Inv, AckedStored, OfTeam
<1>6. ASSUME NEW k \in Kind
      PROVE  Good(k)'
  <2>1. Good(k) /\ Steady(k)
    BY <1>1 DEF Inv, Steady
  <2> QED
    BY <1>1, <1>2, <2>1, KeptGood
<1> QED
  BY <1>3, <1>4, <1>5, <1>6 DEF Inv

LEMMA HandleInv ==
    ASSUME Inv, NEW s \in Slots, Handle(s)
    PROVE  Inv'
<1>1. PICK p : p = posts[s]
  OBVIOUS
<1>2. /\ p.at = "sent"
      /\ UNCHANGED <<teamID, shown, fetches, stale, acked, faults>>
      /\ \/ /\ stored' = With(stored, p.kind, p.team, p.item)
            /\ posts' = [posts EXCEPT ![s] = IF p.mine THEN [p EXCEPT !.at = "created"] ELSE Idle]
         \/ stored' = stored /\ posts' = [posts EXCEPT ![s] = Idle]
  BY <1>1 DEF Handle, page
<1>3. TypeOK /\ posts \in [Slots -> Post \cup {Idle}] /\ stored \in Collections
      /\ p \in Post \cup {Idle} /\ GoodPost(p) /\ \A x \in Slots : GoodPost(posts[x])
  BY <1>1 DEF Inv, TypeOK
<1>4. p \in Post /\ p # Idle /\ Fits(p.kind, p.team, p.item)
  BY <1>2, <1>3, IdleIsNoPost DEF GoodPost
<1>5. PICK q : q = IF p.mine /\ stored' = With(stored, p.kind, p.team, p.item)
                        /\ posts' = [posts EXCEPT ![s] = [p EXCEPT !.at = "created"]]
                   THEN [p EXCEPT !.at = "created"] ELSE Idle
  OBVIOUS
<1>6. posts' = [posts EXCEPT ![s] = q]
  BY <1>2, <1>5
<1>7. stored' = stored \/ stored' = With(stored, p.kind, p.team, p.item)
  BY <1>2
<1>8. stored' \in Collections
      /\ stored.schedule \subseteq stored'.schedule /\ stored.teams \subseteq stored'.teams
      /\ \A t \in Teams : stored.members[t] \subseteq stored'.members[t]
  <2>1. CASE stored' = stored
    BY <1>3, <2>1
  <2>2. CASE stored' = With(stored, p.kind, p.team, p.item)
    <3>1. stored' \in Collections /\ Stores(stored, stored', p.kind, p.team, p.item)
      BY <1>3, <1>4, <2>2, WithStores
    <3> QED
      BY <3>1 DEF Stores
  <2> QED
    BY <1>7, <2>1, <2>2
<1>9. \A k, t, i : Fits(k, t, i) /\ Has(stored, k, t, i) => Has(stored', k, t, i)
  BY <1>3, <1>4, <1>7, WithHas
<1>10. q \in Post \cup {Idle}
       /\ (q # Idle => /\ Fits(q.kind, q.team, q.item) /\ Has(stored', q.kind, q.team, q.item))
  <2>1. CASE q = Idle
    BY <2>1
  <2>2. CASE q # Idle
    <3>1. q = [p EXCEPT !.at = "created"] /\ stored' = With(stored, p.kind, p.team, p.item)
      BY <1>5, <2>2
    <3>2. q \in Post /\ q.kind = p.kind /\ q.team = p.team /\ q.item = p.item
      BY <1>4, <3>1 DEF Post
    <3>3. Has(stored', p.kind, p.team, p.item)
      BY <1>3, <1>4, <3>1, WithHas
    <3> QED
      BY <1>4, <3>2, <3>3
  <2> QED
    BY <2>1, <2>2
<1>11. posts' \in [Slots -> Post \cup {Idle}] /\ posts'[s] = q
       /\ \A x \in Slots \ {s} : posts'[x] = posts[x]
  BY <1>3, <1>6, <1>10
<1>12. TypeOK'
  BY <1>2, <1>3, <1>8, <1>11 DEF TypeOK
<1>13. ASSUME NEW x \in Slots
       PROVE  GoodPost(posts[x])'
  <2>1. CASE x = s
    BY <1>10, <1>11, <2>1 DEF GoodPost
  <2>2. CASE x # s
    <3>1. posts'[x] = posts[x] /\ GoodPost(posts[x])
      BY <1>3, <1>11, <2>2
    <3> QED
      BY <1>9, <3>1 DEF GoodPost
  <2> QED
    BY <2>1, <2>2
<1>14. AckedStored' /\ OfTeam'
  BY <1>2, <1>8 DEF Inv, AckedStored, OfTeam
<1>15. ASSUME NEW k \in Kind
       PROVE  Good(k)'
  <2>1. Good(k) /\ Steady(k)
    BY <1>2, <1>8 DEF Inv, Steady
  <2> QED
    BY <1>2, <1>3, <2>1, KeptGood
<1> QED
  BY <1>12, <1>13, <1>14, <1>15 DEF Inv

LEMMA AcknowledgedInv ==
    ASSUME Inv, NEW s \in Slots, Acknowledged(s)
    PROVE  Inv'
<1>1. PICK p : p = posts[s]
  OBVIOUS
<1>2. /\ p.at = "created" /\ acked' = With(acked, p.kind, p.team, p.item)
      /\ posts' = [posts EXCEPT ![s] = Idle]
      /\ UNCHANGED <<stored, teamID, shown, faults>>
  BY <1>1 DEF Acknowledged
<1>3. TypeOK /\ stored \in Collections /\ acked \in Collections /\ teamID \in Teams \cup {NoTeam}
      /\ p \in Post \cup {Idle} /\ GoodPost(p) /\ \A x \in Slots : GoodPost(posts[x])
  BY <1>1 DEF Inv, TypeOK
<1>4. p \in Post /\ p # Idle /\ Fits(p.kind, p.team, p.item) /\ Has(stored, p.kind, p.team, p.item)
  BY <1>2, <1>3, IdleIsNoPost DEF GoodPost
<1>5. PICK ks : ks = IF p.kind # "members" THEN {p.kind}
                     ELSE IF teamID = NoTeam THEN {} ELSE {"members"}
  OBVIOUS
<1>6. PICK team : team = IF p.kind # "members" THEN NoTeam ELSE teamID
  OBVIOUS
<1>7. ks \in SUBSET Kind /\ team \in Teams \cup {NoTeam}
      /\ (team \in Teams \/ ks \subseteq {"schedule", "teams"})
  BY <1>3, <1>4, <1>5, <1>6 DEF Fits, Kind
<1>8. Ask(ks, team)
  <2>1. CASE p.kind # "members"
    BY <1>1, <1>5, <1>6, <2>1 DEF Acknowledged
  <2>2. CASE p.kind = "members" /\ teamID = NoTeam
    BY <1>1, <1>5, <1>6, <2>2 DEF Acknowledged
  <2>3. CASE p.kind = "members" /\ teamID # NoTeam
    BY <1>1, <1>5, <1>6, <2>3 DEF Acknowledged
  <2> QED
    BY <2>1, <2>2, <2>3
<1>9. /\ fetches' \in [Kind -> Seq(Fetch)] /\ stale' \in [Kind -> BOOLEAN]
      /\ \A k \in ks : fetches'[k] = Append(fetches[k], Sent(team))
      /\ \A k \in Kind \ ks : fetches'[k] = fetches[k] /\ stale'[k] = stale[k]
  BY <1>3, <1>7, <1>8, AskFacts
<1>10. acked' \in Collections /\ Stores(acked, acked', p.kind, p.team, p.item)
  BY <1>2, <1>3, <1>4, WithStores
<1>11. TypeOK'
  BY <1>2, <1>3, <1>9, <1>10, Freed DEF TypeOK
<1>12. (\A x \in Slots : GoodPost(posts[x]))'
  BY <1>2, <1>3, Freed DEF GoodPost, Has
<1>13. AckedStored'
  <2>1. AckedStored
    BY DEF Inv
  <2>2. CASE p.kind = "members"
    <3>1. acked'.schedule = acked.schedule /\ acked'.teams = acked.teams
      BY <1>10, <2>2 DEF Stores
    <3>2. \A t \in Teams : acked'.members[t] =
             IF t = p.team THEN acked.members[t] \cup {p.item} ELSE acked.members[t]
      BY <1>10, <2>2 DEF Stores
    <3>3. p.item \in stored.members[p.team]
      BY <1>4, <2>2 DEF Has
    <3>4. \A t \in Teams : acked'.members[t] \subseteq stored.members[t]
      BY <2>1, <3>2, <3>3 DEF AckedStored
    <3> QED
      BY <1>2, <2>1, <3>1, <3>4 DEF AckedStored
  <2>3. CASE p.kind = "schedule"
    BY <1>2, <1>4, <1>10, <2>1, <2>3 DEF AckedStored, Stores, Has
  <2>4. CASE p.kind = "teams"
    BY <1>2, <1>4, <1>10, <2>1, <2>4 DEF AckedStored, Stores, Has
  <2> QED
    BY <1>4, <2>2, <2>3, <2>4 DEF Fits
<1>14. OfTeam'
  BY <1>7, <1>8, AskOfTeam
<1>15. ASSUME NEW k \in ks
       PROVE  Good(k)'
  <2>1. k \in Kind /\ Good(k) /\ (teamID \in Teams \cup {NoTeam})'
    BY <1>2, <1>3, <1>7 DEF Inv
  <2>2. k \in {"teamSchedule", "members"} => team = teamID'
    BY <1>2, <1>4, <1>5, <1>6 DEF Fits
  <2>3. UpToDate(k, ToShow(k, Sent(team)))'
    BY <1>13, <2>1, <2>2, SentUpToDate
  <2> QED
    BY <1>3, <1>9, <2>1, <2>3, AskedGood
<1>16. ASSUME NEW k \in Kind \ ks
       PROVE  Good(k)'
  <2>1. CASE k = "members" /\ teamID = NoTeam
    BY <1>2, <1>9, <2>1, NoMembersGood
  <2>2. CASE ~(k = "members" /\ teamID = NoTeam)
    <3>1. k # p.kind
      BY <1>4, <1>5, <2>2 DEF Fits
    <3>2. Good(k) /\ Steady(k)
      BY <1>2, <1>4, <1>10, <3>1 DEF Inv, Steady, Stores
    <3> QED
      BY <1>2, <1>3, <1>9, <3>2, KeptGood
  <2> QED
    BY <2>1, <2>2
<1> QED
  BY <1>11, <1>12, <1>13, <1>14, <1>15, <1>16 DEF Inv

-----------------------------------------------------------------------------
LEMMA NextInv == Inv /\ [Next]_vars => Inv'
<1> SUFFICES ASSUME Inv, [Next]_vars
             PROVE  Inv'
  OBVIOUS
<1>1. CASE \E k \in Kind : \E i \in DOMAIN fetches[k] : Answer(k, i) \/ Use(k, i) \/ Fail(k, i)
  BY <1>1, AnswerInv, UseInv, FailInv
<1>2. CASE Unselect
  BY <1>2, UnselectInv
<1>3. CASE Remount
  BY <1>3, RemountInv
<1>4. CASE \E t \in Teams : Select(t)
  BY <1>4, SelectInv
<1>5. CASE \E s \in Slots : Handle(s) \/ Acknowledged(s) \/ Lost(s)
  BY <1>5, HandleInv, AcknowledgedInv, LostInv
<1>6. CASE \E s \in Slots, kind \in DOMAIN ItemsOf : \E item \in ItemsOf[kind] : Submit(s, kind, item)
  BY <1>6, SubmitInv
<1>7. CASE UNCHANGED vars
  <2>1. UNCHANGED <<stored, teamID, shown, fetches, posts, stale, acked, faults>>
    BY <1>7 DEF vars
  <2>2. TypeOK' /\ AckedStored' /\ OfTeam' /\ (\A s \in Slots : GoodPost(posts[s]))'
    BY <2>1 DEF Inv, TypeOK, AckedStored, OfTeam, GoodPost, Has
  <2>3. ASSUME NEW k \in Kind
        PROVE  Good(k)'
    BY <2>1, KeptGood DEF Inv, Steady
  <2> QED
    BY <2>2, <2>3 DEF Inv
<1> QED
  BY <1>1, <1>2, <1>3, <1>4, <1>5, <1>6, <1>7 DEF Next

(***************************************************************************)
(* In every reachable state the last fetch of a kind that none overtook    *)
(* brings what may be shown, and what is shown once all are over may be.   *)
(***************************************************************************)
THEOREM TeamViewInvariant == Spec => []Inv
<1>1. Init => Inv
  BY InitInv
<1>2. Inv /\ [Next]_vars => Inv'
  BY NextInv
<1> QED
  BY <1>1, <1>2, PTL DEF Spec

\* Nothing is in flight and nothing stale: what is shown may be.
LEMMA SettledIsUpToDate ==
    ASSUME Inv, NEW k \in Kind, Settled(k)
    PROVE  UpToDate(k, shown[k])
<1>1. fetches[k] = <<>> /\ ~stale[k]
  BY DEF Settled
<1>2. Overtaken(k) = DOMAIN fetches[k]
  BY <1>1 DEF Overtaken
<1> QED
  BY <1>1, <1>2 DEF Inv, Good, ShownIsGood

(***************************************************************************)
(* What the page shows of a team (onTeamChange, and the answers of         *)
(* getTeamSchedule and getTeamMembers) is of the team selected, for any    *)
(* order of selections and answers, unless one answer overtook another.    *)
(***************************************************************************)
THEOREM TeamViewShownIsSelected == Spec => []ShownIsSelected
<1>1. Inv => ShownIsSelected
  <2> SUFFICES ASSUME Inv
               PROVE  ShownIsSelected
    OBVIOUS
  <2>1. Settled("teamSchedule") => UpToDate("teamSchedule", shown["teamSchedule"])
    BY SettledIsUpToDate DEF Kind
  <2>2. Settled("members") => UpToDate("members", shown["members"])
    BY SettledIsUpToDate DEF Kind
  <2> QED
    BY <2>1, <2>2 DEF ShownIsSelected, UpToDate
<1> QED
  BY <1>1, TeamViewInvariant, PTL

(***************************************************************************)
(* What the user was told is stored (the answers to postSchedule, postTeam *)
(* and postTeamMembers) is on the page once nothing is on its way.         *)
(***************************************************************************)
THEOREM TeamViewAckedShown == Spec => []AckedShown
<1>1. Inv => AckedShown
  <2> SUFFICES ASSUME Inv
               PROVE  AckedShown
    OBVIOUS
  <2>1. \A k \in {"schedule", "teams", "members"} : Settled(k) => UpToDate(k, shown[k])
    BY SettledIsUpToDate DEF Kind
  <2> QED
    BY <2>1 DEF AckedShown, UpToDate
<1> QED
  BY <1>1, TeamViewInvariant, PTL

=============================================================================
