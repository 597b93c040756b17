--------------------------- MODULE TimeZonesProofs ----------------------------
(***************************************************************************)
(* Hours in different zones are read as they were meant, and the windows   *)
(* are those of the prototype of weights, for any users, teams, days,      *)
(* hours and zones.                                                        *)
(***************************************************************************)
EXTENDS TimeZones, AtomicSchedulesProofs

\* A step of the page is a step of the service or, for other pages, none.
LEMMA ZonedStep ==
    ASSUME [ZonedNext]_zoned
    PROVE  [AtomicNext]_collections
<1>1. ASSUME NEW u \in Users, NEW day \in Days, NEW from \in Hours, NEW to \in Hours,
             NEW format \in {"iso", "ms"}, PostDay(u, day, from, to, format)
      PROVE  AtomicNext
  <2> DEFINE window == [day |-> day, startTime |-> ToMongoDate(u, from),
                        endTime |-> ToMongoDate(u, to)]
  <2>1. window \in DayEntry(Days, Times)
    BY InstantsAreTimes DEF DayEntry
  <2>2. PostSchedule(u, window, format)
    BY <1>1 DEF PostDay
  <2> QED
    BY <2>1, <2>2 DEF AtomicNext
<1>2. ASSUME NEW u \in Users, NEW n \in TeamNames, PostTeam(u, n) PROVE AtomicNext
  BY <1>2 DEF AtomicNext
<1>3. ASSUME NEW u \in Users, NEW added \in Users, NEW n \in TeamNames, PostMember(u, n, added)
      PROVE  AtomicNext
  BY <1>3 DEF AtomicNext
<1>4. CASE UNCHANGED zoned
  BY <1>4 DEF zoned, collections
<1> QED
  BY <1>1, <1>2, <1>3, <1>4 DEF ZonedNext

(***************************************************************************)
(* The page in front of it, the service keeps its promise (README.md:18):  *)
(* what is proved of AtomicSchedules holds of the hours of any zones.      *)
(***************************************************************************)
THEOREM ZonedIsAtomic == ZonedSpec => AtomicSpec
<1>1. ZonedInit => AtomicInit
  BY DEF ZonedInit
<1> QED
  BY <1>1, ZonedStep, PTL DEF ZonedSpec, AtomicSpec

-----------------------------------------------------------------------------
\* What a posted window was meant as.
Means(u, said, posted) ==
    /\ said.day = posted.day
    /\ said.from \in Hours /\ said.to \in Hours
    /\ posted.startTime = ToMongoDate(u, said.from)
    /\ posted.endTime = ToMongoDate(u, said.to)

(***************************************************************************)
(* Every window in the collections was meant by its user: it is the image  *)
(* of hours of that day in the zone of that user.                          *)
(***************************************************************************)
Meant ==
    \A u \in Users : \A k \in DOMAIN userSchedules[u] :
        \E said \in meant[u] : Means(u, said, userSchedules[u][k])

ZonedInv == AtomicInv /\ Meant /\ DOMAIN meant = Users

LEMMA MeantKept ==
    ASSUME ZonedInv, ZonedNext
    PROVE  Meant' /\ DOMAIN meant' = Users
<1>0. /\ \A u \in Users : userSchedules[u] \in Seq(DayEntry(Days, Times))
      /\ userSchedules \in [Users -> Seq(DayEntry(Days, Times))]
  BY DEF ZonedInv, AtomicInv, StoreTypeOK
<1>1. CASE UNCHANGED <<userSchedules, meant>>
  BY <1>1 DEF ZonedInv, Meant
<1>2. ASSUME NEW u \in Users, NEW day \in Days, NEW from \in Hours, NEW to \in Hours,
             NEW format \in {"iso", "ms"}, PostDay(u, day, from, to, format)
      PROVE  Meant' /\ DOMAIN meant' = Users
  <2> DEFINE window == [day |-> day, startTime |-> ToMongoDate(u, from),
                        endTime |-> ToMongoDate(u, to)]
             hours == [day |-> day, from |-> from, to |-> to]
  <2>1. /\ window \in DayEntry(Days, Times)
        /\ Means(u, hours, window)
    BY InstantsAreTimes DEF DayEntry, Means
  <2>2. /\ userSchedules' = [userSchedules EXCEPT ![u] = Append(@, window)]
        /\ meant' = [meant EXCEPT ![u] = @ \cup {hours}]
    BY <1>2 DEF PostDay, PostSchedule
  <2> HIDE DEF window, hours
  <2>3. DOMAIN meant' = Users
    BY <2>2 DEF ZonedInv
  <2>4. ASSUME NEW v \in Users, NEW k \in DOMAIN userSchedules'[v]
        PROVE  \E said \in meant'[v] : Means(v, said, userSchedules'[v][k])
    <3>1. CASE v = u
      <4>1. /\ userSchedules'[u] = Append(userSchedules[u], window)
            /\ meant'[u] = meant[u] \cup {hours}
        BY <1>0, <2>2 DEF ZonedInv
      <4>2. CASE k \in DOMAIN userSchedules[u]
        <5>1. userSchedules'[u][k] = userSchedules[u][k]
          BY <1>0, <2>1, <4>1, <4>2, AppendProperties, LenProperties
        <5> QED
          BY <3>1, <4>1, <4>2, <5>1 DEF ZonedInv, Meant
      <4>3. CASE k \notin DOMAIN userSchedules[u]
        <5>1. userSchedules'[u][k] = window
          BY <1>0, <2>1, <3>1, <4>1, <4>3, AppendProperties, LenProperties
        <5> QED
          BY <2>1, <3>1, <4>1, <5>1
      <4> QED
        BY <4>2, <4>3
    <3>2. CASE v # u
      BY <1>0, <2>2, <3>2 DEF ZonedInv, Meant
    <3> QED
      BY <3>1, <3>2
  <2> QED
    BY <2>3, <2>4 DEF Meant
<1> QED
  BY <1>1, <1>2 DEF ZonedNext, PostTeam, PostMember

-----------------------------------------------------------------------------
\* The arithmetic of one entry and two people: a reader v and a member m.
LEMMA HoursAreTrue ==
    ASSUME NEW v \in Users, NEW m \in Users,
           NEW now \in {Winter, Summer}, SameShift(now, v, m),
           NEW mine, NEW theirs, NEW entry,
           entry.startTime \in Int, entry.endTime \in Int,
           entry.startTime < entry.endTime,
           mine.from \in Hours, mine.to \in Hours,
           theirs.from \in Hours, theirs.to \in Hours,
           ToMongoDate(v, mine.from) <= entry.startTime,
           entry.endTime <= ToMongoDate(v, mine.to),
           ToMongoDate(m, theirs.from) <= entry.startTime,
           entry.endTime <= ToMongoDate(m, theirs.to)
    PROVE  /\ theirs.from - now[m] <= ToClientDate(v, entry.startTime) - now[v]
           /\ ToClientEnd(v, entry.endTime) - now[v] <= theirs.to - now[m]
<1> DEFINE wv == Winter[v]  wm == Winter[m]  s == entry.startTime  e == entry.endTime
           nv == now[v]  nm == now[m]
<1>1. /\ wv \in Int /\ wm \in Int /\ nv \in Int /\ nm \in Int
      /\ mine.from \in 0 .. 24 /\ mine.to \in 0 .. 24
      /\ theirs.from \in Int /\ theirs.to \in Int
  <2>1. Winter[v] \in -12 .. 14 /\ Winter[m] \in -12 .. 14
    BY ZonesAreHours
  <2>2. now[v] \in -12 .. 14 /\ now[m] \in -12 .. 14
    <3>1. now \in [Users -> -12 .. 14]
      BY ZonesAreHours
    <3> QED
      BY <3>1
  <2>3. /\ mine.from \in 0 .. 24 /\ mine.to \in 0 .. 24
        /\ theirs.from \in 0 .. 24 /\ theirs.to \in 0 .. 24
    BY HoursOfADay
  <2>4. \A z \in -12 .. 14 : z \in Int
    OBVIOUS
  <2>5. \A h \in 0 .. 24 : h \in Int
    OBVIOUS
  <2> QED
    BY <2>1, <2>2, <2>3, <2>4, <2>5
<1>2. /\ 24 + mine.from - wv <= s /\ e <= 24 + mine.to - wv
      /\ 24 + theirs.from - wm <= s /\ e <= 24 + theirs.to - wm
      /\ nv - wv = nm - wm
  BY DEF ToMongoDate, SameShift
<1>3. ToClientDate(v, s) = (s + wv) % 24 /\ ToClientDate(v, e) = (e + wv) % 24
  BY DEF ToClientDate
<1>4. ToClientEnd(v, e) = IF (e + wv) % 24 = 0 THEN 24 ELSE (e + wv) % 24
  BY DEF ToClientEnd, ToClientDate
<1> HIDE DEF wv, wm, s, e, nv, nm
<1>5. s \in Int /\ e \in Int /\ s < e
  BY DEF s, e
<1>6. s + wv \in 24 .. 47 /\ e + wv \in 25 .. 48
  BY <1>1, <1>2, <1>5
<1>7. (s + wv) % 24 = s + wv - 24
  BY <1>1, <1>5, <1>6
<1>8. (IF (e + wv) % 24 = 0 THEN 24 ELSE (e + wv) % 24) = e + wv - 24
  <2>1. CASE e + wv = 48
    <3>1. (e + wv) % 24 = 0
      BY <2>1
    <3> QED
      BY <1>1, <1>5, <2>1, <3>1
  <2>2. CASE e + wv # 48
    <3>1. (e + wv) % 24 = e + wv - 24
      BY <1>1, <1>5, <1>6, <2>2
    <3> QED
      BY <1>1, <1>5, <1>6, <2>2, <3>1
  <2> QED
    BY <2>1, <2>2
<1>9. theirs.from - nm <= s + wv - 24 - nv /\ e + wv - 24 - nv <= theirs.to - nm
  BY <1>1, <1>2, <1>5
<1>10. ToClientDate(v, s) = s + wv - 24 /\ ToClientEnd(v, e) = e + wv - 24
  BY <1>3, <1>4, <1>7, <1>8
<1>11. /\ theirs.from - nm <= ToClientDate(v, s) - nv
       /\ ToClientEnd(v, e) - nv <= theirs.to - nm
  <2>1. /\ theirs.from - nm <= (s + wv - 24) - nv
        /\ (e + wv - 24) - nv <= theirs.to - nm
    BY <1>1, <1>5, <1>9
  <2> QED
    BY <1>10, <2>1
<1> QED
  BY <1>11 DEF s, e, nv, nm

\* A window that covers an entry was meant by its user.
LEMMA CoveredIsMeant ==
    ASSUME ZonedInv, NEW u \in Users, NEW entry, Covers(userSchedules[u], entry)
    PROVE  \E said \in meant[u] :
               /\ said.day = entry.day
               /\ said.from \in Hours /\ said.to \in Hours
               /\ ToMongoDate(u, said.from) <= entry.startTime
               /\ entry.endTime <= ToMongoDate(u, said.to)
<1>1. PICK k \in DOMAIN userSchedules[u] :
          /\ userSchedules[u][k].day = entry.day
          /\ userSchedules[u][k].startTime <= entry.startTime
          /\ entry.endTime <= userSchedules[u][k].endTime
  BY DEF Covers
<1>2. PICK said \in meant[u] : Means(u, said, userSchedules[u][k])
  BY DEF ZonedInv, Meant
<1> QED
  BY <1>1, <1>2 DEF Means

LEMMA ShownIsReal == ZonedInv => CommonIsReal
<1> SUFFICES ASSUME ZonedInv, NEW n \in TeamNames, NEW entry \in Shown(teams[n]),
                    NEW v \in Members(n), NEW m \in Members(n),
                    NEW now \in {Winter, Summer}, SameShift(now, v, m)
             PROVE  TrueFor(now, v, m, entry)
  BY DEF CommonIsReal
<1>1. StoreTypeOK /\ WindowExact /\ NoFalseAvailability
  BY DEF ZonedInv, AtomicInv
<1>2. v \in Users /\ m \in Users /\ teams[n].schedule \in Seq(TeamEntry(Days, Times))
  BY <1>1, TypeFacts
<1>3. /\ entry \in TeamEntry(Days, Times)
      /\ entry.startTime < entry.endTime
  <2>1. PICK k \in DOMAIN teams[n].schedule :
            entry = teams[n].schedule[k] /\ teams[n].schedule[k].hasAvailability
    BY DEF Shown
  <2>2. Exact(entry)
    BY <1>1, <2>1 DEF WindowExact
  <2> QED
    BY <1>2, <2>1, <2>2, ElementOfSeq, LenProperties DEF Exact
<1>4. entry.startTime \in Int /\ entry.endTime \in Int
  <2>1. entry.startTime \in Times /\ entry.endTime \in Times
    BY <1>3 DEF TeamEntry
  <2>2. \A t \in Times : t \in Int
    BY TimesAreNumbers
  <2> QED
    BY <2>1, <2>2
<1>5. Covers(userSchedules[v], entry) /\ Covers(userSchedules[m], entry)
  BY <1>1 DEF NoFalseAvailability
<1>6. PICK mine \in meant[v] : /\ mine.from \in Hours /\ mine.to \in Hours
                               /\ ToMongoDate(v, mine.from) <= entry.startTime
                               /\ entry.endTime <= ToMongoDate(v, mine.to)
  BY <1>2, <1>5, CoveredIsMeant
<1>7. PICK theirs \in meant[m] : /\ theirs.day = entry.day
                                 /\ theirs.from \in Hours /\ theirs.to \in Hours
                                 /\ ToMongoDate(m, theirs.from) <= entry.startTime
                                 /\ entry.endTime <= ToMongoDate(m, theirs.to)
  BY <1>2, <1>5, CoveredIsMeant
<1>8. /\ theirs.from - now[m] <= ToClientDate(v, entry.startTime) - now[v]
      /\ ToClientEnd(v, entry.endTime) - now[v] <= theirs.to - now[m]
  BY <1>2, <1>3, <1>4, <1>6, <1>7, HoursAreTrue
<1> QED
  BY <1>7, <1>8 DEF TrueFor

(***************************************************************************)
(* What a member of a team reads on the page is true: within the hours     *)
(* shown every member said to be free, each on clocks of their own, if     *)
(* the clocks have moved alike since January (toMongoDate, toClientDate).  *)
(***************************************************************************)
THEOREM ZonedHoursReal == ZonedSpec => []CommonIsReal
<1>1. ZonedInit => ZonedInv
  BY AtomicInitInv DEF ZonedInit, AtomicInit, ZonedInv, Meant
<1>2. ZonedInv /\ [ZonedNext]_zoned => ZonedInv'
  <2> SUFFICES ASSUME ZonedInv, [ZonedNext]_zoned PROVE ZonedInv'
    OBVIOUS
  <2>1. AtomicInv'
    BY ZonedStep, AtomicNextInv DEF ZonedInv
  <2>2. Meant' /\ DOMAIN meant' = Users
    <3>1. CASE UNCHANGED zoned
      BY <3>1 DEF zoned, ZonedInv, Meant
    <3> QED
      BY <3>1, MeantKept
  <2> QED
    BY <2>1, <2>2 DEF ZonedInv
<1>3. ZonedInv => CommonIsReal
  BY ShownIsReal
<1> QED
  BY <1>1, <1>2, <1>3, PTL DEF ZonedSpec

-----------------------------------------------------------------------------
(***************************************************************************)
(* The prototype of weights, for any users and hours: adding them one      *)
(* after the other comes to counting, for each hour, those who are free.   *)
(* The fold is a function from the sets of users still to be added; that   *)
(* there is exactly one such function needs a least set where two differ.  *)
(***************************************************************************)
FreeOf(users, s, h) == {i \in s : users[i][h]}

Counted(users, hours) ==
    [s \in SUBSET (DOMAIN users) |-> [h \in hours |-> Cardinality(FreeOf(users, s, h))]]

\* f is what FoldRight computes for each set of users.
Folds(users, hours, f) ==
    f = [s \in SUBSET (DOMAIN users) |->
            IF s = {} THEN NoWeights(hours) ELSE AddUser(users[Min(s)], f[s \ {Min(s)}])]

LEMMA FoldIsFolds ==
    ASSUME NEW users, NEW hours
    PROVE  FoldRight(AddUser, users, NoWeights(hours))
              = (CHOOSE f : Folds(users, hours, f))[DOMAIN users]
BY DEF FoldRight, MapThenFoldSet, Folds

LEMMA MinIsElement ==
    ASSUME NEW s \in SUBSET Nat, s # {}
    PROVE  Min(s) \in s
<1>1. PICK x \in s : \A y \in s : ~(y < x)
  BY LeastNatural
<1>2. \A y \in s : x <= y
  BY <1>1
<1> QED
  BY <1>2 DEF Min

LEMMA CountedFolds ==
    ASSUME NEW n \in Nat, NEW hours, NEW users \in [1 .. n -> [hours -> BOOLEAN]]
    PROVE  Folds(users, hours, Counted(users, hours))
<1> DEFINE c == Counted(users, hours)
<1>1. DOMAIN users = 1 .. n /\ c = [s \in SUBSET (1 .. n) |-> [h \in hours |-> Cardinality(FreeOf(users, s, h))]]
  BY DEF Counted
<1>2. ASSUME NEW s \in SUBSET (1 .. n)
      PROVE  c[s] = IF s = {} THEN NoWeights(hours) ELSE AddUser(users[Min(s)], c[s \ {Min(s)}])
  <2>1. CASE s = {}
    <3>1. \A h \in hours : FreeOf(users, s, h) = {}
      BY <2>1 DEF FreeOf
    <3>2. \A h \in hours : Cardinality(FreeOf(users, s, h)) = 0
      BY <3>1, FS_EmptySet
    <3> QED
      BY <1>1, <2>1, <3>2 DEF NoWeights
  <2>2. CASE s # {}
    <3>1. s \in SUBSET Nat /\ IsFiniteSet(s)
      <4>1. IsFiniteSet(1 .. n)
        BY FS_Interval
      <4>2. IsFiniteSet(s)
        BY <4>1, FS_Subset
      <4>3. s \in SUBSET Nat
        OBVIOUS
      <4> QED
        BY <4>2, <4>3
    <3>2. PICK m \in s : m = Min(s)
      BY <2>2, <3>1, MinIsElement
    <3>3. s \ {m} \in SUBSET (1 .. n) /\ m \in 1 .. n
      OBVIOUS
    <3>4. ASSUME NEW h \in hours
          PROVE  Cardinality(FreeOf(users, s, h)) =
                    IF users[m][h] THEN Cardinality(FreeOf(users, s \ {m}, h)) + 1
                    ELSE Cardinality(FreeOf(users, s \ {m}, h))
      <4>1. CASE users[m][h]
        <5>1. FreeOf(users, s, h) = FreeOf(users, s \ {m}, h) \cup {m}
              /\ m \notin FreeOf(users, s \ {m}, h)
          BY <4>1 DEF FreeOf
        <5>2. IsFiniteSet(FreeOf(users, s \ {m}, h))
          BY <3>1, FS_Subset DEF FreeOf
        <5>3. Cardinality(FreeOf(users, s \ {m}, h) \cup {m}) = Cardinality(FreeOf(users, s \ {m}, h)) + 1
          BY <5>1, <5>2, FS_AddElement
        <5> QED
          BY <4>1, <5>1, <5>3
      <4>2. CASE ~users[m][h]
        <5>1. FreeOf(users, s, h) = FreeOf(users, s \ {m}, h)
          BY <4>2 DEF FreeOf
        <5> QED
          BY <4>2, <5>1
      <4> QED
        BY <4>1, <4>2
    <3>5. c[s] = [h \in hours |-> Cardinality(FreeOf(users, s, h))]
      BY <1>1
    <3>6. c[s \ {m}] = [h \in hours |-> Cardinality(FreeOf(users, s \ {m}, h))]
      BY <1>1, <3>3
    <3>7. AddUser(users[m], c[s \ {m}]) =
             [h \in hours |-> IF users[m][h] THEN Cardinality(FreeOf(users, s \ {m}, h)) + 1
                              ELSE Cardinality(FreeOf(users, s \ {m}, h))]
      <4> HIDE DEF c
      <4> QED
        BY <3>6 DEF AddUser
    <3>8. c[s] = AddUser(users[m], c[s \ {m}])
      BY <3>4, <3>5, <3>7
    <3> QED
      BY <2>2, <3>2, <3>8
  <2> QED
    BY <2>1, <2>2
<1>3. c = [s \in SUBSET (1 .. n) |-> c[s]]
  BY <1>1
<1> HIDE DEF c
<1>4. c = [s \in SUBSET (1 .. n) |->
             IF s = {} THEN NoWeights(hours) ELSE AddUser(users[Min(s)], c[s \ {Min(s)}])]
  BY <1>2, <1>3
<1> QED
  BY <1>1, <1>4 DEF Folds, c

LEMMA FoldsIsUnique ==
    ASSUME NEW n \in Nat, NEW hours, NEW users, DOMAIN users = 1 .. n,
           NEW f, NEW g, Folds(users, hours, f), Folds(users, hours, g)
    PROVE  f[1 .. n] = g[1 .. n]
<1> DEFINE D == 1 .. n
           R == StrictSubsetOrdering(D)
           T == {s \in SUBSET D : f[s] # g[s]}
<1>1. IsWellFoundedOn(R, SUBSET D)
  <2>1. IsFiniteSet(D)
    BY FS_Interval
  <2> QED
    BY <2>1, FS_StrictSubsetOrderingWellFounded, FS_FiniteSubsetsOfFinite
<1>2. \A s \in SUBSET D :
         /\ f[s] = IF s = {} THEN NoWeights(hours) ELSE AddUser(users[Min(s)], f[s \ {Min(s)}])
         /\ g[s] = IF s = {} THEN NoWeights(hours) ELSE AddUser(users[Min(s)], g[s \ {Min(s)}])
  BY DEF Folds
<1>3. ASSUME T # {}
      PROVE  FALSE
  <2>1. PICK s \in T : \A y \in T : ~(<<y, s>> \in R)
    <3>1. T \subseteq SUBSET D
      OBVIOUS
    <3> HIDE DEF D, R, T
    <3> QED
      BY <1>1, <1>3, <3>1, WFMin
  <2>2. s \in SUBSET D /\ f[s] # g[s]
    BY <2>1
  <2>3. s # {}
    BY <1>2, <2>2
  <2>4. Min(s) \in s
    BY <2>2, <2>3, MinIsElement
  <2>5. PICK r : r = s \ {Min(s)}
    OBVIOUS
  <2>6. r \in SUBSET D /\ <<r, s>> \in R
    BY <2>2, <2>4, <2>5 DEF StrictSubsetOrdering
  <2>7. f[r] = g[r]
    BY <2>1, <2>6
  <2>8. f[s] = AddUser(users[Min(s)], f[r]) /\ g[s] = AddUser(users[Min(s)], g[r])
    BY <1>2, <2>2, <2>3, <2>5
  <2> QED
    BY <2>2, <2>7, <2>8
<1> QED
  BY <1>3

(***************************************************************************)
(* A team is available at the hours at which each of its users is.         *)
(***************************************************************************)
LEMMA AvailableIsAllFree ==
    ASSUME NEW n \in Nat, NEW hours, NEW users \in [1 .. n -> [hours -> BOOLEAN]]
    PROVE  TeamSchedule(users, hours) = [h \in hours |-> \A i \in 1 .. n : users[i][h]]
<1>1. DOMAIN users = 1 .. n /\ Len(users) = n
  <2>1. users \in Seq([hours -> BOOLEAN])
    OBVIOUS
  <2> QED
    BY <2>1
<1>2. PICK w : w = FoldRight(AddUser, users, NoWeights(hours))
  OBVIOUS
<1>3. w = [h \in hours |-> Cardinality(FreeOf(users, 1 .. n, h))]
  <2>1. PICK f : f = CHOOSE g : Folds(users, hours, g)
    OBVIOUS
  <2>2. Folds(users, hours, f)
    BY <2>1, CountedFolds
  <2>3. f[1 .. n] = Counted(users, hours)[1 .. n]
    BY <1>1, <2>2, CountedFolds, FoldsIsUnique
  <2>4. w = f[1 .. n]
    BY <1>1, <1>2, <2>1, FoldIsFolds
  <2> QED
    BY <1>1, <2>3, <2>4 DEF Counted
<1>4. ASSUME NEW h \in hours
      PROVE  Cardinality(FreeOf(users, 1 .. n, h)) = n <=> \A i \in 1 .. n : users[i][h]
  <2>1. IsFiniteSet(1 .. n) /\ Cardinality(1 .. n) = n
    BY FS_Interval
  <2>2. FreeOf(users, 1 .. n, h) \subseteq 1 .. n
    BY DEF FreeOf
  <2>3. Cardinality(FreeOf(users, 1 .. n, h)) = n <=> FreeOf(users, 1 .. n, h) = 1 .. n
    BY <2>1, <2>2, FS_Subset
  <2> QED
    BY <2>3 DEF FreeOf
<1>5. TeamSchedule(users, hours) = [h \in DOMAIN w |-> w[h] = n]
  BY <1>1, <1>2 DEF TeamSchedule, WeightsToSchedule
<1>6. \A h \in hours : (w[h] = n) = (\A i \in 1 .. n : users[i][h])
  BY <1>3, <1>4
<1> QED
  BY <1>3, <1>5, <1>6

\* The hours all members share are those at which the weights count them all.
LEMMA CommonIsWeights == AtomicInv /\ ShownIsCommon => WindowsAreWeights
<1> SUFFICES ASSUME AtomicInv, ShownIsCommon, NEW n \in TeamNames, NEW entry \in Shown(teams[n])
             PROVE  LET users == [i \in DOMAIN teams[n].members |-> FreeAt(teams[n].members[i], entry.day)]
                    IN  TeamSchedule(users, Times) =
                           [t \in Times |-> entry.startTime <= t /\ t < entry.endTime]
  BY DEF WindowsAreWeights
<1> DEFINE users == [i \in DOMAIN teams[n].members |-> FreeAt(teams[n].members[i], entry.day)]
           k == Len(teams[n].members)
<1>1. teams[n].members \in Seq(Users) /\ k \in Nat /\ DOMAIN teams[n].members = 1 .. k
  BY TypeFacts DEF AtomicInv
<1>2. \A u : FreeAt(u, entry.day) \in [Times -> BOOLEAN]
  BY DEF FreeAt
<1>3. users \in [1 .. k -> [Times -> BOOLEAN]]
  BY <1>1, <1>2
<1>4. TeamSchedule(users, Times) = [t \in Times |-> \A i \in 1 .. k : users[i][t]]
  <2> HIDE DEF users, k
  <2> QED
    BY <1>1, <1>3, AvailableIsAllFree
<1>5. ASSUME NEW t \in Times
      PROVE  (\A i \in 1 .. k : users[i][t]) <=> (entry.startTime <= t /\ t < entry.endTime)
  <2>1. t \in Nat
    BY TimesAreNumbers
  <2>2. \A i \in 1 .. k : users[i][t] <=> Free(userSchedules[teams[n].members[i]], entry.day, t)
    <3> SUFFICES ASSUME NEW i \in 1 .. k
                 PROVE  users[i][t] <=> Free(userSchedules[teams[n].members[i]], entry.day, t)
      OBVIOUS
    <3>1. users[i] = FreeAt(teams[n].members[i], entry.day)
      BY <1>1
    <3> HIDE DEF users
    <3> QED
      BY <3>1 DEF FreeAt, Free, Within
  <2>3. Within(entry, t) <=> \A m \in Members(n) : Free(userSchedules[m], entry.day, t)
    BY <2>1 DEF ShownIsCommon
  <2>4. Members(n) = {teams[n].members[i] : i \in 1 .. k}
    BY <1>1 DEF Members, ToSet
  <2> QED
    BY <2>2, <2>3, <2>4 DEF Within
<1> HIDE DEF users
<1>6. [t \in Times |-> \A i \in 1 .. k : users[i][t]]
        = [t \in Times |-> entry.startTime <= t /\ t < entry.endTime]
  BY <1>5
<1> QED
  BY <1>4, <1>6 DEF users

(***************************************************************************)
(* What the handlers narrow is what the prototype counts (weights.js): the *)
(* windows shown to a team are the hours at which the weights are the      *)
(* number of its members, for any users, times and order of posts.         *)
(***************************************************************************)
THEOREM ZonedWindowsAreWeights == ZonedSpec => []WindowsAreWeights
<1>1. AtomicSpec => []AtomicInv
  BY AtomicInitInv, AtomicNextInv, PTL DEF AtomicSpec
<1> QED
  BY <1>1, ZonedIsAtomic, AtomicShownIsCommon, CommonIsWeights, PTL

=============================================================================
