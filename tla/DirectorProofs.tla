---------------------------- MODULE DirectorProofs ---------------------------
(***************************************************************************)
(* The safety of Director, for any finite set of requests, any sessions,   *)
(* any number of targets and any width of the counter.                     *)
(***************************************************************************)
EXTENDS Director, FiniteSetTheorems, TLAPS

(***************************************************************************)
(* The invariant: what a request is known to be at each stage, that a      *)
(* session whose end a request came after never comes back, and, of the    *)
(* requests given a target, how many each target has.                      *)
(***************************************************************************)
Typed ==
    /\ sessions \subseteq SessionIds
    /\ counter \in IntMin .. IntMax
    /\ holder \subseteq Workload
    /\ pc \in [Workload -> Stage]
    /\ target \in [Workload -> -1 .. (Targets - 1)]
    /\ xUser \in [Workload -> Headers]
    /\ late \subseteq Workload
    /\ faults \in 0 .. MaxFaults

InSection(r) == pc[r] \in {"getState", "getUser"}

OneHolder ==
    /\ \A r \in Workload : InSection(r) <=> r \in holder
    /\ \A q, r \in holder : q = r

Good(r) ==
    /\ pc[r] \in {"waiting", "lock"} => target[r] = -1
    /\ InSection(r) => r.credential = "session" /\ xUser[r] = NoUser
    /\ pc[r] = "getUser" => r \notin late
    /\ pc[r] = "forwarded" /\ xUser[r] # NoUser =>
          /\ r.credential = "session" /\ r \notin late
          /\ xUser[r] = Owner[r.session]

LateIsOver == \A r \in late : pc[r] # "waiting" /\ r.session \notin sessions

Chosen == {r \in Workload : target[r] # -1}

\* Round robin: the targets before the next one are one request ahead.
Turn == Cardinality(Chosen) % Targets

RoundRobin ==
    Cardinality(Chosen) <= IntMax + 1 =>
        /\ counter = IF Cardinality(Chosen) <= IntMax THEN Cardinality(Chosen) ELSE IntMin
        /\ \E rounds \in Nat : \A t \in 0 .. (Targets - 1) :
              Given(t) = IF t < Turn THEN rounds + 1 ELSE rounds

Inv == Typed /\ OneHolder /\ (\A r \in Workload : Good(r)) /\ LateIsOver /\ RoundRobin

-----------------------------------------------------------------------------
\* Facts about the constants and about counting.
LEMMA ConstantFacts ==
    /\ \A r \in Workload : /\ r.credential \in {"missing", "truncated", "session"}
                           /\ r.session \in SessionIds /\ r.xUser \in {NoUser, Forged}
                           /\ Owner[r.session] \in Users
    /\ Half \in Nat \ {0} /\ Targets \in Nat \ {0} /\ MaxFaults \in Nat
    /\ IntMin \in Int /\ IntMax \in Nat /\ IntMin < 0
BY WorkloadIsRequests, SessionsHaveOwners, HalfIsPositive, TargetsArePositive, FaultsAreBounded
   DEF Request, IntMin, IntMax

LEMMA Counted ==
    /\ IsFiniteSet(Chosen) /\ Cardinality(Chosen) \in Nat
    /\ \A t : Given(t) \in Nat
<1>1. \A S \in SUBSET Workload : IsFiniteSet(S) /\ Cardinality(S) \in Nat
  BY WorkloadIsRequests, FS_Subset, FS_CardinalityType
<1> QED
  BY <1>1 DEF Chosen, Given

\* A multiple of d between -d and d is 0.
LEMMA OnlyMultiple ==
    ASSUME NEW d \in Nat \ {0}, NEW k \in Int, d * k < d, -d < d * k
    PROVE  k = 0
<1>1. \A a, b \in Nat : a * b \in Nat
  OBVIOUS
<1>2. CASE k >= 1
  <2>1. d * (k - 1) >= 0
    BY <1>1, <1>2
  <2>2. d * (k - 1) = d * k - d
    OBVIOUS
  <2> QED
    BY <2>1, <2>2
<1>3. CASE k <= -1
  <2>1. d * (-k - 1) >= 0
    BY <1>1, <1>3
  <2>2. d * (-k - 1) = -(d * k) - d
    OBVIOUS
  <2> QED
    BY <2>1, <2>2
<1> QED
  BY <1>2, <1>3

LEMMA Divided ==
    ASSUME NEW n \in Nat, NEW d \in Nat \ {0}
    PROVE  /\ n % d \in 0 .. (d - 1)
           /\ n \div d \in Int
           /\ n = d * (n \div d) + (n % d)
<1>1. n % d \in 0 .. (d - 1)
  OBVIOUS
<1>2. n \div d \in Int
  OBVIOUS
<1>3. n = d * (n \div d) + (n % d)
  OBVIOUS
<1> QED
  BY <1>1, <1>2, <1>3

LEMMA RemainderUnique ==
    ASSUME NEW n \in Nat, NEW d \in Nat \ {0}, NEW q \in Int, NEW r \in 0 .. (d - 1),
           n = d * q + r
    PROVE  n % d = r
<1> DEFINE p == n \div d
           m == n % d
<1>1. p \in Int /\ m \in 0 .. (d - 1) /\ n = d * p + m
  BY Divided
<1> HIDE DEF p, m
<1>2. d * (q - p) = d * q - d * p
  BY <1>1
<1>3. d * (q - p) = m - r
  BY <1>1, <1>2
<1>4. q - p \in Int /\ d * (q - p) < d /\ -d < d * (q - p)
  BY <1>1, <1>3
<1>5. q - p = 0
  BY <1>4, OnlyMultiple
<1>6. m = r
  BY <1>1, <1>3, <1>5
<1> QED
  BY <1>6 DEF m

LEMMA NextTurn ==
    ASSUME NEW n \in Nat, NEW d \in Nat \ {0}
    PROVE  /\ n % d \in 0 .. (d - 1)
           /\ (n + 1) % d = IF n % d = d - 1 THEN 0 ELSE (n % d) + 1
<1> DEFINE q == n \div d
           r == n % d
<1>1. q \in Int /\ r \in 0 .. (d - 1) /\ n = d * q + r
  BY Divided
<1> HIDE DEF q, r
<1>2. CASE r = d - 1
  <2>1. d * (q + 1) = d * q + d
    BY <1>1
  <2>2. n + 1 = d * (q + 1) + 0
    BY <1>1, <1>2, <2>1
  <2>3. (n + 1) % d = 0
    BY <1>1, <2>2, RemainderUnique
  <2> QED
    BY <1>1, <1>2, <2>3 DEF r
<1>3. CASE r # d - 1
  <2>1. n + 1 = d * q + (r + 1) /\ r + 1 \in 0 .. (d - 1)
    BY <1>1, <1>3
  <2>2. (n + 1) % d = r + 1
    BY <1>1, <2>1, RemainderUnique
  <2> QED
    BY <1>1, <1>3, <2>2 DEF r
<1> QED
  BY <1>2, <1>3

LEMMA TargetRange ==
    ASSUME counter \in IntMin .. IntMax
    PROVE  /\ TargetOf(counter) \in -(Targets - 1) .. (Targets - 1)
           /\ counter >= 0 => TargetOf(counter) = counter % Targets
<1>1. counter \in Int /\ Targets \in Nat \ {0}
  BY ConstantFacts
<1>2. CASE counter >= 0
  BY <1>1, <1>2 DEF TargetOf, Remainder
<1>3. CASE ~(counter >= 0)
  <2>1. -counter \in Nat
    BY <1>1, <1>3
  <2>2. (-counter) % Targets \in 0 .. (Targets - 1)
    BY <1>1, <2>1
  <2>3. TargetOf(counter) = -((-counter) % Targets)
    BY <1>3 DEF TargetOf, Remainder
  <2> QED
    BY <1>1, <1>3, <2>2, <2>3
<1> QED
  BY <1>2, <1>3

-----------------------------------------------------------------------------
Same(q) == pc'[q] = pc[q] /\ target'[q] = target[q] /\ xUser'[q] = xUser[q]

\* A request goes on, and no other.
Moved(r) ==
    /\ pc' \in [Workload -> Stage]
    /\ target' \in [Workload -> -1 .. (Targets - 1)]
    /\ xUser' \in [Workload -> Headers]
    /\ \A q \in Workload \ {r} : Same(q)

\* What is true of a request stays true in the steps of others.
LEMMA GoodStable ==
    ASSUME Inv, NEW q \in Workload, Same(q), q \in late' => q \in late
    PROVE  Good(q)'
BY DEF Inv, Good, InSection, Same

LEMMA RoundRobinKept ==
    ASSUME Inv, UNCHANGED <<counter, target>>
    PROVE  RoundRobin'
BY DEF Inv, RoundRobin, Turn, Chosen, Given

LEMMA LateStable ==
    ASSUME Inv, NEW r \in Workload, Moved(r), late' = late, sessions' = sessions,
           pc'[r] # "waiting"
    PROVE  LateIsOver'
BY DEF Inv, Typed, LateIsOver, Moved, Same

LEMMA ReceiveInv ==
    ASSUME Inv, NEW r \in Workload, Receive(r)
    PROVE  Inv'
<1>1. /\ pc[r] = "waiting" /\ pc' = [pc EXCEPT ![r] = "lock"]
      /\ UNCHANGED <<sessions, counter, holder, target, xUser, faults>>
      /\ late' \in {late, late \cup {r}}
      /\ r \in late' => r \in late \/ r.session \notin sessions
  BY DEF Receive, At
<1>2. Moved(r) /\ pc'[r] = "lock"
  BY <1>1 DEF Inv, Typed, Moved, Same, Stage
<1>3. Typed'
  BY <1>1, <1>2 DEF Inv, Typed, Moved
<1>4. OneHolder'
  BY <1>1, <1>2 DEF Inv, OneHolder, InSection, Moved, Same
<1>5. Good(r)'
  BY <1>1, <1>2 DEF Inv, Good, InSection
<1>6. \A q \in Workload : Good(q)'
  BY <1>1, <1>2, <1>5, GoodStable DEF Moved
<1>7. LateIsOver'
  BY <1>1, <1>2 DEF Inv, Typed, LateIsOver, Moved, Same
<1> QED
  BY <1>1, <1>3, <1>4, <1>6, <1>7, RoundRobinKept DEF Inv

(***************************************************************************)
(* A target is given its turn: one more request, and the counter goes on.  *)
(***************************************************************************)
LEMMA ChooseKeepsTurn ==
    ASSUME Inv, NEW r \in Workload, target[r] = -1, Choose(r)
    PROVE  RoundRobin'
<1> DEFINE n == Cardinality(Chosen)
           turn == TargetOf(counter)
<1>1. /\ turn \in 0 .. (Targets - 1)
      /\ target' = [target EXCEPT ![r] = turn] /\ counter' = Incremented(counter)
  BY ConstantFacts, TargetRange DEF Choose, Inv, Typed
<1>2. target \in [Workload -> -1 .. (Targets - 1)] /\ Targets \in Nat \ {0}
  BY ConstantFacts DEF Inv, Typed
<1>3. /\ Chosen' = Chosen \cup {r} /\ r \notin Chosen
      /\ {q \in Workload : target'[q] = turn} = {q \in Workload : target[q] = turn} \cup {r}
      /\ r \notin {q \in Workload : target[q] = turn}
      /\ \A t \in 0 .. (Targets - 1) : t # turn =>
            {q \in Workload : target'[q] = t} = {q \in Workload : target[q] = t}
  BY <1>1, <1>2 DEF Chosen
<1>4. Cardinality(Chosen') = n + 1 /\ n \in Nat
  BY <1>3, Counted, FS_AddElement
<1>5. \A t \in 0 .. (Targets - 1) : Given(t)' = IF t = turn THEN Given(t) + 1 ELSE Given(t)
  <2>1. IsFiniteSet({q \in Workload : target[q] = turn})
    BY WorkloadIsRequests, FS_Subset
  <2>2. Cardinality({q \in Workload : target'[q] = turn})
        = Cardinality({q \in Workload : target[q] = turn}) + 1
    BY <1>3, <2>1, FS_AddElement
  <2> QED
    BY <1>1, <1>3, <2>2 DEF Given
<1> HIDE DEF n, turn
<1> SUFFICES ASSUME n + 1 <= IntMax + 1
             PROVE  /\ counter' = IF n + 1 <= IntMax THEN n + 1 ELSE IntMin
                    /\ \E rounds \in Nat : \A t \in 0 .. (Targets - 1) :
                          Given(t)' = IF t < (n + 1) % Targets THEN rounds + 1 ELSE rounds
  BY <1>4 DEF RoundRobin, Turn
<1>6. counter = n /\ n <= IntMax
  <2>1. n <= IntMax /\ n <= IntMax + 1
    BY <1>4, ConstantFacts
  <2> QED
    BY <2>1 DEF Inv, RoundRobin, n
<1>7. turn = n % Targets
  <2>1. counter \in IntMin .. IntMax /\ counter >= 0
    BY <1>4, <1>6 DEF Inv, Typed
  <2>2. TargetOf(counter) = counter % Targets
    BY <2>1, TargetRange
  <2> QED
    BY <1>6, <2>2 DEF turn
<1>8. PICK rounds \in Nat : \A t \in 0 .. (Targets - 1) :
          Given(t) = IF t < turn THEN rounds + 1 ELSE rounds
  <2>1. Cardinality(Chosen) <= IntMax + 1
    BY <1>4, <1>6, ConstantFacts DEF n
  <2>2. turn = Turn
    BY <1>7 DEF Turn, n
  <2>3. \E rounds \in Nat : \A t \in 0 .. (Targets - 1) :
           Given(t) = IF t < Turn THEN rounds + 1 ELSE rounds
    BY <2>1 DEF Inv, RoundRobin
  <2> QED
    BY <2>2, <2>3
<1>9. counter' = IF n + 1 <= IntMax THEN n + 1 ELSE IntMin
  BY <1>1, <1>4, <1>6, ConstantFacts DEF Incremented
<1>10. (n + 1) % Targets = IF turn = Targets - 1 THEN 0 ELSE turn + 1
  BY <1>2, <1>4, <1>7, NextTurn
<1>11. CASE turn = Targets - 1
  <2>1. \A t \in 0 .. (Targets - 1) : Given(t)' = rounds + 1
    BY <1>2, <1>5, <1>8, <1>11
  <2>2. \A t \in 0 .. (Targets - 1) : Given(t)' = IF t < 0 THEN (rounds + 1) + 1 ELSE rounds + 1
    BY <2>1
  <2> QED
    BY <1>9, <1>10, <1>11, <2>2
<1>12. CASE turn # Targets - 1
  <2>1. \A t \in 0 .. (Targets - 1) : Given(t)' = IF t < turn + 1 THEN rounds + 1 ELSE rounds
    BY <1>1, <1>2, <1>5, <1>8
  <2> QED
    BY <1>9, <1>10, <1>12, <2>1
<1> QED
  BY <1>11, <1>12

LEMMA LockInv ==
    ASSUME Inv, NEW r \in Workload, Lock(r)
    PROVE  Inv'
<1>1. /\ pc[r] = "lock" /\ holder = {} /\ UNCHANGED <<sessions, late, faults>>
      /\ target[r] = -1
  BY DEF Lock, Inv, Good
<1>2. CASE Choose(r) /\ Authorize(r)
  <2>1. counter \in IntMin .. IntMax /\ TargetOf(counter) \in 0 .. (Targets - 1)
    BY <1>2, ConstantFacts, TargetRange DEF Inv, Typed, Choose
  <2>2. Incremented(counter) \in IntMin .. IntMax
    BY <2>1, ConstantFacts DEF Incremented
  <2>3. \/ pc' = [pc EXCEPT ![r] = "forwarded"] /\ holder' = {}
        \/ pc' = [pc EXCEPT ![r] = "dropped"] /\ holder' = {}
        \/ pc' = [pc EXCEPT ![r] = "getState"] /\ holder' = {r} /\ r.credential = "session"
    BY <1>1, <1>2, ConstantFacts DEF Authorize, At
  <2>4. Moved(r) /\ xUser'[r] = NoUser
        /\ pc'[r] \in {"forwarded", "dropped", "getState"}
    BY <1>2, <2>1, <2>3 DEF Choose, DropHeader, Inv, Typed, Moved, Same, Stage, Headers
  <2>5. Typed'
    BY <1>1, <1>2, <2>2, <2>3, <2>4 DEF Choose, Inv, Typed, Moved
  <2>6. OneHolder'
    <3>1. \A q \in Workload : ~InSection(q)
      BY <1>1 DEF Inv, OneHolder
    <3> QED
      BY <2>3, <2>4, <3>1 DEF Inv, Typed, OneHolder, InSection, Moved, Same
  <2>7. Good(r)'
    BY <2>3, <2>4 DEF Inv, Typed, Good, InSection
  <2>8. \A q \in Workload : Good(q)'
    BY <1>1, <2>4, <2>7, GoodStable DEF Moved
  <2>9. LateIsOver'
    BY <1>1, <2>4, LateStable
  <2> QED
    BY <1>1, <1>2, <2>5, <2>6, <2>8, <2>9, ChooseKeepsTurn DEF Inv
<1>3. CASE IndexPanic(r)
  <2>1. pc' = [pc EXCEPT ![r] = "dropped"] /\ UNCHANGED <<counter, holder, target, xUser>>
    BY <1>3 DEF IndexPanic, At
  <2>2. Moved(r) /\ pc'[r] = "dropped"
    BY <2>1 DEF Inv, Typed, Moved, Same, Stage
  <2>3. Typed'
    BY <1>1, <2>1, <2>2 DEF Inv, Typed, Moved
  <2>4. OneHolder'
    BY <1>1, <2>1, <2>2 DEF Inv, Typed, OneHolder, InSection, Moved, Same
  <2>5. Good(r)'
    BY <2>2 DEF Good, InSection
  <2>6. \A q \in Workload : Good(q)'
    BY <1>1, <2>2, <2>5, GoodStable DEF Moved
  <2>7. LateIsOver'
    BY <1>1, <2>2, LateStable
  <2> QED
    BY <2>1, <2>3, <2>4, <2>6, <2>7, RoundRobinKept DEF Inv
<1> QED
  BY <1>2, <1>3 DEF Lock

(***************************************************************************)
(* The calls inside the section: of the session store, then of MySQL.      *)
(***************************************************************************)
LEMMA CallInv ==
    ASSUME Inv, NEW r \in Workload, InSection(r), Moved(r), late' = late, sessions' = sessions,
           UNCHANGED <<counter, target>>, faults' \in 0 .. MaxFaults, Good(r)',
           \/ pc'[r] = "getUser" /\ holder' = holder
           \/ pc'[r] \in {"forwarded", "dropped"} /\ holder' = {}
    PROVE  Inv'
<1>1. Typed'
  BY DEF Inv, Typed, Moved
<1>2. OneHolder'
  <2>1. \A q \in Workload : InSection(q) => q = r
    BY DEF Inv, OneHolder
  <2> QED
    BY <2>1 DEF Inv, OneHolder, InSection, Moved, Same
<1>3. \A q \in Workload : Good(q)'
  BY GoodStable DEF Moved
<1>4. LateIsOver'
  BY LateStable
<1> QED
  BY <1>1, <1>2, <1>3, <1>4, RoundRobinKept DEF Inv

LEMMA GetStateInv ==
    ASSUME Inv, NEW r \in Workload, GetState(r)
    PROVE  Inv'
<1>1. /\ pc[r] = "getState" /\ UNCHANGED <<sessions, counter, target, xUser, late>>
      /\ faults' \in 0 .. MaxFaults
      /\ \/ /\ r.session \in sessions /\ holder' = holder
            /\ pc' = [pc EXCEPT ![r] = "getUser"]
         \/ pc' = [pc EXCEPT ![r] = "forwarded"] /\ holder' = {}
  BY ConstantFacts DEF GetState, Works, Fails, At, Unlock, Inv, Typed
<1>2. InSection(r) /\ r.credential = "session" /\ xUser[r] = NoUser
  BY <1>1 DEF Inv, Good, InSection
<1>3. Moved(r)
  BY <1>1 DEF Inv, Typed, Moved, Same, Stage
<1>4. /\ pc'[r] \in {"getUser", "forwarded"}
      /\ pc'[r] = "getUser" => r \notin late /\ holder' = holder
      /\ pc'[r] = "forwarded" => holder' = {}
  BY <1>1 DEF Inv, Typed, LateIsOver
<1>5. Good(r)'
  BY <1>1, <1>2, <1>4 DEF Good, InSection
<1> QED
  BY <1>1, <1>2, <1>3, <1>4, <1>5, CallInv

LEMMA GetUserInv ==
    ASSUME Inv, NEW r \in Workload, GetUser(r)
    PROVE  Inv'
<1>1. /\ pc[r] = "getUser" /\ UNCHANGED <<sessions, counter, target, late>> /\ holder' = {}
      /\ faults' \in 0 .. MaxFaults
      /\ \/ /\ xUser' = [xUser EXCEPT ![r] = Owner[r.session]]
            /\ pc' = [pc EXCEPT ![r] = "forwarded"]
         \/ xUser' = xUser /\ pc' = [pc EXCEPT ![r] = "dropped"]
  BY ConstantFacts DEF GetUser, Works, Fails, At, Unlock, Inv, Typed
<1>2. InSection(r) /\ r.credential = "session" /\ r \notin late
  BY <1>1 DEF Inv, Good, InSection
<1>3. Owner[r.session] \in Headers
  BY ConstantFacts DEF Headers
<1>4. Moved(r)
  BY <1>1, <1>3 DEF Inv, Typed, Moved, Same, Stage
<1>5. \/ pc'[r] = "forwarded" /\ xUser'[r] = Owner[r.session]
      \/ pc'[r] = "dropped"
  BY <1>1 DEF Inv, Typed
<1>6. Good(r)'
  BY <1>1, <1>2, <1>5 DEF Good, InSection
<1>7. pc'[r] \in {"forwarded", "dropped"}
  BY <1>5
<1> QED
  BY <1>1, <1>2, <1>4, <1>6, <1>7, CallInv

LEMMA SessionEndsInv ==
    ASSUME Inv, NEW sid \in SessionIds, SessionEnds(sid)
    PROVE  Inv'
<1>1. /\ sessions' \subseteq sessions
      /\ UNCHANGED <<counter, holder, pc, target, xUser, late, faults>>
  BY DEF SessionEnds
<1>2. Typed' /\ OneHolder' /\ LateIsOver'
  BY <1>1 DEF Inv, Typed, OneHolder, InSection, LateIsOver
<1>3. \A q \in Workload : Good(q)'
  BY <1>1, GoodStable DEF Same
<1> QED
  BY <1>1, <1>2, <1>3, RoundRobinKept DEF Inv

-----------------------------------------------------------------------------
LEMMA InitInv == Init => Inv
<1> SUFFICES ASSUME Init PROVE Inv
  OBVIOUS
<1>1. /\ \A r \in Workload : pc[r] = "waiting" /\ target[r] = -1
      /\ pc \in [Workload -> Stage] /\ target \in [Workload -> -1 .. (Targets - 1)]
  BY ConstantFacts DEF Init, Stage
<1>2. Typed
  BY <1>1, ConstantFacts DEF Init, Typed, Headers
<1>3. OneHolder /\ LateIsOver /\ \A r \in Workload : Good(r)
  BY <1>1 DEF Init, OneHolder, InSection, LateIsOver, Good
<1>4. RoundRobin
  <2>1. Chosen = {} /\ \A t \in 0 .. (Targets - 1) : {r \in Workload : target[r] = t} = {}
    BY <1>1 DEF Chosen
  <2>2. Cardinality(Chosen) = 0 /\ \A t \in 0 .. (Targets - 1) : Given(t) = 0
    BY <2>1, FS_EmptySet DEF Given
  <2>3. Turn = 0
    BY <2>2, ConstantFacts DEF Turn
  <2>4. \A t \in 0 .. (Targets - 1) : Given(t) = IF t < Turn THEN 0 + 1 ELSE 0
    BY <2>2, <2>3
  <2>5. counter = 0 /\ 0 <= IntMax
    BY ConstantFacts DEF Init
  <2> QED
    BY <2>2, <2>4, <2>5 DEF RoundRobin
<1> QED
  BY <1>2, <1>3, <1>4 DEF Inv

LEMMA NextInv == Inv /\ [Next]_vars => Inv'
<1> SUFFICES ASSUME Inv, [Next]_vars PROVE Inv'
  OBVIOUS
<1>1. CASE UNCHANGED vars
  <2>1. UNCHANGED <<sessions, counter, holder, pc, target, xUser, late, faults>>
    BY <1>1 DEF vars
  <2>2. Typed' /\ OneHolder' /\ LateIsOver'
    BY <2>1 DEF Inv, Typed, OneHolder, InSection, LateIsOver
  <2>3. \A q \in Workload : Good(q)'
    BY <2>1, GoodStable DEF Same
  <2> QED
    BY <2>1, <2>2, <2>3, RoundRobinKept DEF Inv
<1> QED
  BY <1>1, ReceiveInv, LockInv, GetStateInv, GetUserInv, SessionEndsInv DEF Next

(***************************************************************************)
(* The invariant holds whatever requests come, whatever calls fail and     *)
(* whenever sessions end.                                                  *)
(***************************************************************************)
THEOREM DirectorInvariant == Spec => []Inv
<1>1. Init => Inv
  BY InitInv
<1>2. Inv /\ [Next]_vars => Inv'
  BY NextInv
<1> QED
  BY <1>1, <1>2, PTL DEF Spec

\* The state of the director keeps its types; one request at most is inside.
THEOREM DirectorTypes == Spec => []TypeOK
<1>1. Inv => TypeOK
  <2> SUFFICES ASSUME Inv PROVE TypeOK
    OBVIOUS
  <2>1. Cardinality(holder) <= 1
    <3>1. CASE holder = {}
      BY <3>1, FS_EmptySet
    <3>2. CASE holder # {}
      <4>1. PICK r : holder = {r}
        BY <3>2 DEF Inv, OneHolder
      <4>2. Cardinality({r}) = 1
        BY FS_Singleton, Zenon
      <4> QED
        BY <4>1, <4>2
    <3> QED
      BY <3>1, <3>2
  <2> QED
    BY <2>1 DEF Inv, Typed, OneHolder, InSection, TypeOK
<1> QED
  BY <1>1, DirectorInvariant, PTL

(***************************************************************************)
(* No header a client sent reaches a target, and no name of an owner whose *)
(* session had ended before the request came (CustomDirector).             *)
(***************************************************************************)
THEOREM DirectorForwardedAsOwner == Spec => []ForwardedAsOwner
<1>1. Inv => ForwardedAsOwner
  BY DEF Inv, Good, ForwardedAsOwner
<1> QED
  BY <1>1, DirectorInvariant, PTL

(***************************************************************************)
(* Until the counter wraps around, no target is given two requests more    *)
(* than another, whatever becomes of the requests.                         *)
(***************************************************************************)
THEOREM DirectorBalanced == Spec => []Balanced
<1>1. Inv => Balanced
  <2> SUFFICES ASSUME Inv, Cardinality(Chosen) <= IntMax + 1,
                      NEW t \in 0 .. (Targets - 1), NEW u \in 0 .. (Targets - 1)
               PROVE  Given(t) <= Given(u) + 1
    BY DEF Balanced, Chosen
  <2>1. PICK rounds \in Nat : \A k \in 0 .. (Targets - 1) :
            Given(k) = IF k < Turn THEN rounds + 1 ELSE rounds
    BY DEF Inv, RoundRobin
  <2> QED
    BY <2>1
<1> QED
  BY <1>1, DirectorInvariant, PTL

(***************************************************************************)
(* The safety half of EveryRequestForwarded: a request is dropped for a    *)
(* session id that was cut short, after a failed call, or by an index that *)
(* is negative; and once it is, it stays so, as the panic comes before the *)
(* counter is incremented.                                                 *)
(***************************************************************************)
DropsExplained ==
    \A r \in Workload : pc[r] = "dropped" =>
        r.credential = "truncated" \/ faults > 0 \/ TargetOf(counter) < 0

THEOREM DirectorDropsExplained == Spec => []DropsExplained
<1>1. Init => DropsExplained
  BY DEF Init, DropsExplained
<1>2. Inv /\ DropsExplained /\ [Next]_vars => DropsExplained'
  <2> SUFFICES ASSUME Inv, DropsExplained, [Next]_vars,
                      NEW q \in Workload, pc'[q] = "dropped"
               PROVE  q.credential = "truncated" \/ faults' > 0 \/ TargetOf(counter') < 0
    BY DEF DropsExplained, TargetOf, Remainder
  <2>1. pc \in [Workload -> Stage] /\ faults \in Nat /\ counter \in IntMin .. IntMax
    BY ConstantFacts DEF Inv, Typed
  <2>2. CASE pc[q] = "dropped" /\ counter' = counter
    <3>1. faults > 0 => faults' > 0
      <4>1. ASSUME NEW r \in Workload, Receive(r) \/ Lock(r) PROVE faults' = faults
        BY <4>1 DEF Receive, Lock
      <4>2. ASSUME NEW r \in Workload, GetState(r) \/ GetUser(r)
            PROVE  faults' \in {faults, faults + 1}
        BY <4>2 DEF GetState, GetUser, Works, Fails
      <4>3. ASSUME NEW sid \in SessionIds, SessionEnds(sid) PROVE faults' = faults
        BY <4>3 DEF SessionEnds
      <4>4. faults' \in {faults, faults + 1}
        BY <4>1, <4>2, <4>3 DEF Next, vars
      <4> QED
        BY <2>1, <4>4
    <3>2. q.credential = "truncated" \/ faults > 0 \/ TargetOf(counter) < 0
      BY <2>2 DEF DropsExplained
    <3> QED
      BY <2>2, <3>1, <3>2
  <2>3. ASSUME NEW r \in Workload, Receive(r) \/ GetState(r), pc[q] # "dropped"
        PROVE  FALSE
    BY <2>1, <2>3 DEF Receive, GetState, At
  <2>4. ASSUME NEW r \in Workload, Lock(r)
        PROVE  q.credential = "truncated" \/ faults' > 0 \/ TargetOf(counter') < 0
    <3>1. CASE Choose(r) /\ Authorize(r)
      <4>1. ~(TargetOf(counter) < 0) /\ faults' = faults
        BY <2>1, <2>4, <3>1, ConstantFacts, TargetRange DEF Lock, Choose
      <4>4. \/ pc' = [pc EXCEPT ![r] = "dropped"] /\ r.credential = "truncated"
            \/ pc' = [pc EXCEPT ![r] = "forwarded"]
            \/ pc' = [pc EXCEPT ![r] = "getState"]
        BY <3>1, ConstantFacts DEF Authorize, At
      <4>2. CASE pc[q] = "dropped"
        BY <4>1, <4>2 DEF DropsExplained
      <4>3. CASE pc[q] # "dropped"
        BY <2>1, <4>4, <4>3
      <4> QED
        BY <4>2, <4>3
    <3>2. CASE IndexPanic(r)
      BY <3>2 DEF IndexPanic
    <3> QED
      BY <2>4, <3>1, <3>2 DEF Lock
  <2>5. ASSUME NEW r \in Workload, GetUser(r), pc[q] # "dropped"
        PROVE  faults' > 0
    BY <2>1, <2>5 DEF GetUser, At, Fails
  <2>6. ASSUME NEW sid \in SessionIds, SessionEnds(sid) PROVE pc' = pc /\ counter' = counter
    BY <2>6 DEF SessionEnds
  <2>7. ASSUME NEW r \in Workload, Receive(r) \/ GetState(r) \/ GetUser(r)
        PROVE  counter' = counter
    BY <2>7 DEF Receive, GetState, GetUser
  <2>8. CASE UNCHANGED vars
    BY <2>2, <2>8 DEF vars
  <2> QED
    BY <2>2, <2>3, <2>4, <2>5, <2>6, <2>7, <2>8 DEF Next
<1> QED
  BY <1>1, <1>2, DirectorInvariant, PTL DEF Spec

=============================================================================
