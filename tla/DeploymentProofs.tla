--------------------------- MODULE DeploymentProofs ---------------------------
(***************************************************************************)
(* Whose a document is, for any people, teams and days, any ids and any    *)
(* number of deployments of any kind.                                      *)
(***************************************************************************)
EXTENDS Deployment, TLAPS

\* An id is one account's, and the documents of one id are one.
IdsGiven == \A p, q \in Signed : id[p] = id[q] => p = q

OneEach == \A d, e \in documents : d.userID = e.userID => d = e

\* What holds whoever the accounts are: the documents of members are kept.
DocumentsStand ==
    /\ \A n \in TeamNames : \A m \in teams[n].members : ByID(m.id) # {}
    /\ \A n \in TeamNames : joined[n] = {m.email : m \in teams[n].members}

(***************************************************************************)
(* Until accounts are lost that documents name, everyone named has an      *)
(* account, and by the id it has; and documents hold what was posted.      *)
(***************************************************************************)
Shows(p, x) == \E d \in documents : d.userEmail = p /\ x \in d.schedule

Named(i, p) == p \in Signed /\ id[p] = i

NamesHold ==
    ~orphaned =>
        /\ \A d \in documents : Named(d.userID, d.userEmail)
        /\ \A n \in TeamNames : \A m \in teams[n].members : Named(m.id, m.email)
        /\ \A p \in People : \A x : x \in Posted(p) <=> Shows(p, x)

Inv == TypeOK /\ IdsGiven /\ OneEach /\ DocumentsStand /\ NothingPostedLost /\ NamesHold

-----------------------------------------------------------------------------
LEMMA Collections ==
    ASSUME TypeOK
    PROVE  /\ \A d \in documents : d.userID \in Ids /\ d.userEmail \in People /\ d.schedule \subseteq Days
           /\ \A n \in TeamNames : /\ teams[n] \in Team /\ joined[n] \in SUBSET People
                                   /\ \A m \in teams[n].members : m.id \in Ids /\ m.email \in People
           /\ \A a \in posted : a.who \in People /\ a.id \in Ids /\ a.day \in Days
BY DEF TypeOK, Document, Team, Member, Posting

\* An account has an id that may be given.
LEMMA SignedIds ==
    ASSUME TypeOK, NEW p \in Signed
    PROVE  p \in People /\ id[p] \in Ids
BY DEF TypeOK, Signed

\* Without documents nobody is a member or has posted.
LEMMA NothingThere ==
    ASSUME Inv, documents = {}
    PROVE  /\ \A n \in TeamNames : teams[n].members = {} /\ joined[n] = {}
           /\ posted = {}
<1>1. \A n \in TeamNames : teams[n].members = {}
  BY DEF Inv, DocumentsStand, ByID
<1>2. \A n \in TeamNames : joined[n] = {}
  BY <1>1 DEF Inv, DocumentsStand
<1>3. posted = {}
  BY DEF Inv, NothingPostedLost
<1> QED
  BY <1>1, <1>2, <1>3

-----------------------------------------------------------------------------
LEMMA InitInv == Init => Inv
<1> SUFFICES ASSUME Init PROVE Inv
  OBVIOUS
<1>1. /\ id = [p \in People |-> 0] /\ documents = {} /\ indexed = TRUE
      /\ orphaned = FALSE /\ deploys = 0 /\ posted = {}
      /\ teams = [n \in TeamNames |-> NoTeam] /\ joined = [n \in TeamNames |-> {}]
  BY DEF Init, NoAccounts, NoTeams, NoAccount
<1>2. Signed = {}
  BY <1>1 DEF Signed, NoAccount
<1>3. \A n \in TeamNames : teams[n].members = {} /\ joined[n] = {}
  BY <1>1 DEF NoTeam
<1>4. TypeOK
  <2>1. NoTeam \in Team
    BY DEF NoTeam, Team
  <2>2. id \in [People -> {NoAccount} \cup Ids] /\ deploys \in 0 .. MaxDeploys
    BY <1>1, BoundsAreNumbers DEF NoAccount
  <2> QED
    BY <1>1, <2>1, <2>2 DEF TypeOK
<1>5. DocumentsStand
  BY <1>3 DEF DocumentsStand
<1>6. NamesHold
  BY <1>1, <1>3 DEF NamesHold, Posted, Shows
<1> QED
  BY <1>1, <1>2, <1>4, <1>5, <1>6 DEF Inv, IdsGiven, OneEach, NothingPostedLost

(***************************************************************************)
(* What stays of an account's names while the accounts stay.               *)
(***************************************************************************)
LEMMA IdsStay ==
    ASSUME id' = id
    PROVE  /\ Signed' = Signed /\ (IdsGiven => IdsGiven')
           /\ \A i, p : Named(i, p)' <=> Named(i, p)
BY DEF Signed, IdsGiven, Named

LEMMA SignUpInv ==
    ASSUME Inv, NEW p \in People, SignUp(p)
    PROVE  Inv'
<1>1. p \notin Signed /\ UNCHANGED <<documents, indexed, teams, posted, joined, orphaned, deploys>>
  BY DEF SignUp, mongo
<1>2. PICK i \in Ids : /\ \A q \in Signed : i > id[q]
                       /\ id' = [id EXCEPT ![p] = i]
  BY DEF SignUp
<1>3. id \in [People -> {0} \cup Ids] /\ TypeOK /\ i # 0 /\ i \in Nat
  BY BoundsAreNumbers DEF Inv, TypeOK, NoAccount, Ids
<1>4. \A q \in People : id'[q] = IF q = p THEN i ELSE id[q]
  BY <1>2, <1>3
<1>5. Signed' = Signed \cup {p}
  BY <1>3, <1>4 DEF Signed, NoAccount
<1>6. \A q \in Signed : q \in People /\ id'[q] = id[q] /\ id[q] # i
  <2>1. \A q \in Signed : q \in People /\ id[q] \in Nat
    BY <1>3, BoundsAreNumbers DEF Signed, Ids
  <2> QED
    BY <1>1, <1>2, <1>3, <1>4, <2>1
<1>7. TypeOK'
  BY <1>1, <1>2, <1>3 DEF TypeOK, NoAccount
<1>8. IdsGiven'
  BY <1>4, <1>5, <1>6 DEF Inv, IdsGiven
<1>9. \A k, q : Named(k, q) => Named(k, q)'
  BY <1>5, <1>6 DEF Named
<1>10. OneEach' /\ DocumentsStand' /\ NothingPostedLost'
  BY <1>1 DEF Inv, OneEach, DocumentsStand, NothingPostedLost, ByID
<1>11. NamesHold'
  BY <1>1, <1>9 DEF Inv, NamesHold, Posted, Shows
<1> QED
  BY <1>7, <1>8, <1>10, <1>11 DEF Inv

-----------------------------------------------------------------------------

(***************************************************************************)
(* A day is put into a document with the poster's id: a new one, or one    *)
(* that keeps its names and its days.                                      *)
(***************************************************************************)
Written(p, day, old, new) ==
    /\ old.userID = id[p] /\ new.userID = id[p] /\ new.userEmail = old.userEmail
    /\ new.schedule = old.schedule \cup {day}
    /\ documents' = (documents \ {old}) \cup {new}
    /\ \/ old \in documents /\ day \notin old.schedule
       \/ ByID(id[p]) = {} /\ old.userEmail = p /\ old.schedule = {}

LEMMA DayWritten ==
    ASSUME TypeOK, NEW p \in People, NEW day \in Days, PostDay(p, day)
    PROVE  \E old, new \in Document : Written(p, day, old, new)
<1>1. p \in Signed /\ id[p] \in Ids
  BY SignedIds DEF PostDay
<1> DEFINE Doc(schedule) == [userID |-> id[p], userEmail |-> p, schedule |-> schedule]
<1>2. CASE ByID(id[p]) = {} /\ documents' = documents \cup {Doc({day})}
  <2>1. Doc({}) \notin documents
    BY <1>2 DEF ByID
  <2>2. Doc({}) \in Document /\ Doc({day}) \in Document
    BY <1>1 DEF Document
  <2>3. documents' = (documents \ {Doc({})}) \cup {Doc({day})}
    BY <1>2, <2>1
  <2>4. Written(p, day, Doc({}), Doc({day}))
    BY <1>2, <2>3 DEF Written
  <2> QED
    BY <2>2, <2>4
<1>3. ASSUME NEW d \in ByID(id[p]), day \notin d.schedule,
             documents' = (documents \ {d}) \cup {[d EXCEPT !.schedule = @ \cup {day}]}
      PROVE  \E old, new \in Document : Written(p, day, old, new)
  <2> DEFINE new == [d EXCEPT !.schedule = @ \cup {day}]
  <2>1. d \in documents /\ d.userID = id[p] /\ d \in Document
    BY DEF ByID, TypeOK
  <2>2. /\ new \in Document /\ new.userID = d.userID /\ new.userEmail = d.userEmail
        /\ new.schedule = d.schedule \cup {day}
    BY <2>1 DEF Document
  <2>3. Written(p, day, d, new)
    BY <1>3, <2>1, <2>2 DEF Written
  <2> QED
    BY <2>1, <2>2, <2>3
<1> QED
  BY <1>2, <1>3 DEF PostDay

LEMMA PostDayInv ==
    ASSUME Inv, NEW p \in People, NEW day \in Days, PostDay(p, day)
    PROVE  Inv'
<1> DEFINE new_posting == [who |-> p, id |-> id[p], day |-> day]
<1>1. /\ p \in Signed /\ posted' = posted \cup {new_posting}
      /\ UNCHANGED <<id, indexed, teams, joined, orphaned, deploys>>
  BY DEF PostDay, Acknowledged
<1>2. TypeOK /\ id[p] \in Ids
  BY <1>1, SignedIds DEF Inv
<1>3. PICK old \in Document, new \in Document : Written(p, day, old, new)
  BY <1>2, DayWritten
<1>4. /\ new.userID = old.userID /\ new.userEmail = old.userEmail /\ new.userID = id[p]
      /\ new.schedule = old.schedule \cup {day} /\ new \in documents'
      /\ \A d \in documents' : d = new \/ (d \in documents /\ d # old)
      /\ \A d \in documents : d = old \/ d \in documents'
  BY <1>3 DEF Written
<1>5. TypeOK'
  <2>1. documents' \subseteq Document
    BY <1>2, <1>4 DEF TypeOK
  <2>2. new_posting \in Posting
    BY <1>2 DEF Posting
  <2>3. posted' \subseteq Posting
    BY <1>1, <1>2, <2>2 DEF TypeOK
  <2> QED
    BY <1>1, <1>2, <2>1, <2>3 DEF TypeOK
\* No other document has the id, and the one that has it does not have the day.
<1>6. /\ \A d \in documents : d.userID = id[p] => d = old
      /\ \A d \in documents : d.userID = id[p] => day \notin d.schedule
  <2>1. CASE old \in documents /\ day \notin old.schedule
    BY <1>4, <2>1 DEF Inv, OneEach
  <2>2. CASE ByID(id[p]) = {}
    BY <2>2 DEF ByID
  <2> QED
    BY <1>3, <2>1, <2>2 DEF Written
<1>7. OneEach'
  BY <1>4, <1>6 DEF Inv, OneEach
<1>8. DocumentsStand'
  <2>1. \A i : ByID(i) # {} => ByID(i)' # {}
    BY <1>4 DEF ByID
  <2> QED
    BY <1>1, <2>1 DEF Inv, DocumentsStand
<1>9. NothingPostedLost'
  <2>1. \A a \in posted : \E d \in documents : d.userID = a.id /\ a.day \in d.schedule
    BY DEF Inv, NothingPostedLost
  <2>2. \A d \in documents : \E e \in documents' : e.userID = d.userID /\ d.schedule \subseteq e.schedule
    BY <1>4
  <2>3. \A a \in posted' : \E d \in documents' : d.userID = a.id /\ a.day \in d.schedule
    <3>1. \A a \in posted : \E d \in documents' : d.userID = a.id /\ a.day \in d.schedule
      BY <2>1, <2>2
    <3>2. new_posting.id = new.userID /\ new_posting.day \in new.schedule
      BY <1>4
    <3> QED
      BY <1>1, <1>4, <3>1, <3>2
  <2>4. \A a \in posted : ~(a.id = id[p] /\ a.day = day)
    BY <1>6, <2>1
  <2>5. \A a, b \in posted' : a.id = b.id /\ a.day = b.day => a.who = b.who
    BY <1>1, <2>4 DEF Inv, NothingPostedLost
  <2> QED
    BY <2>3, <2>5 DEF NothingPostedLost
<1>10. IdsGiven' /\ \A i, q : Named(i, q)' <=> Named(i, q)
  BY <1>1, IdsStay DEF Inv
<1>11. NamesHold'
  <2> SUFFICES ASSUME ~orphaned
               PROVE  NamesHold'
    BY <1>1 DEF NamesHold
  <2>1. /\ \A d \in documents : Named(d.userID, d.userEmail)
        /\ \A q \in People : \A x : x \in Posted(q) <=> Shows(q, x)
    BY DEF Inv, NamesHold
  <2>2. Named(new.userID, new.userEmail) /\ new.userEmail = p
    <3>1. CASE old \in documents
      BY <1>1, <1>4, <2>1, <3>1 DEF Inv, IdsGiven, Named
    <3>2. CASE old.userEmail = p
      BY <1>1, <1>4, <3>2 DEF Named
    <3> QED
      BY <1>3, <3>1, <3>2 DEF Written
  <2>3. \A d \in documents' : Named(d.userID, d.userEmail)'
    BY <1>4, <1>10, <2>1, <2>2
  <2>4. \A n \in TeamNames : \A m \in teams'[n].members : Named(m.id, m.email)'
    BY <1>1, <1>10 DEF Inv, NamesHold
  <2>5. ASSUME NEW q \in People, NEW x
        PROVE  Shows(q, x)' <=> Shows(q, x) \/ (q = p /\ x = day)
    <3>1. x \in old.schedule => old \in documents
      BY <1>3 DEF Written
    <3> QED
      BY <1>4, <2>2, <3>1 DEF Shows
  <2>6. ASSUME NEW q \in People, NEW x
        PROVE  x \in Posted(q)' <=> x \in Posted(q) \/ (q = p /\ x = day)
    <3>1. x \in Posted(q) <=> \E a \in posted : a.who = q /\ a.day = x
      BY DEF Posted
    <3>2. x \in Posted(q)' <=> \E a \in posted' : a.who = q /\ a.day = x
      BY DEF Posted
    <3>3. new_posting.who = p /\ new_posting.day = day
      OBVIOUS
    <3> QED
      BY <1>1, <3>1, <3>2, <3>3
  <2> QED
    BY <2>1, <2>3, <2>4, <2>5, <2>6 DEF NamesHold
<1> QED
  BY <1>5, <1>7, <1>8, <1>9, <1>10, <1>11 DEF Inv

-----------------------------------------------------------------------------
(***************************************************************************)
(* A member m is put into team n: by an id there is a document of, and     *)
(* under the name of who has that id.                                      *)
(***************************************************************************)
LEMMA MemberPut ==
    ASSUME Inv, NEW n \in TeamNames, NEW m \in Member,
           ByID(m.id) # {}, ~orphaned => Named(m.id, m.email),
           teams' \in [TeamNames -> Team],
           teams'[n].members = teams[n].members \cup {m},
           \A k \in TeamNames \ {n} : teams'[k] = teams[k],
           joined' = [joined EXCEPT ![n] = @ \cup {m.email}],
           UNCHANGED <<id, documents, indexed, posted, orphaned, deploys>>
    PROVE  Inv'
<1>1. joined \in [TeamNames -> SUBSET People] /\ m.email \in People
  BY DEF Inv, TypeOK, Member
<1>2. \A k \in TeamNames :
         joined'[k] = IF k = n THEN joined[k] \cup {m.email} ELSE joined[k]
  BY <1>1
<1>3. TypeOK'
  <2>1. joined' \in [TeamNames -> SUBSET People]
    BY <1>1
  <2> QED
    BY <2>1 DEF Inv, TypeOK
<1>4. IdsGiven' /\ \A i, q : Named(i, q)' <=> Named(i, q)
  BY IdsStay DEF Inv
<1>5. \A k \in TeamNames : \A l \in teams'[k].members : l = m \/ l \in teams[k].members
  OBVIOUS
<1>6. \A i : ByID(i)' = ByID(i)
  BY DEF ByID
<1>7. DocumentsStand'
  <2>1. \A k \in TeamNames : \A l \in teams'[k].members : ByID(l.id)' # {}
    BY <1>5, <1>6 DEF Inv, DocumentsStand
  <2>2. \A k \in TeamNames : joined[k] = {l.email : l \in teams[k].members}
    BY DEF Inv, DocumentsStand
  <2>3. joined'[n] = {l.email : l \in teams'[n].members}
    BY <1>2, <2>2
  <2>4. \A k \in TeamNames \ {n} : joined'[k] = {l.email : l \in teams'[k].members}
    BY <1>2, <2>2
  <2> QED
    BY <2>1, <2>3, <2>4 DEF DocumentsStand
<1>8. OneEach' /\ NothingPostedLost'
  BY DEF Inv, OneEach, NothingPostedLost
<1>9. NamesHold'
  <2> SUFFICES ASSUME ~orphaned
               PROVE  NamesHold'
    BY DEF NamesHold
  <2>1. \A d \in documents' : Named(d.userID, d.userEmail)'
    BY <1>4 DEF Inv, NamesHold
  <2>2. \A k \in TeamNames : \A l \in teams'[k].members : Named(l.id, l.email)'
    BY <1>4, <1>5 DEF Inv, NamesHold
  <2>3. \A q \in People : \A x : x \in Posted(q)' <=> Shows(q, x)'
    BY DEF Inv, NamesHold, Posted, Shows
  <2> QED
    BY <2>1, <2>2, <2>3 DEF NamesHold
<1> QED
  BY <1>3, <1>4, <1>7, <1>8, <1>9 DEF Inv

LEMMA PostTeamInv ==
    ASSUME Inv, NEW p \in People, NEW n \in TeamNames, PostTeam(p, n)
    PROVE  Inv'
<1> DEFINE m == [id |-> id[p], email |-> p]
<1>1. /\ p \in Signed /\ teams[n] = NoTeam /\ ByID(id[p]) # {}
      /\ teams' = [teams EXCEPT ![n] = [creator |-> id[p], members |-> {m}]]
      /\ joined' = [joined EXCEPT ![n] = {p}]
      /\ UNCHANGED <<id, documents, indexed, posted, orphaned, deploys>>
  BY DEF PostTeam
<1>2. /\ id[p] \in Ids /\ teams \in [TeamNames -> Team]
      /\ joined \in [TeamNames -> SUBSET People]
  BY <1>1, SignedIds DEF Inv, TypeOK
<1>3. m \in Member /\ m.id = id[p] /\ m.email = p
  BY <1>2 DEF Member
<1>4. teams[n].members = {} /\ joined[n] = {}
  <2>1. teams[n].members = {}
    BY <1>1 DEF NoTeam
  <2> QED
    BY <2>1 DEF Inv, DocumentsStand
<1>5. teams' \in [TeamNames -> Team]
  <2>1. [creator |-> id[p], members |-> {m}] \in Team
    BY <1>2, <1>3 DEF Team
  <2> QED
    BY <1>1, <1>2, <2>1
<1>6. /\ teams'[n].members = teams[n].members \cup {m}
      /\ \A k \in TeamNames \ {n} : teams'[k] = teams[k]
  BY <1>1, <1>2, <1>4
<1>7. joined' = [joined EXCEPT ![n] = @ \cup {m.email}]
  BY <1>1, <1>2, <1>3, <1>4
<1>8. Named(m.id, m.email)
  BY <1>1, <1>3 DEF Named
<1> QED
  BY <1>1, <1>3, <1>5, <1>6, <1>7, <1>8, MemberPut

LEMMA PostMemberInv ==
    ASSUME Inv, NEW p \in People, NEW n \in TeamNames, NEW added \in People,
           PostMember(p, n, added)
    PROVE  Inv'
<1>1. PICK d \in ByEmail(added) :
         teams' = [teams EXCEPT ![n].members = @ \cup {[id |-> d.userID, email |-> added]}]
  BY DEF PostMember
<1>2. /\ joined' = [joined EXCEPT ![n] = @ \cup {added}]
      /\ UNCHANGED <<id, documents, indexed, posted, orphaned, deploys>>
  BY DEF PostMember
<1> DEFINE m == [id |-> d.userID, email |-> added]
<1>3. d \in documents /\ d.userEmail = added /\ d.userID \in Ids
  BY Collections DEF ByEmail, Inv
<1>4. m \in Member /\ m.id = d.userID /\ m.email = added
  BY <1>3 DEF Member
<1>5. teams \in [TeamNames -> Team]
  BY DEF Inv, TypeOK
<1>6. [teams[n] EXCEPT !.members = @ \cup {m}] \in Team
  BY <1>4, <1>5 DEF Team
<1>7. /\ teams' \in [TeamNames -> Team]
      /\ teams'[n].members = teams[n].members \cup {m}
      /\ \A k \in TeamNames \ {n} : teams'[k] = teams[k]
  BY <1>1, <1>5, <1>6 DEF Team
<1>8. ByID(m.id) # {}
  BY <1>3, <1>4 DEF ByID
<1>9. ~orphaned => Named(m.id, m.email)
  BY <1>3, <1>4 DEF Inv, NamesHold
<1> QED
  BY <1>2, <1>4, <1>7, <1>8, <1>9, MemberPut

-----------------------------------------------------------------------------
\* Ids begin at 1 again; names hold if nobody is named.
LEMMA DeployGatewayInv ==
    ASSUME Inv, DeployGateway
    PROVE  Inv'
<1>1. /\ id' = [p \in People |-> 0] /\ orphaned' = (documents # {})
      /\ deploys < MaxDeploys /\ deploys' = deploys + 1
      /\ UNCHANGED <<documents, indexed, teams, posted, joined>>
  BY DEF DeployGateway, Deploy, NoAccounts, NoAccount, mongo
<1>2. Signed' = {}
  BY <1>1 DEF Signed, NoAccount
<1>3. TypeOK'
  BY <1>1, BoundsAreNumbers DEF Inv, TypeOK, NoAccount
<1>4. IdsGiven'
  BY <1>2 DEF IdsGiven
<1>5. OneEach' /\ DocumentsStand' /\ NothingPostedLost'
  BY <1>1 DEF Inv, OneEach, DocumentsStand, NothingPostedLost, ByID
<1>6. NamesHold'
  <2> SUFFICES ASSUME documents = {}
               PROVE  NamesHold'
    BY <1>1 DEF NamesHold
  <2> QED
    BY <1>1, NothingThere DEF NamesHold, Posted, Shows
<1> QED
  BY <1>3, <1>4, <1>5, <1>6 DEF Inv

LEMMA DeployMongoInv ==
    ASSUME Inv, DeployMongo
    PROVE  Inv'
<1>1. /\ documents' = {} /\ indexed' = FALSE /\ teams' = [n \in TeamNames |-> NoTeam]
      /\ posted' = {} /\ joined' = [n \in TeamNames |-> {}]
      /\ orphaned' = FALSE /\ id' = id
      /\ deploys < MaxDeploys /\ deploys' = deploys + 1
  BY DEF DeployMongo, Deploy, NoTeams
<1>2. \A n \in TeamNames : teams'[n].members = {} /\ joined'[n] = {}
  BY <1>1 DEF NoTeam
<1>3. TypeOK'
  <2>1. NoTeam \in Team
    BY DEF NoTeam, Team
  <2>2. teams' \in [TeamNames -> Team] /\ documents' \subseteq Document /\ posted' \subseteq Posting
    BY <1>1, <2>1
  <2>3. deploys' \in 0 .. MaxDeploys
    BY <1>1, BoundsAreNumbers DEF Inv, TypeOK
  <2> QED
    BY <1>1, <2>2, <2>3 DEF Inv, TypeOK
<1>4. IdsGiven'
  BY <1>1, IdsStay DEF Inv
<1>5. DocumentsStand'
  BY <1>2 DEF DocumentsStand
<1>6. OneEach' /\ NothingPostedLost'
  BY <1>1 DEF OneEach, NothingPostedLost
<1>7. NamesHold'
  BY <1>1, <1>2 DEF NamesHold, Posted, Shows
<1> QED
  BY <1>3, <1>4, <1>5, <1>6, <1>7 DEF Inv

\* A step that changes nothing but an index of a collection.
LEMMA IndexInv ==
    ASSUME Inv, indexed' \in BOOLEAN,
           UNCHANGED <<id, documents, teams, posted, joined, orphaned, deploys>>
    PROVE  Inv'
<1>1. TypeOK' /\ IdsGiven' /\ \A i, q : Named(i, q)' <=> Named(i, q)
  BY IdsStay DEF Inv, TypeOK
<1>2. OneEach' /\ DocumentsStand' /\ NothingPostedLost'
  BY DEF Inv, OneEach, DocumentsStand, ByID, NothingPostedLost
<1>3. NamesHold'
  BY <1>1 DEF Inv, NamesHold, Posted, Shows
<1> QED
  BY <1>1, <1>2, <1>3 DEF Inv

LEMMA NextInv == Inv /\ [Next]_vars => Inv'
<1> SUFFICES ASSUME Inv, [Next]_vars PROVE Inv'
  OBVIOUS
<1>1. CASE DeploySchedules \/ UNCHANGED vars
  <2>1. indexed' \in BOOLEAN
    BY <1>1 DEF DeploySchedules, vars, Inv, TypeOK
  <2> QED
    BY <1>1, <2>1, IndexInv DEF DeploySchedules, vars
<1>2. CASE Next /\ ~DeploySchedules
  BY <1>2, SignUpInv, PostDayInv, PostTeamInv, PostMemberInv, DeployGatewayInv, DeployMongoInv
     DEF Next
<1> QED
  BY <1>1, <1>2

(***************************************************************************)
(* The invariant holds in whichever order people sign up, post, are put    *)
(* into teams and the three scripts are run.                               *)
(***************************************************************************)
THEOREM DeploymentInvariant == Spec => []Inv
<1> QED
  BY InitInv, NextInv, PTL DEF Spec

(***************************************************************************)
(* Whoever has an id that another had, and whatever id somebody has who    *)
(* posted before, a posting that was acknowledged stays in the document of *)
(* the id it was made under (postUserScheduleHandler finds by the id and   *)
(* adds to what it finds).                                                 *)
(***************************************************************************)
THEOREM DeploymentNothingPostedLost == Spec => []NothingPostedLost
<1>1. Inv => NothingPostedLost
  BY DEF Inv
<1> QED
  BY <1>1, DeploymentInvariant, PTL

(***************************************************************************)
(* Until accounts are lost that documents name, the schedule found by the  *)
(* email is what was posted by the id, whether or not the index of emails  *)
(* is there: no two documents have an email.                               *)
(***************************************************************************)
THEOREM DeploymentOwnScheduleShown == Spec => []OwnScheduleShown
<1>1. Inv => OwnScheduleShown
  <2> SUFFICES ASSUME Inv, ~orphaned, NEW p \in Signed
               PROVE  GetUserSchedule(p) = {Posted(p)}
    BY DEF OwnScheduleShown
  <2>1. /\ \A d \in ByEmail(p) : d \in documents /\ d.userEmail = p /\ d.userID = id[p]
        /\ \A x : x \in Posted(p) <=> Shows(p, x)
    BY DEF Inv, NamesHold, Named, ByEmail, Signed
  <2>2. \A d, e \in ByEmail(p) : d = e
    BY <2>1 DEF Inv, OneEach
  <2>3. CASE ByEmail(p) = {}
    <3>1. \A x : x \notin Posted(p)
      BY <2>1, <2>3 DEF Shows, ByEmail
    <3>2. Posted(p) = {}
      BY <3>1
    <3> QED
      BY <2>3, <3>2 DEF GetUserSchedule
  <2>4. ASSUME NEW d \in ByEmail(p)
        PROVE  GetUserSchedule(p) = {Posted(p)}
    <3>1. GetUserSchedule(p) = {d.schedule}
      BY <2>2, <2>4 DEF GetUserSchedule
    <3>2. \A x : x \in Posted(p) <=> x \in d.schedule
      BY <2>1, <2>2, <2>4 DEF Shows, ByEmail
    <3>3. Posted(p) = d.schedule
      <4>1. d.schedule \in SUBSET Days /\ Posted(p) \in SUBSET Days
        BY <2>1, Collections DEF Inv, Posted
      <4> QED
        BY <3>2, <4>1
    <3> QED
      BY <3>1, <3>3
  <2> QED
    BY <2>3, <2>4
<1> QED
  BY <1>1, DeploymentInvariant, PTL

(***************************************************************************)
(* Until then the teams found by the id are those the person was put into  *)
(* by the email, and nobody else is told who is in them.                   *)
(***************************************************************************)
THEOREM DeploymentTeamsShownToMembers == Spec => []TeamsShownToMembers
<1>1. Inv => TeamsShownToMembers
  <2> SUFFICES ASSUME Inv, ~orphaned, NEW p \in Signed, NEW n \in TeamNames
               PROVE  /\ n \in GetTeams(p) <=> p \in joined[n]
                      /\ GetMembers(p, n) = IF p \in joined[n] THEN joined[n] ELSE {}
    BY DEF TeamsShownToMembers
  <2>1. joined[n] = {m.email : m \in teams[n].members}
    BY DEF Inv, DocumentsStand
  <2>2. \A m \in teams[n].members : m.id = id[p] <=> m.email = p
    BY DEF Inv, NamesHold, Named, IdsGiven
  <2>3. IsMember(p, n) <=> p \in joined[n]
    BY <2>1, <2>2 DEF IsMember
  <2> QED
    BY <2>1, <2>3 DEF GetTeams, GetMembers
<1> QED
  BY <1>1, DeploymentInvariant, PTL

=============================================================================
