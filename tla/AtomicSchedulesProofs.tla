------------------------ MODULE AtomicSchedulesProofs ------------------------
(***************************************************************************)
(* The safety of AtomicSchedules, for any users, teams, days and times.    *)
(***************************************************************************)
EXTENDS AtomicSchedules, SequenceTheorems, FiniteSetTheorems,
        WellFoundedInduction, TLAPS

-----------------------------------------------------------------------------
\* The window arithmetic.

\* A nonempty set of natural numbers has a least element.
LEMMA LeastNatural ==
    ASSUME NEW T \in SUBSET Nat, T # {}
    PROVE  \E x \in T : \A y \in T : ~(y < x)
<1> DEFINE R == OpToRel(<, Nat)
<1>1. IsWellFoundedOn(R, Nat)
  BY NatLessThanWellFounded DEF R
<1>2. \A x, y \in Nat : <<y, x>> \in R <=> y < x
  BY SMT DEF OpToRel
<1> HIDE DEF R
<1>3. \E x \in T : \A y \in T : ~(<<y, x>> \in R)
  BY <1>1, WFMin
<1> QED
  BY <1>2, <1>3

\* FindDay gives the first entry of the day, when there is one.
LEMMA FindDayIsFirst ==
    ASSUME NEW S, NEW entries \in Seq(S), NEW day, HasDay(entries, day)
    PROVE  FirstWithDay(entries, day, FindDay(entries, day))
<1> DEFINE T == {k \in DOMAIN entries : entries[k].day = day}
<1>1. T \in SUBSET Nat /\ T # {}
  BY DEF HasDay
<1>2. PICK x \in T : \A y \in T : ~(y < x)
  BY <1>1, LeastNatural
<1>3. FirstWithDay(entries, day, x)
  <2> SUFFICES ASSUME NEW j \in 1 .. (x - 1)
               PROVE  entries[j].day # day
    BY DEF FirstWithDay
  <2>1. j \in DOMAIN entries /\ j < x
    BY <1>1
  <2> QED
    BY <1>2, <2>1
<1>4. \E k \in DOMAIN entries : FirstWithDay(entries, day, k)
  BY <1>3
<1> QED
  BY <1>4 DEF FindDay

\* In every case FindDay is 0 or the place of an entry of the day.
LEMMA FindDayFinds ==
    ASSUME NEW S, NEW entries \in Seq(S), NEW day
    PROVE  LET k == FindDay(entries, day)
           IN  /\ HasDay(entries, day) <=> k # 0
               /\ k # 0 => k \in DOMAIN entries /\ entries[k].day = day
<1>1. CASE HasDay(entries, day)
  <2>1. FirstWithDay(entries, day, FindDay(entries, day))
    BY <1>1, FindDayIsFirst
  <2>2. FindDay(entries, day) \in DOMAIN entries /\ entries[FindDay(entries, day)].day = day
    BY <2>1 DEF FirstWithDay
  <2>3. FindDay(entries, day) # 0
    BY <2>2
  <2> QED
    BY <1>1, <2>2, <2>3
<1>2. CASE ~HasDay(entries, day)
  BY <1>2 DEF FindDay
<1> QED
  BY <1>1, <1>2

-----------------------------------------------------------------------------
(***************************************************************************)
(* windowIsValid keeps the window and makes the flag agree with it.        *)
(***************************************************************************)
LEMMA WindowIsValidSafe ==
    ASSUME NEW entry \in TeamEntry(Days, Times)
    PROVE  LET after == WindowIsValid(entry)
           IN  /\ after \in TeamEntry(Days, Times)
               /\ after.day = entry.day
               /\ after.startTime = entry.startTime
               /\ after.endTime = entry.endTime
               /\ after.hasAvailability <=> entry.startTime < entry.endTime
<1> DEFINE after == WindowIsValid(entry)
<1>1. entry.startTime \in Nat /\ entry.endTime \in Nat
  BY TimesAreNumbers DEF TeamEntry
<1>2. /\ after.day = entry.day
      /\ after.startTime = entry.startTime
      /\ after.endTime = entry.endTime
      /\ after.hasAvailability = ~(entry.endTime <= entry.startTime)
  BY DEF WindowIsValid, TeamEntry
<1>3. after \in TeamEntry(Days, Times)
  BY DEF WindowIsValid, TeamEntry
<1>4. ~(entry.endTime <= entry.startTime) <=> entry.startTime < entry.endTime
  BY <1>1
<1> QED
  BY <1>2, <1>3, <1>4

\* An entry given another window and checked again.
LEMMA MovedWindowSafe ==
    ASSUME NEW entry \in TeamEntry(Days, Times),
           NEW start \in Times, NEW end \in Times
    PROVE  LET after == WindowIsValid([entry EXCEPT !.startTime = start, !.endTime = end])
           IN  /\ after \in TeamEntry(Days, Times)
               /\ after.day = entry.day
               /\ after.startTime = start
               /\ after.endTime = end
               /\ after.hasAvailability <=> start < end
<1> DEFINE moved == [entry EXCEPT !.startTime = start, !.endTime = end]
<1>1. moved \in TeamEntry(Days, Times)
  BY DEF TeamEntry
<1>2. moved.day = entry.day /\ moved.startTime = start /\ moved.endTime = end
  BY DEF TeamEntry
<1> HIDE DEF moved
<1>3. /\ WindowIsValid(moved) \in TeamEntry(Days, Times)
      /\ WindowIsValid(moved).day = moved.day
      /\ WindowIsValid(moved).startTime = moved.startTime
      /\ WindowIsValid(moved).endTime = moved.endTime
      /\ WindowIsValid(moved).hasAvailability <=> moved.startTime < moved.endTime
  BY <1>1, WindowIsValidSafe
<1> QED
  BY <1>2, <1>3 DEF moved

(***************************************************************************)
(* What the loop body of postMembersHandler does to an entry, whichever    *)
(* entry the comparison was prepared with.                                 *)
(***************************************************************************)
LEMMA NarrowByMemberSafe ==
    ASSUME NEW entry \in TeamEntry(Days, Times), NEW seen \in TeamEntry(Days, Times),
           NEW window \in DayEntry(Days, Times)
    PROVE  LET after == NarrowByMember(entry, seen, window)
           IN  /\ after \in TeamEntry(Days, Times)
               /\ after.day = entry.day
               /\ Exact(entry) => Exact(after)
<1> DEFINE later   == NeedsUpdate("date", window.startTime, seen.startTime, TRUE)
           earlier == NeedsUpdate("date", window.endTime, seen.endTime, FALSE)
           start   == IF later THEN window.startTime ELSE entry.startTime
           end     == IF earlier THEN window.endTime ELSE entry.endTime
           moved   == WindowIsValid([entry EXCEPT !.startTime = start, !.endTime = end])
<1>1. start \in Times /\ end \in Times
  BY DEF TeamEntry, DayEntry
<1>2. NarrowByMember(entry, seen, window) = IF later \/ earlier THEN moved ELSE entry
  BY DEF NarrowByMember
<1> HIDE DEF later, earlier, start, end
<1>3. /\ moved \in TeamEntry(Days, Times)
      /\ moved.day = entry.day
      /\ moved.startTime = start
      /\ moved.endTime = end
      /\ moved.hasAvailability <=> start < end
  BY <1>1, MovedWindowSafe
<1> QED
  BY <1>2, <1>3 DEF Exact

(***************************************************************************)
(* Uninterrupted, the loop body compares and updates the same entry: what  *)
(* is still available was so before, has lost time only, and lies in the   *)
(* window of the new member.                                               *)
(***************************************************************************)
LEMMA NarrowByMemberCovers ==
    ASSUME NEW entry \in TeamEntry(Days, Times),
           NEW window \in DayEntry(Days, Times), Exact(entry)
    PROVE  LET after == NarrowByMember(entry, entry, window)
           IN  /\ after \in TeamEntry(Days, Times)
               /\ after.day = entry.day
               /\ Exact(after)
               /\ after.hasAvailability =>
                    /\ entry.hasAvailability
                    /\ entry.startTime <= after.startTime
                    /\ after.endTime <= entry.endTime
                    /\ window.startTime <= after.startTime
                    /\ after.endTime <= window.endTime
<1> DEFINE later   == entry.startTime < window.startTime
           earlier == entry.endTime > window.endTime
           start   == IF later THEN window.startTime ELSE entry.startTime
           end     == IF earlier THEN window.endTime ELSE entry.endTime
           moved   == WindowIsValid([entry EXCEPT !.startTime = start, !.endTime = end])
<1>1. /\ entry.startTime \in Nat /\ entry.endTime \in Nat
      /\ window.startTime \in Nat /\ window.endTime \in Nat
      /\ start \in Times /\ end \in Times
  BY TimesAreNumbers DEF TeamEntry, DayEntry
<1>2. NarrowByMember(entry, entry, window) = IF later \/ earlier THEN moved ELSE entry
  BY DEF NarrowByMember, NeedsUpdate
<1> HIDE DEF start, end
<1>3. /\ moved \in TeamEntry(Days, Times)
      /\ moved.day = entry.day
      /\ moved.startTime = start
      /\ moved.endTime = end
      /\ moved.hasAvailability <=> start < end
  BY <1>1, MovedWindowSafe
<1> USE DEF start, end
<1>4. CASE later \/ earlier
  <2>1. NarrowByMember(entry, entry, window) = moved
    BY <1>2, <1>4
  <2>2. start < end => entry.startTime < entry.endTime
    BY <1>1
  <2> QED
    BY <1>1, <1>3, <2>1, <2>2 DEF Exact
<1>5. CASE ~(later \/ earlier)
  BY <1>1, <1>2, <1>5
<1> QED
  BY <1>4, <1>5

LEMMA CloseWindowSafe ==
    ASSUME NEW entry \in TeamEntry(Days, Times)
    PROVE  LET after == CloseWindow(entry)
           IN  /\ after \in TeamEntry(Days, Times)
               /\ after.day = entry.day
               /\ Exact(after)
               /\ ~after.hasAvailability
<1> DEFINE after == CloseWindow(entry)
<1>1. after \in TeamEntry(Days, Times)
  BY DEF CloseWindow, TeamEntry
<1>2. /\ after.day = entry.day
      /\ after.startTime = entry.startTime
      /\ after.endTime = entry.startTime
      /\ after.hasAvailability = FALSE
  BY DEF CloseWindow, TeamEntry
<1>3. entry.startTime \in Nat
  BY TimesAreNumbers DEF TeamEntry
<1> QED
  BY <1>1, <1>2, <1>3 DEF Exact

(***************************************************************************)
(* Posting a day never opens or widens an entry of a team: where the end   *)
(* moves it moves to the start of the window, which closes the entry.      *)
(***************************************************************************)
LEMMA NarrowByOwnDaySafe ==
    ASSUME NEW entry \in TeamEntry(Days, Times), NEW format,
           NEW window \in DayEntry(Days, Times), Exact(entry)
    PROVE  LET after == NarrowByOwnDay(entry, format, window)
           IN  /\ after \in TeamEntry(Days, Times)
               /\ after.day = entry.day
               /\ Exact(after)
               /\ after.hasAvailability =>
                    /\ entry.hasAvailability
                    /\ entry.startTime <= after.startTime
                    /\ after.endTime <= entry.endTime
<1> DEFINE later   == format # "iso" /\ entry.startTime < window.startTime
           earlier == format # "iso" /\ entry.endTime > window.endTime
           start   == IF later THEN window.startTime ELSE entry.startTime
           end     == IF earlier THEN window.startTime ELSE entry.endTime
           moved   == WindowIsValid([entry EXCEPT !.startTime = start, !.endTime = end])
<1>1. /\ entry.startTime \in Nat /\ entry.endTime \in Nat
      /\ window.startTime \in Nat /\ window.endTime \in Nat
      /\ start \in Times /\ end \in Times
  BY TimesAreNumbers DEF TeamEntry, DayEntry
<1>2. NarrowByOwnDay(entry, format, window) = IF later \/ earlier THEN moved ELSE entry
  BY DEF NarrowByOwnDay, NeedsUpdate
<1> HIDE DEF start, end
<1>3. /\ moved \in TeamEntry(Days, Times)
      /\ moved.day = entry.day
      /\ moved.startTime = start
      /\ moved.endTime = end
      /\ moved.hasAvailability <=> start < end
  BY <1>1, MovedWindowSafe
<1> USE DEF start, end
<1>4. CASE later \/ earlier
  <2>1. NarrowByOwnDay(entry, format, window) = moved
    BY <1>2, <1>4
  <2>2. start < end => /\ entry.startTime < entry.endTime
                       /\ entry.startTime <= start
                       /\ end <= entry.endTime
    BY <1>1
  <2> QED
    BY <1>1, <1>3, <2>1, <2>2 DEF Exact
<1>5. CASE ~(later \/ earlier)
  BY <1>1, <1>2, <1>5
<1> QED
  BY <1>4, <1>5

LEMMA OpenEntrySafe ==
    ASSUME NEW window \in DayEntry(Days, Times)
    PROVE  LET after == OpenEntry(window)
           IN  /\ after \in TeamEntry(Days, Times)
               /\ after.day = window.day
               /\ after.startTime = window.startTime
               /\ after.endTime = window.endTime
               /\ window.startTime < window.endTime => Exact(after)
BY DEF OpenEntry, TeamEntry, DayEntry, Exact

-----------------------------------------------------------------------------
\* The loops.

\* What becomes of an entry: the same day, and no time gained.
Narrows(before, after) ==
    after.hasAvailability =>
        /\ before.hasAvailability
        /\ before.day = after.day
        /\ before.startTime <= after.startTime
        /\ after.endTime <= before.endTime

(***************************************************************************)
(* The schedule of a team after one of its members has posted a day.       *)
(***************************************************************************)
LEMMA OwnDayOnTeam ==
    ASSUME NEW team \in Team, NEW format, NEW window \in DayEntry(Days, Times),
           window.startTime < window.endTime,
           \A k \in DOMAIN team.schedule : Exact(team.schedule[k])
    PROVE  LET after == ScheduleAfterOwnDay(team, format, window)
           IN  /\ after \in Seq(TeamEntry(Days, Times))
               /\ DOMAIN team.schedule \subseteq DOMAIN after
               /\ \A k \in DOMAIN after :
                    /\ Exact(after[k])
                    /\ \/ k \in DOMAIN team.schedule /\ Narrows(team.schedule[k], after[k])
                       \/ /\ k \notin DOMAIN team.schedule
                          /\ Len(team.members) <= 1
                          /\ after[k] = OpenEntry(window)
<1> DEFINE old   == team.schedule
           index == FindDay(old, window.day)
           after == ScheduleAfterOwnDay(team, format, window)
<1>1. /\ old \in Seq(TeamEntry(Days, Times))
      /\ \A k \in DOMAIN old : old[k] \in TeamEntry(Days, Times) /\ Narrows(old[k], old[k])
      /\ Len(team.members) \in Nat
  <2>1. old \in Seq(TeamEntry(Days, Times)) /\ team.members \in Seq(Users)
    BY DEF Team
  <2>2. \A k \in DOMAIN old : old[k] \in TeamEntry(Days, Times)
    BY <2>1, ElementOfSeq
  <2>3. \A k \in DOMAIN old : old[k].startTime \in Nat /\ old[k].endTime \in Nat
    BY <2>2, TimesAreNumbers DEF TeamEntry
  <2> QED
    BY <2>1, <2>2, <2>3, LenProperties DEF Narrows
<1>2. CASE Len(team.members) > 1 /\ index # 0
  <2> DEFINE new == NarrowByOwnDay(old[index], format, window)
  <2>1. after = [old EXCEPT ![index] = new]
    BY <1>2 DEF ScheduleAfterOwnDay
  <2>2. index \in 1 .. Len(old)
    BY <1>1, <1>2, FindDayFinds, LenProperties
  <2>3. new \in TeamEntry(Days, Times) /\ Exact(new) /\ Narrows(old[index], new)
    <3>1. old[index] \in TeamEntry(Days, Times) /\ Exact(old[index])
      BY <1>1, <2>2, LenProperties
    <3>2. /\ new \in TeamEntry(Days, Times)
          /\ new.day = old[index].day
          /\ Exact(new)
          /\ new.hasAvailability => /\ old[index].hasAvailability
                                    /\ old[index].startTime <= new.startTime
                                    /\ new.endTime <= old[index].endTime
      BY <3>1, NarrowByOwnDaySafe
    <3> QED
      BY <3>2 DEF Narrows
  <2> HIDE DEF new
  <2>4. /\ after \in Seq(TeamEntry(Days, Times))
        /\ DOMAIN after = DOMAIN old
        /\ \A k \in DOMAIN old : after[k] = IF k = index THEN new ELSE old[k]
    BY <1>1, <2>1, <2>2, <2>3, ExceptSeq, LenProperties
  <2> QED
    BY <1>1, <2>3, <2>4
<1>3. CASE Len(team.members) > 1 /\ index = 0
  <2>1. after = old
    BY <1>3 DEF ScheduleAfterOwnDay
  <2> QED
    BY <1>1, <2>1
<1>4. CASE ~(Len(team.members) > 1)
  <2> DEFINE new == OpenEntry(window)
  <2>1. after = Append(old, new)
    BY <1>4 DEF ScheduleAfterOwnDay
  <2>2. new \in TeamEntry(Days, Times) /\ Exact(new)
    BY OpenEntrySafe
  <2> HIDE DEF new
  <2>3. /\ after \in Seq(TeamEntry(Days, Times))
        /\ DOMAIN after = 1 .. (Len(old) + 1) /\ DOMAIN old = 1 .. Len(old)
        /\ Len(old) \in Nat
        /\ \A k \in DOMAIN old : after[k] = old[k]
        /\ after[Len(old) + 1] = new
    BY <1>1, <2>1, <2>2, AppendProperties, LenProperties
  <2>4. \A k \in DOMAIN after : k \in DOMAIN old \/ (k = Len(old) + 1 /\ k \notin DOMAIN old)
    BY <2>3
  <2>5. Len(team.members) <= 1
    BY <1>1, <1>4
  <2> QED
    BY <1>1, <2>2, <2>3, <2>4, <2>5 DEF new
<1> QED
  BY <1>2, <1>3, <1>4

LEMMA InitialSchedule ==
    ASSUME NEW entries \in Seq(DayEntry(Days, Times)),
           \A k \in DOMAIN entries : entries[k].startTime < entries[k].endTime
    PROVE  LET after == InitialTeamSchedule(entries)
           IN  /\ after \in Seq(TeamEntry(Days, Times))
               /\ DOMAIN after = DOMAIN entries
               /\ \A k \in DOMAIN after : Exact(after[k]) /\ Covers(entries, after[k])
<1> DEFINE after == InitialTeamSchedule(entries)
<1>1. /\ DOMAIN after = 1 .. Len(entries) /\ DOMAIN entries = 1 .. Len(entries)
      /\ Len(entries) \in Nat
  BY LenProperties DEF InitialTeamSchedule
<1>2. ASSUME NEW k \in DOMAIN entries
      PROVE  /\ after[k] \in TeamEntry(Days, Times)
             /\ Exact(after[k])
             /\ Covers(entries, after[k])
  <2>1. after[k] = OpenEntry(entries[k])
    BY DEF InitialTeamSchedule
  <2>2. entries[k] \in DayEntry(Days, Times)
    BY <1>1, ElementOfSeq
  <2>3. /\ OpenEntry(entries[k]) \in TeamEntry(Days, Times)
        /\ OpenEntry(entries[k]).day = entries[k].day
        /\ OpenEntry(entries[k]).startTime = entries[k].startTime
        /\ OpenEntry(entries[k]).endTime = entries[k].endTime
        /\ Exact(OpenEntry(entries[k]))
    BY <2>2, OpenEntrySafe
  <2>4. entries[k].startTime \in Nat /\ entries[k].endTime \in Nat
    BY <2>2, TimesAreNumbers DEF DayEntry
  <2> QED
    BY <2>1, <2>3, <2>4 DEF Covers
<1>3. after \in [1 .. Len(entries) -> TeamEntry(Days, Times)]
  BY <1>1, <1>2 DEF InitialTeamSchedule
<1> QED
  BY <1>1, <1>2, <1>3

-----------------------------------------------------------------------------
\* A team all of whose available entries are covered by its members.
Sound(team, schedules) ==
    \A k \in DOMAIN team.schedule : team.schedule[k].hasAvailability =>
        \A m \in ToSet(team.members) : Covers(schedules[m], team.schedule[k])

LEMMA SoundTeams ==
    NoFalseAvailability <=> \A n \in TeamNames : Sound(teams[n], userSchedules)
BY DEF NoFalseAvailability, Sound, Shown, Members

LEMMA CoversNarrowed ==
    ASSUME NEW entries \in Seq(DayEntry(Days, Times)),
           NEW before \in TeamEntry(Days, Times), NEW after \in TeamEntry(Days, Times),
           after.hasAvailability, Narrows(before, after), Covers(entries, before)
    PROVE  Covers(entries, after)
<1>1. PICK k \in DOMAIN entries : /\ entries[k].day = before.day
                                  /\ entries[k].startTime <= before.startTime
                                  /\ before.endTime <= entries[k].endTime
  BY DEF Covers
<1>a. entries[k] \in DayEntry(Days, Times)
  BY ElementOfSeq
<1>2. /\ entries[k].startTime \in Nat /\ entries[k].endTime \in Nat
      /\ before.startTime \in Nat /\ before.endTime \in Nat
      /\ after.startTime \in Nat /\ after.endTime \in Nat
  BY <1>a, TimesAreNumbers DEF DayEntry, TeamEntry
<1>3. /\ entries[k].day = after.day
      /\ entries[k].startTime <= after.startTime
      /\ after.endTime <= entries[k].endTime
  BY <1>1, <1>2 DEF Narrows
<1> QED
  BY <1>3 DEF Covers

LEMMA AppendedMembers ==
    ASSUME NEW S, NEW seq \in Seq(S), NEW elt \in S
    PROVE  ToSet(Append(seq, elt)) = ToSet(seq) \cup {elt}
<1> DEFINE new == Append(seq, elt)
<1>1. /\ Len(seq) \in Nat
      /\ DOMAIN seq = 1 .. Len(seq)
      /\ DOMAIN new = 1 .. (Len(seq) + 1)
      /\ \A i \in 1 .. Len(seq) : new[i] = seq[i]
      /\ new[Len(seq) + 1] = elt
  BY AppendProperties, LenProperties
<1> HIDE DEF new
<1>2. ToSet(new) \subseteq ToSet(seq) \cup {elt}
  <2> SUFFICES ASSUME NEW i \in 1 .. (Len(seq) + 1)
               PROVE  new[i] \in ToSet(seq) \cup {elt}
    BY <1>1 DEF ToSet
  <2>1. CASE i = Len(seq) + 1
    BY <1>1, <2>1
  <2>2. CASE i \in 1 .. Len(seq)
    BY <1>1, <2>2 DEF ToSet
  <2> QED
    BY <1>1, <2>1, <2>2
<1>3. ToSet(seq) \subseteq ToSet(new)
  <2> SUFFICES ASSUME NEW i \in 1 .. Len(seq)
               PROVE  seq[i] \in ToSet(new)
    BY <1>1 DEF ToSet
  <2>1. i \in DOMAIN new /\ new[i] = seq[i]
    BY <1>1
  <2> QED
    BY <2>1 DEF ToSet
<1>4. elt \in ToSet(new)
  <2>1. Len(seq) + 1 \in DOMAIN new
    BY <1>1
  <2> QED
    BY <1>1, <2>1 DEF ToSet
<1> QED
  BY <1>2, <1>3, <1>4 DEF new

LEMMA CoversAppended ==
    ASSUME NEW entries \in Seq(DayEntry(Days, Times)), NEW window \in DayEntry(Days, Times),
           NEW entry, Covers(entries, entry)
    PROVE  Covers(Append(entries, window), entry)
BY AppendProperties DEF Covers

-----------------------------------------------------------------------------
(***************************************************************************)
(* The schedule of a team after the loop over its days for a new member.   *)
(***************************************************************************)
LEMMA MemberOnTeam ==
    ASSUME NEW entries \in Seq(TeamEntry(Days, Times)),
           NEW posted \in Seq(DayEntry(Days, Times)),
           \A k \in DOMAIN entries : Exact(entries[k])
    PROVE  LET after == ScheduleWithMember(entries, posted)
           IN  /\ after \in Seq(TeamEntry(Days, Times))
               /\ DOMAIN after = DOMAIN entries
               /\ \A k \in DOMAIN entries :
                    /\ Exact(after[k])
                    /\ Narrows(entries[k], after[k])
                    /\ after[k].hasAvailability => Covers(posted, after[k])
<1> DEFINE after == ScheduleWithMember(entries, posted)
<1>1. /\ DOMAIN after = 1 .. Len(entries) /\ DOMAIN entries = 1 .. Len(entries)
      /\ Len(entries) \in Nat
  BY LenProperties DEF ScheduleWithMember
<1>2. ASSUME NEW k \in DOMAIN entries
      PROVE  /\ after[k] \in TeamEntry(Days, Times)
             /\ Exact(after[k])
             /\ Narrows(entries[k], after[k])
             /\ after[k].hasAvailability => Covers(posted, after[k])
  <2> DEFINE day == FindDay(posted, entries[k].day)
             new == NarrowByMember(entries[k], entries[k], posted[day])
  <2>1. after[k] = IF day # 0 THEN new ELSE CloseWindow(entries[k])
    BY DEF ScheduleWithMember
  <2>2. entries[k] \in TeamEntry(Days, Times) /\ Exact(entries[k])
    BY <1>1, ElementOfSeq
  <2>3. CASE day # 0
    <3>1. day \in DOMAIN posted /\ posted[day].day = entries[k].day
      BY <2>3, FindDayFinds
    <3>2. posted[day] \in DayEntry(Days, Times)
      BY <3>1, ElementOfSeq, LenProperties
    <3>3. /\ new \in TeamEntry(Days, Times)
          /\ new.day = entries[k].day
          /\ Exact(new)
          /\ new.hasAvailability => /\ entries[k].hasAvailability
                                    /\ entries[k].startTime <= new.startTime
                                    /\ new.endTime <= entries[k].endTime
                                    /\ posted[day].startTime <= new.startTime
                                    /\ new.endTime <= posted[day].endTime
      BY <2>2, <3>2, NarrowByMemberCovers
    <3> HIDE DEF new
    <3>4. Narrows(entries[k], new)
      BY <3>3 DEF Narrows
    <3>5. new.hasAvailability => Covers(posted, new)
      BY <3>1, <3>3 DEF Covers
    <3> QED
      BY <2>1, <2>3, <3>3, <3>4, <3>5
  <2>4. CASE day = 0
    <3>1. /\ CloseWindow(entries[k]) \in TeamEntry(Days, Times)
          /\ Exact(CloseWindow(entries[k]))
          /\ ~CloseWindow(entries[k]).hasAvailability
      BY <2>2, CloseWindowSafe
    <3> QED
      BY <2>1, <2>4, <3>1 DEF Narrows
  <2> QED
    BY <2>3, <2>4
<1>3. after \in Seq(TeamEntry(Days, Times))
  <2>1. after \in [1 .. Len(entries) -> TeamEntry(Days, Times)]
    BY <1>1, <1>2 DEF ScheduleWithMember
  <2> QED
    BY <1>1, <2>1
<1> QED
  BY <1>1, <1>2, <1>3

-----------------------------------------------------------------------------
\* No day is posted twice.
DistinctDays(entries) ==
    \A j, k \in DOMAIN entries : entries[j].day = entries[k].day => j = k

LEMMA DistinctAppended ==
    ASSUME NEW entries \in Seq(DayEntry(Days, Times)), NEW window \in DayEntry(Days, Times),
           DistinctDays(entries), ~HasDay(entries, window.day)
    PROVE  DistinctDays(Append(entries, window))
<1> DEFINE new == Append(entries, window)
<1>1. /\ DOMAIN new = 1 .. (Len(entries) + 1) /\ Len(entries) \in Nat
      /\ DOMAIN entries = 1 .. Len(entries)
      /\ \A k \in 1 .. Len(entries) : new[k] = entries[k]
      /\ new[Len(entries) + 1] = window
  BY AppendProperties, LenProperties
<1> HIDE DEF new
<1>2. \A k \in DOMAIN new :
         \/ k \in DOMAIN entries /\ new[k] = entries[k] /\ new[k].day # window.day
         \/ k = Len(entries) + 1 /\ new[k].day = window.day
  BY <1>1 DEF HasDay
<1>3. DistinctDays(new)
  BY <1>2 DEF DistinctDays
<1> QED
  BY <1>3 DEF new

-----------------------------------------------------------------------------
(***************************************************************************)
(* The invariant.  NoFalseAvailability is not inductive alone: that a      *)
(* closed entry is never reopened rests on the flag agreeing with the      *)
(* window, and that of a new team on every posted window being proper.     *)
(***************************************************************************)
PostedWindowsProper ==
    \A u \in Users : \A k \in DOMAIN userSchedules[u] :
        userSchedules[u][k].startTime < userSchedules[u][k].endTime

AtomicInv == StoreTypeOK /\ PostedWindowsProper /\ WindowExact /\ NoFalseAvailability

-----------------------------------------------------------------------------
LEMMA TypeFacts ==
    ASSUME StoreTypeOK
    PROVE  /\ \A u \in Users : userSchedules[u] \in Seq(DayEntry(Days, Times))
           /\ \A n \in TeamNames : /\ teams[n] \in Team
                                   /\ teams[n].members \in Seq(Users)
                                   /\ teams[n].schedule \in Seq(TeamEntry(Days, Times))
                                   /\ Members(n) \subseteq Users
<1>1. \A n \in TeamNames : /\ teams[n] \in Team
                           /\ teams[n].members \in Seq(Users)
                           /\ teams[n].schedule \in Seq(TeamEntry(Days, Times))
  BY DEF StoreTypeOK, Team
<1>2. \A n \in TeamNames : Members(n) \subseteq Users
  <2> SUFFICES ASSUME NEW n \in TeamNames, NEW m \in Members(n)
               PROVE  m \in Users
    OBVIOUS
  <2>1. PICK i \in DOMAIN teams[n].members : m = teams[n].members[i]
    BY DEF Members, ToSet
  <2> QED
    BY <1>1, <2>1, ElementOfSeq, LenProperties
<1> QED
  BY <1>1, <1>2 DEF StoreTypeOK

\* Appending a proper window keeps every posted window proper.
LEMMA ProperAppended ==
    ASSUME NEW entries \in Seq(DayEntry(Days, Times)), NEW window \in DayEntry(Days, Times),
           window.startTime < window.endTime,
           \A k \in DOMAIN entries : entries[k].startTime < entries[k].endTime
    PROVE  \A k \in DOMAIN Append(entries, window) :
               Append(entries, window)[k].startTime < Append(entries, window)[k].endTime
BY AppendProperties, LenProperties

(***************************************************************************)
(* A step of PostSchedule: each team keeps its members, and its schedule   *)
(* is the old one or that of OwnDayOnTeam.                                 *)
(***************************************************************************)
LEMMA PostScheduleInv ==
    ASSUME AtomicInv, NEW u \in Users, NEW window \in DayEntry(Days, Times), NEW format,
           PostSchedule(u, window, format)
    PROVE  AtomicInv'
<1>1. StoreTypeOK /\ PostedWindowsProper /\ WindowExact /\ NoFalseAvailability
  BY DEF AtomicInv
<1>2. /\ window.startTime < window.endTime
      /\ userSchedules' = [userSchedules EXCEPT ![u] = Append(userSchedules[u], window)]
      /\ teams' = IF userSchedules[u] = <<>> THEN teams
                  ELSE [n \in TeamNames |->
                          IF u \in Members(n)
                          THEN [teams[n] EXCEPT !.schedule =
                                   ScheduleAfterOwnDay(teams[n], format, window)]
                          ELSE teams[n]]
  BY DEF PostSchedule
<1>3. /\ userSchedules' \in [Users -> Seq(DayEntry(Days, Times))]
      /\ userSchedules'[u] = Append(userSchedules[u], window)
      /\ \A m \in Users \ {u} : userSchedules'[m] = userSchedules[m]
  <2>1. Append(userSchedules[u], window) \in Seq(DayEntry(Days, Times))
    BY <1>1, TypeFacts, AppendProperties
  <2> QED
    BY <1>1, <1>2, <2>1 DEF StoreTypeOK
<1>4. PostedWindowsProper'
  <2> SUFFICES ASSUME NEW m \in Users
               PROVE  \A k \in DOMAIN userSchedules'[m] :
                          userSchedules'[m][k].startTime < userSchedules'[m][k].endTime
    BY DEF PostedWindowsProper
  <2>1. CASE m = u
    BY <1>1, <1>2, <1>3, <2>1, TypeFacts, ProperAppended DEF PostedWindowsProper
  <2>2. CASE m # u
    BY <1>1, <1>3, <2>2 DEF PostedWindowsProper
  <2> QED
    BY <2>1, <2>2
<1>5. \A m \in Users : \A entry : Covers(userSchedules[m], entry) => Covers(userSchedules'[m], entry)
  BY <1>1, <1>3, TypeFacts, CoversAppended
<1>6. ASSUME NEW n \in TeamNames
      PROVE  /\ teams'[n] \in Team
             /\ \A k \in DOMAIN teams'[n].schedule : Exact(teams'[n].schedule[k])
             /\ Sound(teams'[n], userSchedules')
  <2>1. /\ teams[n] \in Team
        /\ teams[n].schedule \in Seq(TeamEntry(Days, Times))
        /\ Members(n) \subseteq Users
        /\ \A k \in DOMAIN teams[n].schedule : Exact(teams[n].schedule[k])
        /\ Sound(teams[n], userSchedules)
    BY <1>1, TypeFacts, SoundTeams DEF WindowExact
  <2>2. CASE teams'[n] = teams[n]
    BY <1>5, <2>1, <2>2 DEF Sound, Members
  <2>3. CASE /\ u \in Members(n)
             /\ teams'[n] = [teams[n] EXCEPT !.schedule =
                               ScheduleAfterOwnDay(teams[n], format, window)]
    <3> DEFINE old == teams[n].schedule
               new == ScheduleAfterOwnDay(teams[n], format, window)
    <3>1. /\ new \in Seq(TeamEntry(Days, Times))
          /\ \A k \in DOMAIN new :
               /\ Exact(new[k])
               /\ \/ k \in DOMAIN old /\ Narrows(old[k], new[k])
                  \/ /\ k \notin DOMAIN old
                     /\ Len(teams[n].members) <= 1
                     /\ new[k] = OpenEntry(window)
      BY <1>2, <2>1, OwnDayOnTeam
    <3> HIDE DEF new
    <3>2. /\ teams'[n] \in Team
          /\ teams'[n].schedule = new
          /\ teams'[n].members = teams[n].members
      BY <2>1, <2>3, <3>1 DEF Team, new
    <3>3. ASSUME NEW k \in DOMAIN new, new[k].hasAvailability, NEW m \in Members(n)
          PROVE  Covers(userSchedules'[m], new[k])
      <4>1. m \in Users /\ new[k] \in TeamEntry(Days, Times)
        BY <2>1, <3>1, <3>3, ElementOfSeq, LenProperties
      <4>2. CASE k \in DOMAIN old /\ Narrows(old[k], new[k])
        <5>1. Covers(userSchedules[m], old[k])
          BY <2>1, <3>3, <4>2 DEF Narrows, Sound, Members
        <5>2. old[k] \in TeamEntry(Days, Times) /\ userSchedules[m] \in Seq(DayEntry(Days, Times))
          BY <1>1, <2>1, <4>1, <4>2, TypeFacts, ElementOfSeq, LenProperties
        <5> QED
          BY <1>5, <3>3, <4>1, <4>2, <5>1, <5>2, CoversNarrowed
      <4>3. CASE Len(teams[n].members) <= 1 /\ new[k] = OpenEntry(window)
        <5>1. m = u
          <6>1. teams[n].members \in Seq(Users)
            BY <2>1 DEF Team
          <6> QED
            BY <2>3, <3>3, <4>3, <6>1, LenProperties DEF Members, ToSet
        <5>2. Covers(Append(userSchedules[u], window), OpenEntry(window))
          <6>1. LET s == Append(userSchedules[u], window)
                    k0 == Len(userSchedules[u]) + 1
                IN  k0 \in DOMAIN s /\ s[k0] = window
            BY <1>1, TypeFacts, AppendProperties, LenProperties
          <6>2. /\ OpenEntry(window).day = window.day
                /\ OpenEntry(window).startTime = window.startTime
                /\ OpenEntry(window).endTime = window.endTime
            BY OpenEntrySafe
          <6>3. window.startTime \in Nat /\ window.endTime \in Nat
            BY TimesAreNumbers DEF DayEntry
          <6> QED
            BY <6>1, <6>2, <6>3 DEF Covers
        <5> QED
          BY <1>3, <4>3, <5>1, <5>2
      <4> QED
        BY <3>1, <3>3, <4>2, <4>3
    <3> QED
      BY <3>1, <3>2, <3>3 DEF Sound, Members
  <2> QED
    BY <1>2, <2>2, <2>3
<1>7. StoreTypeOK'
  <2>1. teams' \in [TeamNames -> Team]
    BY <1>1, <1>2, <1>6 DEF StoreTypeOK
  <2> QED
    BY <1>3, <2>1 DEF StoreTypeOK
<1>8. WindowExact'
  BY <1>6 DEF WindowExact
<1>9. NoFalseAvailability'
  BY <1>6 DEF NoFalseAvailability, Sound, Shown, Members
<1> QED
  BY <1>4, <1>7, <1>8, <1>9 DEF AtomicInv

\* A step of PostTeam: the only member is the creator, whose days it copies.
LEMMA PostTeamInv ==
    ASSUME AtomicInv, NEW u \in Users, NEW n \in TeamNames, PostTeam(u, n)
    PROVE  AtomicInv'
<1> DEFINE entries == InitialTeamSchedule(userSchedules[u])
           team == [creator |-> u, members |-> <<u>>, schedule |-> entries]
<1>1. StoreTypeOK /\ PostedWindowsProper /\ WindowExact /\ NoFalseAvailability
  BY DEF AtomicInv
<1>2. teams' = [teams EXCEPT ![n] = team] /\ userSchedules' = userSchedules
  BY DEF PostTeam
<1>3. /\ entries \in Seq(TeamEntry(Days, Times))
      /\ \A k \in DOMAIN entries : Exact(entries[k]) /\ Covers(userSchedules[u], entries[k])
  BY <1>1, TypeFacts, InitialSchedule DEF PostedWindowsProper
<1> HIDE DEF entries
<1>4. team \in Team
  BY <1>3 DEF Team
<1>5. Sound(team, userSchedules)
  BY <1>3 DEF Sound, ToSet
<1>6. teams' \in [TeamNames -> Team] /\ teams'[n] = team
  BY <1>1, <1>2, <1>4 DEF StoreTypeOK
<1>7. \A t \in TeamNames \ {n} : teams'[t] = teams[t]
  BY <1>1, <1>2 DEF StoreTypeOK
<1>8. \A t \in TeamNames : Sound(teams'[t], userSchedules)
  BY <1>1, <1>5, <1>6, <1>7, SoundTeams
<1>9. NoFalseAvailability'
  BY <1>2, <1>8 DEF NoFalseAvailability, Sound, Shown, Members
<1>10. WindowExact'
  BY <1>1, <1>3, <1>6, <1>7 DEF WindowExact
<1> QED
  BY <1>1, <1>2, <1>6, <1>9, <1>10 DEF AtomicInv, StoreTypeOK, PostedWindowsProper

\* A step of PostMember: every entry is closed or narrowed to the new member.
LEMMA PostMemberInv ==
    ASSUME AtomicInv, NEW u \in Users, NEW n \in TeamNames, NEW added \in Users,
           PostMember(u, n, added)
    PROVE  AtomicInv'
<1> DEFINE old == teams[n].schedule
           new == ScheduleWithMember(old, userSchedules[added])
           members == Append(teams[n].members, added)
<1>1. StoreTypeOK /\ PostedWindowsProper /\ WindowExact /\ NoFalseAvailability
  BY DEF AtomicInv
<1>2. /\ teams' = [teams EXCEPT ![n].members = members, ![n].schedule = new]
      /\ userSchedules' = userSchedules
  BY DEF PostMember
<1>3. /\ teams[n] \in Team
      /\ teams[n].members \in Seq(Users)
      /\ old \in Seq(TeamEntry(Days, Times))
      /\ userSchedules[added] \in Seq(DayEntry(Days, Times))
      /\ Members(n) \subseteq Users
      /\ Sound(teams[n], userSchedules)
  BY <1>1, TypeFacts, SoundTeams
<1>4. /\ new \in Seq(TeamEntry(Days, Times))
      /\ DOMAIN new = DOMAIN old
      /\ \A k \in DOMAIN old :
           /\ Exact(new[k])
           /\ Narrows(old[k], new[k])
           /\ new[k].hasAvailability => Covers(userSchedules[added], new[k])
  BY <1>1, <1>3, MemberOnTeam DEF WindowExact
<1>5. members \in Seq(Users) /\ ToSet(members) = Members(n) \cup {added}
  BY <1>3, AppendProperties, AppendedMembers DEF Members
<1> HIDE DEF new, members
<1>6. /\ teams' \in [TeamNames -> Team]
      /\ teams'[n].members = members
      /\ teams'[n].schedule = new
      /\ \A t \in TeamNames \ {n} : teams'[t] = teams[t]
  BY <1>1, <1>2, <1>3, <1>4, <1>5 DEF StoreTypeOK, Team
<1>7. Sound(teams'[n], userSchedules)
  <2> SUFFICES ASSUME NEW k \in DOMAIN new, new[k].hasAvailability,
                      NEW m \in Members(n) \cup {added}
               PROVE  Covers(userSchedules[m], new[k])
    BY <1>5, <1>6 DEF Sound
  <2>1. CASE m = added
    BY <1>4, <2>1
  <2>2. CASE m \in Members(n)
    <3>1. Narrows(old[k], new[k]) /\ Covers(userSchedules[m], old[k])
      BY <1>3, <1>4, <2>2 DEF Narrows, Sound, Members
    <3>2. /\ old[k] \in TeamEntry(Days, Times) /\ new[k] \in TeamEntry(Days, Times)
          /\ userSchedules[m] \in Seq(DayEntry(Days, Times))
      BY <1>1, <1>3, <1>4, <2>2, TypeFacts, ElementOfSeq, LenProperties
    <3> QED
      BY <3>1, <3>2, CoversNarrowed
  <2> QED
    BY <2>1, <2>2
<1>8. NoFalseAvailability'
  <2>1. \A t \in TeamNames : Sound(teams'[t], userSchedules)
    BY <1>1, <1>6, <1>7, SoundTeams
  <2> QED
    BY <1>2, <2>1 DEF NoFalseAvailability, Sound, Shown, Members
<1>9. WindowExact'
  BY <1>1, <1>4, <1>6 DEF WindowExact
<1> QED
  BY <1>1, <1>2, <1>6, <1>8, <1>9 DEF AtomicInv, StoreTypeOK, PostedWindowsProper

LEMMA AtomicInitInv == AtomicInit => AtomicInv
<1> SUFFICES ASSUME AtomicInit PROVE AtomicInv
  OBVIOUS
<1>1. /\ userSchedules = [u \in Users |-> <<>>]
      /\ teams = [n \in TeamNames |-> NoTeam]
  BY DEF AtomicInit
<1>2. NoTeam \in Team
  BY DEF NoTeam, Team
<1>3. StoreTypeOK
  BY <1>1, <1>2 DEF StoreTypeOK
<1>4. PostedWindowsProper
  BY <1>1 DEF PostedWindowsProper
<1>5. \A n \in TeamNames : teams[n].schedule = <<>>
  BY <1>1 DEF NoTeam
<1>6. WindowExact /\ NoFalseAvailability
  BY <1>5 DEF WindowExact, NoFalseAvailability, Shown
<1> QED
  BY <1>3, <1>4, <1>6 DEF AtomicInv

LEMMA AtomicNextInv == AtomicInv /\ [AtomicNext]_collections => AtomicInv'
<1> SUFFICES ASSUME AtomicInv, [AtomicNext]_collections PROVE AtomicInv'
  OBVIOUS
<1>1. ASSUME NEW u \in Users, NEW window \in DayEntry(Days, Times),
             NEW format \in {"iso", "ms"}, PostSchedule(u, window, format)
      PROVE  AtomicInv'
  BY <1>1, PostScheduleInv
<1>2. ASSUME NEW u \in Users, NEW n \in TeamNames, PostTeam(u, n)
      PROVE  AtomicInv'
  BY <1>2, PostTeamInv
<1>3. ASSUME NEW u \in Users, NEW added \in Users, NEW n \in TeamNames,
             PostMember(u, n, added)
      PROVE  AtomicInv'
  BY <1>3, PostMemberInv
<1>4. CASE UNCHANGED collections
  BY <1>4 DEF collections, AtomicInv, StoreTypeOK, PostedWindowsProper, WindowExact,
              NoFalseAvailability, Shown, Members
<1> QED
  BY <1>1, <1>2, <1>3, <1>4 DEF AtomicNext

-----------------------------------------------------------------------------
(***************************************************************************)
(* In every reachable state the collections are well typed, every entry's  *)
(* flag agrees with its window, and no team is shown a window that one of  *)
(* its members did not post: for any number of users, teams, days, times.  *)
(***************************************************************************)
THEOREM AtomicSafety ==
    AtomicSpec => [](StoreTypeOK /\ WindowExact /\ NoFalseAvailability)
<1>1. AtomicInit => AtomicInv
  BY AtomicInitInv
<1>2. AtomicInv /\ [AtomicNext]_collections => AtomicInv'
  BY AtomicNextInv
<1>3. AtomicInv => StoreTypeOK /\ WindowExact /\ NoFalseAvailability
  BY DEF AtomicInv
<1> QED
  BY <1>1, <1>2, <1>3, PTL DEF AtomicSpec

(***************************************************************************)
(* No step reopens or widens an entry of a team.                           *)
(***************************************************************************)
THEOREM AtomicNarrowing == AtomicSpec => WindowsOnlyNarrow
<1> DEFINE Narrowing ==
        \A n \in TeamNames : \A k \in DOMAIN teams[n].schedule :
            LET before == teams[n].schedule[k]
                after  == teams'[n].schedule[k]
            IN  after.hasAvailability =>
                   /\ before.hasAvailability
                   /\ before.startTime <= after.startTime
                   /\ after.endTime <= before.endTime
<1>1. AtomicInv /\ [AtomicNext]_collections => [Narrowing]_collections
  <2> SUFFICES ASSUME AtomicInv, AtomicNext, NEW n \in TeamNames,
                      NEW k \in DOMAIN teams[n].schedule
               PROVE  Narrows(teams[n].schedule[k], teams'[n].schedule[k])
    BY DEF Narrows
  <2>1. StoreTypeOK /\ PostedWindowsProper /\ WindowExact
    BY DEF AtomicInv
  <2>2. /\ teams[n] \in Team
        /\ teams[n].schedule[k] \in TeamEntry(Days, Times)
        /\ \A j \in DOMAIN teams[n].schedule : Exact(teams[n].schedule[j])
    BY <2>1, TypeFacts, ElementOfSeq, LenProperties DEF WindowExact
  <2>3. Narrows(teams[n].schedule[k], teams[n].schedule[k])
    <3>1. /\ teams[n].schedule[k].startTime \in Nat
          /\ teams[n].schedule[k].endTime \in Nat
      BY <2>2, TimesAreNumbers DEF TeamEntry
    <3> QED
      BY <3>1 DEF Narrows
  <2>4. ASSUME NEW u \in Users, NEW window \in DayEntry(Days, Times),
               NEW format \in {"iso", "ms"}, PostSchedule(u, window, format)
        PROVE  Narrows(teams[n].schedule[k], teams'[n].schedule[k])
    <3> DEFINE new == ScheduleAfterOwnDay(teams[n], format, window)
    <3>1. \/ teams'[n] = teams[n]
          \/ teams'[n] = [teams[n] EXCEPT !.schedule = new]
      BY <2>4 DEF PostSchedule
    <3>2. k \in DOMAIN new /\ Narrows(teams[n].schedule[k], new[k])
      BY <2>2, <2>4, OwnDayOnTeam DEF PostSchedule
    <3> HIDE DEF new
    <3>3. [teams[n] EXCEPT !.schedule = new].schedule = new
      BY <2>2 DEF Team
    <3> QED
      BY <2>3, <3>1, <3>2, <3>3
  <2>5. ASSUME NEW u \in Users, NEW t \in TeamNames, PostTeam(u, t)
        PROVE  Narrows(teams[n].schedule[k], teams'[n].schedule[k])
    <3>1. n # t
      BY <2>5 DEF PostTeam, Exists, NoTeam
    <3>2. teams'[n] = teams[n]
      BY <2>1, <2>5, <3>1 DEF PostTeam, StoreTypeOK
    <3> QED
      BY <2>3, <3>2
  <2>6. ASSUME NEW u \in Users, NEW added \in Users, NEW t \in TeamNames,
               PostMember(u, t, added)
        PROVE  Narrows(teams[n].schedule[k], teams'[n].schedule[k])
    <3>1. CASE n # t
      <4>1. teams'[n] = teams[n]
        BY <2>1, <2>6, <3>1 DEF PostMember, StoreTypeOK
      <4> QED
        BY <2>3, <4>1
    <3>2. CASE n = t
      <4> DEFINE new == ScheduleWithMember(teams[n].schedule, userSchedules[added])
                 members == Append(teams[n].members, added)
      <4>1. Narrows(teams[n].schedule[k], new[k])
        BY <2>1, <2>2, TypeFacts, MemberOnTeam
      <4>2. teams' = [teams EXCEPT ![n].members = members, ![n].schedule = new]
        BY <2>6, <3>2 DEF PostMember
      <4> HIDE DEF new, members
      <4>3. teams'[n].schedule = new
        BY <2>1, <2>2, <4>2 DEF StoreTypeOK, Team
      <4> QED
        BY <4>1, <4>3
    <3> QED
      BY <3>1, <3>2
  <2> QED
    BY <2>4, <2>5, <2>6 DEF AtomicNext
<1>2. AtomicInit => AtomicInv
  BY AtomicInitInv
<1>3. AtomicInv /\ [AtomicNext]_collections => AtomicInv'
  BY AtomicNextInv
<1> QED
  BY <1>1, <1>2, <1>3, PTL DEF AtomicSpec, WindowsOnlyNarrow

-----------------------------------------------------------------------------
(***************************************************************************)
(* No time is lost that all members have.                                  *)
(***************************************************************************)
Within(entry, t) == entry.startTime <= t /\ t < entry.endTime

\* Some posted window of the day contains the instant.
Free(entries, day, t) ==
    \E k \in DOMAIN entries : entries[k].day = day /\ Within(entries[k], t)

LEMMA FreeAppended ==
    ASSUME NEW entries \in Seq(DayEntry(Days, Times)), NEW window \in DayEntry(Days, Times),
           NEW day, NEW t
    PROVE  Free(Append(entries, window), day, t) <=>
              Free(entries, day, t) \/ (window.day = day /\ Within(window, t))
<1> DEFINE new == Append(entries, window)
<1>1. /\ DOMAIN new = 1 .. (Len(entries) + 1) /\ Len(entries) \in Nat
      /\ DOMAIN entries = 1 .. Len(entries)
      /\ \A k \in 1 .. Len(entries) : new[k] = entries[k]
      /\ new[Len(entries) + 1] = window
  BY AppendProperties, LenProperties
<1> HIDE DEF new
<1>2. \A k \in DOMAIN new : \/ k \in DOMAIN entries /\ new[k] = entries[k]
                            \/ new[k] = window
  BY <1>1
<1>3. /\ \A k \in DOMAIN entries : k \in DOMAIN new /\ new[k] = entries[k]
      /\ \E k \in DOMAIN new : new[k] = window
  BY <1>1
<1>4. Free(new, day, t) <=> Free(entries, day, t) \/ (window.day = day /\ Within(window, t))
  BY <1>2, <1>3 DEF Free
<1> QED
  BY <1>4 DEF new

LEMMA FreeWithin ==
    ASSUME NEW entries, DistinctDays(entries), NEW k \in DOMAIN entries, NEW t
    PROVE  Free(entries, entries[k].day, t) <=> Within(entries[k], t)
BY DEF DistinctDays, Free

LEMMA NarrowByMemberWithin ==
    ASSUME NEW entry \in TeamEntry(Days, Times), NEW window \in DayEntry(Days, Times),
           NEW t \in Nat
    PROVE  LET after == NarrowByMember(entry, entry, window)
           IN  /\ after.day = entry.day
               /\ Within(after, t) <=> Within(entry, t) /\ Within(window, t)
<1> DEFINE later   == entry.startTime < window.startTime
           earlier == entry.endTime > window.endTime
           start   == IF later THEN window.startTime ELSE entry.startTime
           end     == IF earlier THEN window.endTime ELSE entry.endTime
           moved   == WindowIsValid([entry EXCEPT !.startTime = start, !.endTime = end])
           after   == NarrowByMember(entry, entry, window)
<1>1. /\ entry.startTime \in Nat /\ entry.endTime \in Nat
      /\ window.startTime \in Nat /\ window.endTime \in Nat
      /\ start \in Times /\ end \in Times
  BY TimesAreNumbers DEF TeamEntry, DayEntry
<1>2. NarrowByMember(entry, entry, window) = IF later \/ earlier THEN moved ELSE entry
  BY DEF NarrowByMember, NeedsUpdate
<1> HIDE DEF start, end
<1>3. /\ moved \in TeamEntry(Days, Times)
      /\ moved.day = entry.day
      /\ moved.startTime = start
      /\ moved.endTime = end
      /\ moved.hasAvailability <=> start < end
  BY <1>1, MovedWindowSafe
<1> USE DEF start, end
<1> HIDE DEF moved
<1>4. after.day = entry.day /\ after.startTime = start /\ after.endTime = end
  BY <1>2, <1>3
<1> HIDE DEF after
<1>5. Within(after, t) <=> Within(entry, t) /\ Within(window, t)
  BY <1>1, <1>4 DEF Within
<1> QED
  BY <1>4, <1>5 DEF after

\* An entry that stays open keeps what the new member has of it, and no more.
LEMMA MemberCommon ==
    ASSUME NEW entries \in Seq(TeamEntry(Days, Times)),
           NEW posted \in Seq(DayEntry(Days, Times)), DistinctDays(posted),
           NEW k \in DOMAIN entries, ScheduleWithMember(entries, posted)[k].hasAvailability,
           NEW t \in Nat
    PROVE  /\ ScheduleWithMember(entries, posted)[k].day = entries[k].day
           /\ Within(ScheduleWithMember(entries, posted)[k], t) <=>
                 Within(entries[k], t) /\ Free(posted, entries[k].day, t)
<1> DEFINE entry == entries[k]
           index == FindDay(posted, entry.day)
           after == ScheduleWithMember(entries, posted)[k]
<1>1. entry \in TeamEntry(Days, Times)
  BY ElementOfSeq, LenProperties
<1>2. after = IF index # 0 THEN NarrowByMember(entry, entry, posted[index])
              ELSE CloseWindow(entry)
  BY DEF ScheduleWithMember
<1>3. index # 0
  BY <1>1, <1>2, CloseWindowSafe
<1>4. index \in DOMAIN posted /\ posted[index].day = entry.day
  BY <1>3, FindDayFinds
<1>5. posted[index] \in DayEntry(Days, Times)
  BY <1>4, ElementOfSeq, LenProperties
<1>6. Free(posted, entry.day, t) <=> Within(posted[index], t)
  BY <1>4, FreeWithin
<1> HIDE DEF index, entry, after
<1>7. /\ after.day = entry.day
      /\ Within(after, t) <=> Within(entry, t) /\ Within(posted[index], t)
  BY <1>1, <1>2, <1>3, <1>5, NarrowByMemberWithin
<1> QED
  BY <1>6, <1>7 DEF after, entry

\* An entry of a team its members' posting of another day does not change.
LEMMA OwnDayElsewhere ==
    ASSUME NEW team \in Team, NEW format, NEW window \in DayEntry(Days, Times),
           NEW k \in DOMAIN team.schedule, team.schedule[k].day # window.day
    PROVE  ScheduleAfterOwnDay(team, format, window)[k] = team.schedule[k]
<1> DEFINE index == FindDay(team.schedule, window.day)
<1>1. team.schedule \in Seq(TeamEntry(Days, Times))
  BY DEF Team
<1>2. index # k
  BY <1>1, FindDayFinds
<1>3. CASE Len(team.members) > 1
  BY <1>1, <1>2, <1>3 DEF ScheduleAfterOwnDay
<1>4. CASE ~(Len(team.members) > 1)
  <2>1. OpenEntry(window) \in TeamEntry(Days, Times)
    BY OpenEntrySafe
  <2>2. Append(team.schedule, OpenEntry(window))[k] = team.schedule[k]
    BY <1>1, <2>1, AppendProperties, LenProperties
  <2> QED
    BY <1>4, <2>2 DEF ScheduleAfterOwnDay
<1> QED
  BY <1>3, <1>4

-----------------------------------------------------------------------------
(***************************************************************************)
(* Nothing is lost: an entry shown holds all the time its members have in  *)
(* common.  It is not inductive alone: the entry of a day is compared with *)
(* the first window a member posted for it, which has to be the only one;  *)
(* and an entry with no members would have any time.                       *)
(***************************************************************************)
Common(team, schedules) ==
    /\ team.members = <<>> => team.schedule = <<>>
    /\ \A k \in DOMAIN team.schedule : team.schedule[k].hasAvailability =>
          \A t \in Nat :
             Within(team.schedule[k], t) <=>
                \A m \in ToSet(team.members) : Free(schedules[m], team.schedule[k].day, t)

CommonInv ==
    /\ \A u \in Users : DistinctDays(userSchedules[u])
    /\ \A n \in TeamNames : Common(teams[n], userSchedules)

LEMMA PostScheduleCommon ==
    ASSUME AtomicInv, CommonInv, NEW u \in Users, NEW window \in DayEntry(Days, Times), NEW format,
           PostSchedule(u, window, format)
    PROVE  CommonInv'
<1> DEFINE D == window.day
<1>1. StoreTypeOK /\ WindowExact /\ NoFalseAvailability
  BY DEF AtomicInv
<1>2. /\ window.startTime < window.endTime /\ ~HasDay(userSchedules[u], D)
      /\ userSchedules' = [userSchedules EXCEPT ![u] = Append(userSchedules[u], window)]
      /\ teams' = IF userSchedules[u] = <<>> THEN teams
                  ELSE [n \in TeamNames |->
                          IF u \in Members(n)
                          THEN [teams[n] EXCEPT !.schedule =
                                   ScheduleAfterOwnDay(teams[n], format, window)]
                          ELSE teams[n]]
  BY DEF PostSchedule
<1>3. /\ userSchedules'[u] = Append(userSchedules[u], window)
      /\ \A m \in Users \ {u} : userSchedules'[m] = userSchedules[m]
      /\ userSchedules[u] \in Seq(DayEntry(Days, Times))
  BY <1>1, <1>2 DEF StoreTypeOK
<1>4. \A m \in Users : DistinctDays(userSchedules'[m])
  BY <1>2, <1>3, DistinctAppended DEF CommonInv
<1>5. \A m \in Users : \A day, t :
         m # u \/ day # D => (Free(userSchedules'[m], day, t) <=> Free(userSchedules[m], day, t))
  <2> SUFFICES ASSUME NEW day, NEW t, day # D
               PROVE  Free(userSchedules'[u], day, t) <=> Free(userSchedules[u], day, t)
    BY <1>3
  <2> QED
    BY <1>3, FreeAppended
<1>6. \A t : Free(userSchedules'[u], D, t) <=> Within(window, t)
  <2>1. \A t : ~Free(userSchedules[u], D, t)
    BY <1>2 DEF Free, HasDay
  <2> QED
    BY <1>3, <2>1, FreeAppended
<1>7. ASSUME NEW n \in TeamNames
      PROVE  Common(teams'[n], userSchedules')
  <2> DEFINE old == teams[n].schedule
  <2>1. /\ teams[n] \in Team /\ Members(n) \subseteq Users
        /\ \A k \in DOMAIN old : Exact(old[k])
        /\ Common(teams[n], userSchedules) /\ Sound(teams[n], userSchedules)
    BY <1>1, TypeFacts, SoundTeams DEF WindowExact, CommonInv
  <2>2. CASE u \notin Members(n)
    <3>1. teams'[n] = teams[n]
      BY <1>2, <2>2
    <3>2. \A m \in ToSet(teams[n].members) : userSchedules'[m] = userSchedules[m]
      BY <1>3, <2>1, <2>2 DEF Members
    <3> QED
      BY <2>1, <3>1, <3>2 DEF Common
  <2>3. CASE u \in Members(n)
    \* What is shown of the day is covered by a window the user has not posted yet.
    <3>1. \A k \in DOMAIN old : old[k].day = D => ~old[k].hasAvailability
      BY <1>2, <2>1, <2>3 DEF Sound, Covers, HasDay, Members
    <3>2. ASSUME NEW k \in DOMAIN old, old[k].hasAvailability, NEW t \in Nat
          PROVE  Within(old[k], t) <=>
                    \A m \in Members(n) : Free(userSchedules'[m], old[k].day, t)
      BY <1>5, <2>1, <3>1, <3>2 DEF Common, Members
    <3>3. CASE teams'[n] = teams[n]
      BY <2>1, <3>2, <3>3 DEF Common, Members
    <3>4. CASE teams'[n] = [teams[n] EXCEPT !.schedule =
                               ScheduleAfterOwnDay(teams[n], format, window)]
      <4> DEFINE new == ScheduleAfterOwnDay(teams[n], format, window)
      <4>1. /\ DOMAIN old \subseteq DOMAIN new
            /\ \A k \in DOMAIN new :
                 \/ k \in DOMAIN old /\ Narrows(old[k], new[k])
                 \/ /\ k \notin DOMAIN old
                    /\ Len(teams[n].members) <= 1
                    /\ new[k] = OpenEntry(window)
        BY <1>2, <2>1, OwnDayOnTeam
      <4>2. \A k \in DOMAIN old : old[k].day # D => new[k] = old[k]
        BY <2>1, OwnDayElsewhere
      <4> HIDE DEF new
      <4>3. teams'[n].schedule = new /\ teams'[n].members = teams[n].members
        BY <2>1, <3>4 DEF Team, new
      <4>4. ASSUME NEW k \in DOMAIN new, new[k].hasAvailability, NEW t \in Nat
            PROVE  Within(new[k], t) <=>
                      \A m \in Members(n) : Free(userSchedules'[m], new[k].day, t)
        <5>1. CASE k \in DOMAIN old /\ Narrows(old[k], new[k])
          <6>1. old[k].hasAvailability
            BY <4>4, <5>1 DEF Narrows
          <6>2. new[k] = old[k]
            BY <3>1, <4>2, <5>1, <6>1
          <6> QED
            BY <3>2, <5>1, <6>1, <6>2
        <5>2. CASE Len(teams[n].members) <= 1 /\ new[k] = OpenEntry(window)
          <6>1. Members(n) = {u}
            <7>1. teams[n].members \in Seq(Users)
              BY <2>1 DEF Team
            <7> QED
              BY <2>3, <5>2, <7>1, LenProperties DEF Members, ToSet
          <6>2. /\ new[k].day = D /\ new[k].startTime = window.startTime
                /\ new[k].endTime = window.endTime
            BY <5>2, OpenEntrySafe
          <6> QED
            BY <1>6, <6>1, <6>2 DEF Within
        <5> QED
          BY <4>1, <5>1, <5>2
      <4>5. teams[n].members # <<>>
        BY <2>3 DEF Members, ToSet
      <4> QED
        BY <4>3, <4>4, <4>5 DEF Common, Members
    <3> QED
      BY <1>2, <2>3, <3>3, <3>4
  <2> QED
    BY <2>2, <2>3
<1> QED
  BY <1>4, <1>7 DEF CommonInv

LEMMA PostTeamCommon ==
    ASSUME AtomicInv, CommonInv, NEW u \in Users, NEW n \in TeamNames, PostTeam(u, n)
    PROVE  CommonInv'
<1> DEFINE posted  == userSchedules[u]
           entries == InitialTeamSchedule(posted)
           team    == [creator |-> u, members |-> <<u>>, schedule |-> entries]
<1>1. /\ teams' = [teams EXCEPT ![n] = team] /\ userSchedules' = userSchedules
      /\ teams \in [TeamNames -> Team] /\ posted \in Seq(DayEntry(Days, Times))
  BY DEF PostTeam, AtomicInv, StoreTypeOK
<1>2. ASSUME NEW k \in DOMAIN entries, NEW t
      PROVE  Within(entries[k], t) <=> Free(posted, entries[k].day, t)
  <2>1. k \in DOMAIN posted /\ entries[k] = OpenEntry(posted[k])
    BY DEF InitialTeamSchedule
  <2>2. posted[k] \in DayEntry(Days, Times)
    BY <1>1, <2>1, ElementOfSeq, LenProperties
  <2>3. /\ entries[k].day = posted[k].day
        /\ entries[k].startTime = posted[k].startTime
        /\ entries[k].endTime = posted[k].endTime
    BY <2>1, <2>2, OpenEntrySafe
  <2>4. Free(posted, posted[k].day, t) <=> Within(posted[k], t)
    BY <2>1, FreeWithin DEF CommonInv
  <2> QED
    BY <2>3, <2>4 DEF Within
<1> HIDE DEF entries
<1>3. ToSet(<<u>>) = {u} /\ <<u>> # <<>>
  BY DEF ToSet
<1>4. Common(team, userSchedules)
  BY <1>2, <1>3 DEF Common
<1> HIDE DEF team
<1>5. \A t \in TeamNames : teams'[t] = IF t = n THEN team ELSE teams[t]
  BY <1>1
<1> QED
  BY <1>1, <1>4, <1>5 DEF CommonInv

LEMMA PostMemberCommon ==
    ASSUME AtomicInv, CommonInv, NEW u \in Users, NEW n \in TeamNames, NEW added \in Users,
           PostMember(u, n, added)
    PROVE  CommonInv'
<1> DEFINE old     == teams[n].schedule
           posted  == userSchedules[added]
           new     == ScheduleWithMember(old, posted)
           members == Append(teams[n].members, added)
<1>1. StoreTypeOK /\ WindowExact
  BY DEF AtomicInv
<1>2. /\ teams' = [teams EXCEPT ![n].members = members, ![n].schedule = new]
      /\ userSchedules' = userSchedules
  BY DEF PostMember
<1>3. /\ teams[n] \in Team
      /\ teams[n].members \in Seq(Users)
      /\ old \in Seq(TeamEntry(Days, Times))
      /\ posted \in Seq(DayEntry(Days, Times))
      /\ DistinctDays(posted)
      /\ Common(teams[n], userSchedules)
      /\ \A k \in DOMAIN old : Exact(old[k])
  BY <1>1, TypeFacts DEF CommonInv, WindowExact
<1>4. /\ DOMAIN new = DOMAIN old
      /\ \A k \in DOMAIN old : Narrows(old[k], new[k])
  BY <1>3, MemberOnTeam
<1>5. \A k \in DOMAIN old : new[k].hasAvailability =>
         /\ new[k].day = old[k].day
         /\ \A t \in Nat : Within(new[k], t) <=>
                              Within(old[k], t) /\ Free(posted, old[k].day, t)
  BY <1>3, MemberCommon
<1>6. ToSet(members) = ToSet(teams[n].members) \cup {added} /\ members # <<>>
  BY <1>3, AppendedMembers, AppendProperties
<1> HIDE DEF new, members
<1>7. /\ teams'[n].members = members
      /\ teams'[n].schedule = new
      /\ \A t \in TeamNames \ {n} : teams'[t] = teams[t]
  BY <1>1, <1>2, <1>3 DEF StoreTypeOK, Team
<1>8. ASSUME NEW k \in DOMAIN new, new[k].hasAvailability, NEW t \in Nat
      PROVE  Within(new[k], t) <=>
                \A m \in ToSet(members) : Free(userSchedules[m], new[k].day, t)
  <2>1. old[k].hasAvailability
    BY <1>4, <1>8 DEF Narrows
  <2>2. Within(old[k], t) <=>
           \A m \in ToSet(teams[n].members) : Free(userSchedules[m], old[k].day, t)
    BY <1>3, <1>4, <2>1 DEF Common
  <2> QED
    BY <1>4, <1>5, <1>6, <1>8, <2>2
<1>9. Common(teams'[n], userSchedules)
  BY <1>6, <1>7, <1>8 DEF Common
<1> QED
  BY <1>2, <1>7, <1>9 DEF CommonInv

(***************************************************************************)
(* An entry shown to a team is exactly the time that all of its members    *)
(* posted for the day: nothing they have in common is cut off, whatever    *)
(* order the windows were posted and narrowed in.  (WindowsAreWeights of   *)
(* TimeZones says so of the time counted as the prototype counts it.)      *)
(***************************************************************************)
ShownIsCommon ==
    \A n \in TeamNames : \A entry \in Shown(teams[n]) : \A t \in Nat :
        Within(entry, t) <=> \A m \in Members(n) : Free(userSchedules[m], entry.day, t)

\* In every reachable state the windows shown are all that members share.
THEOREM AtomicShownIsCommon == AtomicSpec => []ShownIsCommon
<1>1. AtomicInit => CommonInv
  <2> SUFFICES ASSUME AtomicInit PROVE CommonInv
    OBVIOUS
  <2>1. /\ \A u \in Users : userSchedules[u] = <<>>
        /\ \A n \in TeamNames : teams[n].members = <<>> /\ teams[n].schedule = <<>>
    BY DEF AtomicInit, NoTeam
  <2> QED
    BY <2>1 DEF CommonInv, DistinctDays, Common
<1>2. AtomicInv /\ CommonInv /\ [AtomicNext]_collections => CommonInv'
  <2> SUFFICES ASSUME AtomicInv, CommonInv, [AtomicNext]_collections PROVE CommonInv'
    OBVIOUS
  <2>1. ASSUME NEW u \in Users, NEW window \in DayEntry(Days, Times),
               NEW format \in {"iso", "ms"}, PostSchedule(u, window, format)
        PROVE  CommonInv'
    BY <2>1, PostScheduleCommon
  <2>2. ASSUME NEW u \in Users, NEW n \in TeamNames, PostTeam(u, n)
        PROVE  CommonInv'
    BY <2>2, PostTeamCommon
  <2>3. ASSUME NEW u \in Users, NEW added \in Users, NEW n \in TeamNames,
               PostMember(u, n, added)
        PROVE  CommonInv'
    BY <2>3, PostMemberCommon
  <2>4. CASE UNCHANGED collections
    BY <2>4 DEF collections, CommonInv
  <2> QED
    BY <2>1, <2>2, <2>3, <2>4 DEF AtomicNext
<1>3. CommonInv => ShownIsCommon
  BY DEF CommonInv, Common, ShownIsCommon, Shown, Members
<1>4. AtomicInit => AtomicInv
  BY AtomicInitInv
<1>5. AtomicInv /\ [AtomicNext]_collections => AtomicInv'
  BY AtomicNextInv
<1> QED
  BY <1>1, <1>2, <1>3, <1>4, <1>5, PTL DEF AtomicSpec

=============================================================================
