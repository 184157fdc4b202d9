------------------------- MODULE SlotCalendarProofs -------------------------
(***************************************************************************)
(* Proofs about SlotCalendar for every set of jobs and of configurations,  *)
(* every length of the hours and the day, every jitter and lateness, and   *)
(* every bound on stops, crashes, reconfigurations and failed writes.      *)
(*                                                                         *)
(* IInv carries the safety: a served slot that is not yet too old is still *)
(* in the state as started, so that no planning finds it absent; and a     *)
(* slot planned under the present configuration fits it, so that two slots *)
(* of one base time cannot be a quota refresh and a prewarm.  Serving, on  *)
(* top of it, follows every base time from its callback or the bootstrap   *)
(* to its claim; with at most one failed write it has one way left.        *)
(***************************************************************************)
EXTENDS SlotCalendar, FiniteSetTheorems, WellFoundedInduction, TLAPS

-----------------------------------------------------------------------------
(* The inductive invariant.                                                *)

AllSlots == [job : Job, base : Time]

(* Whether planSlot could have made the slot under a configuration. *)
FitsIn(c, s) ==
  /\ s.job \in Scheduled(c) /\ IsBase(Schedule(c, s.job), s.base)
  /\ s.job = Quota => ~Covered(c, s.base)

(* What was served and could be planned again is known to be started. *)
ServedIsStarted == \A s \in served : s.base >= now - MaxAge => s \in started

(* The cron has callbacks for the configured jobs only. *)
CallsConfigured == \A job \in calls : job \in Scheduled(cfg)

(* The slots that can be claimed, and those just served, fit. *)
SlotsFit ==
  \A s \in (DOMAIN planned \cup started) \ stale :
    s.base >= now - MaxLate => FitsIn(cfg, s)

IInv == TypeOK /\ ServedIsStarted /\ CallsConfigured /\ SlotsFit /\ OneQueryPerBase

-----------------------------------------------------------------------------
(* The first and the last of a set of times.                               *)

LEMMA Least ==
  ASSUME NEW S \in SUBSET Nat, S # {}
  PROVE  \E x \in S : \A y \in S : x <= y
<1> DEFINE less == OpToRel(<, Nat)
<1>1. \E x \in S : \A y \in S : <<y, x>> \notin less
  BY NatLessThanWellFounded, WFMin, Zenon
<1>2. \A x, y \in Nat : y < x => <<y, x>> \in less
  BY Zenon DEF OpToRel
<1> HIDE DEF less
<1>3. PICK x \in S : \A y \in S : <<y, x>> \notin less BY <1>1
<1>4. ASSUME NEW y \in S PROVE x <= y
  <2>1. x \in Nat /\ y \in Nat /\ ~(y < x) BY <1>2, <1>3
  <2> QED BY <2>1
<1> QED BY <1>4

LEMMA FirstIs ==
  ASSUME NEW S \in SUBSET Nat
  PROVE  IF S = {} THEN FirstOf(S) = None
                   ELSE FirstOf(S) \in S /\ \A y \in S : FirstOf(S) <= y
<1>1. CASE S = {} BY <1>1 DEF FirstOf
<1>2. CASE S # {}
  <2>1. \E x \in S : \A y \in S : x =< y BY <1>2, Least
  <2>2. Min(S) \in S /\ \A y \in S : Min(S) =< y BY <2>1, Zenon DEF Min
  <2> QED BY <1>2, <2>2 DEF FirstOf
<1> QED BY <1>1, <1>2

LEMMA LastIs ==
  ASSUME NEW t \in Nat, NEW S \in SUBSET (0..t)
  PROVE  IF S = {} THEN LastOf(S) = None
                   ELSE LastOf(S) \in S /\ \A y \in S : y <= LastOf(S)
<1>1. CASE S = {} BY <1>1 DEF LastOf
<1>2. CASE S # {}
  <2> DEFINE R == {t - x : x \in S}
  <2>1. \A x \in S : x \in Nat /\ t - x \in Nat OBVIOUS
  <2>2. R \subseteq Nat BY <2>1
  <2>3. R # {} BY <1>2
  <2>4. PICK r \in R : \A y \in R : r <= y BY <2>2, <2>3, Least
  <2>5. PICK x \in S : r = t - x OBVIOUS
  <2>6. ASSUME NEW y \in S PROVE x >= y
    <3>1. t - y \in R OBVIOUS
    <3>2. t - x <= t - y BY <2>4, <2>5, <3>1
    <3> QED BY <2>1, <3>2
  <2>7. \E z \in S : \A y \in S : z >= y BY <2>6
  <2>8. Max(S) \in S /\ \A y \in S : Max(S) >= y BY <2>7, Zenon DEF Max
  <2>9. Max(S) \in Nat BY <2>1, <2>8
  <2> QED BY <1>2, <2>1, <2>8, <2>9 DEF LastOf
<1> QED BY <1>1, <1>2

-----------------------------------------------------------------------------
(* The calendar.                                                           *)

LEMMA Positive ==
  /\ Hour \in Nat \ {0} /\ DayLength \in Nat \ {0} /\ MaxTime \in Nat
  /\ MaxJitter \in Int /\ MaxLate \in Int /\ MaxAge \in Int
  /\ MaxLate < MaxAge /\ MaxFailures \in Nat /\ MaxUpsets \in Nat
BY CalendarAssumption

(* Every day has the same times of day. *)
LEMMA NextDay ==
  ASSUME NEW t \in Nat
  PROVE  /\ (t + DayLength) % DayLength = t % DayLength
         /\ (t + DayLength) % Hour = t % Hour
<1>1. (t + DayLength) % DayLength = t % DayLength
  <2> DEFINE q == t \div DayLength  h == t % DayLength
  <2>1. t = DayLength * q + h /\ q \in Nat /\ h \in 0..(DayLength - 1)
    BY Positive, SMT
  <2>2. t + DayLength = DayLength * (q + 1) + h BY <2>1, Positive, SMT
  <2>3. q + 1 \in Nat BY <2>1
  <2> HIDE DEF q, h
  <2>4. \A m \in Nat : (DayLength * m + h) % DayLength = h
    BY <2>1, Positive, SMT
  <2>5. (DayLength * (q + 1) + h) % DayLength = h BY <2>3, <2>4
  <2> QED BY <2>2, <2>5 DEF h
<1>2. (t + DayLength) % Hour = t % Hour
  <2> DEFINE q == t \div Hour  h == t % Hour
  <2>1. t = Hour * q + h /\ q \in Nat /\ h \in 0..(Hour - 1)
    BY Positive, SMT
  <2>2. DayLength = (LastHour + 1) * Hour BY CalendarAssumption
  <2>3. LastHour + 1 \in Nat BY CalendarAssumption
  <2>4. PICK k \in Nat : DayLength = Hour * k
    BY <2>2, <2>3, Positive, SMT
  <2>5. t + DayLength = Hour * (q + k) + h BY <2>1, <2>4, Positive, SMT
  <2>6. q + k \in Nat BY <2>1, <2>4
  <2> HIDE DEF q, h
  <2>7. \A m \in Nat : (Hour * m + h) % Hour = h BY <2>1, Positive, SMT
  <2>8. (Hour * (q + k) + h) % Hour = h BY <2>6, <2>7
  <2> QED BY <2>5, <2>8 DEF h
<1> QED BY <1>1, <1>2

LEMMA EveryDay ==
  ASSUME NEW t \in Nat, NEW schedule
  PROVE  IsBase(schedule, t + DayLength) <=> IsBase(schedule, t)
BY NextDay DEF IsBase, HourOf

(* The first base time after t. *)
LEMMA NextIs ==
  ASSUME NEW schedule, NEW t \in Int, t >= -1
  PROVE  LET n == Next(schedule, t) IN
           /\ \/ n = None
              \/ n \in Nat /\ t < n /\ n <= t + DayLength /\ IsBase(schedule, n)
           /\ \A b \in (t + 1)..(t + DayLength) :
                IsBase(schedule, b) => n # None /\ n <= b
<1> DEFINE S == Bases(schedule, t + 1, t + DayLength)
<1>1. S = {b \in (t + 1)..(t + DayLength) : IsBase(schedule, b)} BY DEF Bases
<1>2. S \subseteq Nat BY <1>1, Positive
<1>3. Next(schedule, t) = FirstOf(S) BY DEF Next
<1> HIDE DEF S
<1>4. CASE S = {}
  BY <1>1, <1>2, <1>3, <1>4, FirstIs
<1>5. CASE S # {}
  <2>1. Next(schedule, t) \in S /\ \A y \in S : Next(schedule, t) <= y
    BY <1>2, <1>3, <1>5, FirstIs
  <2> QED BY <1>1, <1>2, <2>1, Positive DEF None
<1> QED BY <1>4, <1>5

(* The last base time of the past day, or of the present minute. *)
LEMMA LatestIs ==
  ASSUME NEW schedule, NEW t \in Nat
  PROVE  LET n == Latest(schedule, t) IN
           /\ n = None \/ (n \in Nat /\ n <= t /\ IsBase(schedule, n))
           /\ \A b \in 0..t : IsBase(schedule, b) /\ t - b < DayLength =>
                n # None /\ b <= n
<1> DEFINE from == Max({0, t - DayLength - Hour + 1})
           S == Bases(schedule, from, t)
<1>1. from \in Nat /\ \A b \in 0..t : t - b < DayLength => from <= b
  <2> DEFINE u == t - DayLength - Hour + 1
  <2>1. u \in Int BY Positive
  <2>2. \E x \in {0, u} : \A y \in {0, u} : x >= y
    <3>1. CASE u <= 0 BY <2>1, <3>1
    <3>2. CASE u > 0 BY <2>1, <3>2
    <3> QED BY <2>1, <3>1, <3>2
  <2> HIDE DEF u
  <2>3. Max({0, u}) \in {0, u} /\ \A y \in {0, u} : Max({0, u}) >= y
    BY <2>2, Zenon DEF Max
  <2>4. \A b \in 0..t : t - b < DayLength => u <= b /\ 0 <= b BY Positive DEF u
  <2>5. Max({0, u}) = from BY DEF u
  <2> HIDE DEF from
  <2> QED BY <2>1, <2>3, <2>4, <2>5
<1>2. S = {b \in from..t : IsBase(schedule, b)} BY DEF Bases
<1>3. Latest(schedule, t) = LastOf(S) BY DEF Latest
<1> HIDE DEF from, S
<1>4. S \in SUBSET (0..t) BY <1>1, <1>2
<1>5. \A b \in 0..t : IsBase(schedule, b) /\ t - b < DayLength => b \in S
  BY <1>1, <1>2
<1>6. CASE S = {} BY <1>3, <1>4, <1>5, <1>6, LastIs
<1>7. CASE S # {}
  <2>1. Latest(schedule, t) \in S /\ \A y \in S : y <= Latest(schedule, t)
    BY <1>3, <1>4, <1>7, LastIs
  <2> QED BY <1>2, <1>4, <1>5, <2>1 DEF None
<1> QED BY <1>6, <1>7

LEMMA CoveredIs ==
  ASSUME NEW c, NEW b \in Nat
  PROVE  Covered(c, b) <=>
           c.automatic /\ \E job \in DOMAIN c.jobs : IsBase(c.jobs[job], b)
<1>1. ASSUME NEW schedule
      PROVE  Next(schedule, b - 1) = b <=> IsBase(schedule, b)
  <2>1. b - 1 \in Int /\ b - 1 >= -1 /\ b \in ((b - 1) + 1)..((b - 1) + DayLength)
    BY Positive
  <2>2. b # None BY DEF None
  <2> QED BY <2>1, <2>2, NextIs
<1> QED BY <1>1 DEF Covered

LEMMA CoveredEveryDay ==
  ASSUME NEW c, NEW b \in Nat
  PROVE  Covered(c, b + DayLength) <=> Covered(c, b)
<1>1. b + DayLength \in Nat BY Positive
<1> QED BY <1>1, CoveredIs, EveryDay

-----------------------------------------------------------------------------
(* Planning.                                                               *)

(* A quota slot moves on to a base time that no prewarm covers. *)
LEMMA AdvancedQuota ==
  ASSUME NEW c, NEW base \in Nat
  PROVE  LET r == Advanced(c, Quota, base) IN
           \/ r = None
           \/ /\ r \in base..(base + DayLength)
              /\ IsBase(c.quota, r) /\ ~Covered(c, r)
              /\ \A b \in base..r : IsBase(c.quota, b) /\ ~Covered(c, b) => r <= b
<1> DEFINE bases == Bases(Schedule(c, Quota), base, base + DayLength)
           free  == {t \in bases : ~Covered(c, t)}
           next  == FirstOf(free)
<1>1. bases = {t \in base..(base + DayLength) : IsBase(c.quota, t)}
  BY DEF Bases, Schedule
<1>2. free \in SUBSET Nat BY <1>1, Positive
<1>3. base # None BY DEF None
<1>4. Advanced(c, Quota, base) \in {next, None}
  BY <1>3 DEF Advanced
<1> HIDE DEF free
<1>5. CASE free = {} BY <1>2, <1>4, <1>5, FirstIs
<1>6. CASE free # {}
  <2>1. next \in free /\ \A y \in free : next <= y BY <1>2, <1>6, FirstIs
  <2>2. free = {t \in base..(base + DayLength) :
                  IsBase(c.quota, t) /\ ~Covered(c, t)}
    BY <1>1 DEF free
  <2>3. next \in Nat BY <1>2, <2>1
  <2> QED BY <1>4, <2>1, <2>2, <2>3, Positive
<1> QED BY <1>5, <1>6

(* One of them is among the base times of the next day. *)
LEMMA AdvancedInADay ==
  ASSUME NEW c, NEW t \in Nat, Next(c.quota, t) # None
  PROVE  LET r == Advanced(c, Quota, Next(c.quota, t)) IN
           r = None \/ r <= t + DayLength
<1> DEFINE base == Next(c.quota, t)
           r    == Advanced(c, Quota, base)
<1>1. /\ base \in Nat /\ t < base /\ base <= t + DayLength
      /\ \A b \in (t + 1)..(t + DayLength) : IsBase(c.quota, b) => base <= b
  BY NextIs, Positive
<1> HIDE DEF base
<1>2. SUFFICES ASSUME r # None, r > t + DayLength PROVE FALSE
  <2>1. r = None \/ r \in base..(base + DayLength) BY <1>1, AdvancedQuota
  <2>2. r = None \/ r <= t + DayLength BY <1>1, <1>2, <2>1, Positive
  <2> QED BY <2>2 DEF base
<1>3. /\ r \in base..(base + DayLength) /\ IsBase(c.quota, r) /\ ~Covered(c, r)
      /\ \A b \in base..r : IsBase(c.quota, b) /\ ~Covered(c, b) => r <= b
  BY <1>1, <1>2, AdvancedQuota
<1> HIDE DEF r
<1> DEFINE d == r - DayLength
<1>4. d \in Nat /\ d + DayLength = r /\ d > t /\ d <= base
  BY <1>1, <1>2, <1>3, Positive
<1> HIDE DEF d
<1>5. IsBase(c.quota, d) /\ ~Covered(c, d)
  BY <1>3, <1>4, EveryDay, CoveredEveryDay
<1>6. d \in (t + 1)..(t + DayLength) BY <1>1, <1>4, Positive
<1>7. d = base BY <1>1, <1>4, <1>5, <1>6
<1>8. d \in base..r BY <1>3, <1>4, <1>7, Positive
<1>9. r <= d BY <1>3, <1>5, <1>8
<1> QED BY <1>4, <1>9, Positive

(* What is planned for a base time is a slot of the configuration. *)
LEMMA WantedFits ==
  ASSUME NEW c \in Candidates, NEW job \in Scheduled(c), NEW t \in 0..MaxTime,
         NEW base \in {Next(Schedule(c, job), t), Latest(Schedule(c, job), t)},
         NEW s \in Wanted(c, job, base)
  PROVE  s \in AllSlots /\ FitsIn(c, s)
<1> DEFINE b == Advanced(c, job, base)
<1>1. b # None /\ s = Slot(job, b) BY DEF Wanted
<1>2. s.job = job /\ s.base = b BY <1>1 DEF Slot
<1>3. job \in Job BY CalendarAssumption DEF Scheduled, Job
<1>4. t \in Nat /\ t <= MaxTime BY Positive
<1>5. \/ base = None
      \/ base \in Nat /\ base <= t + DayLength /\ IsBase(Schedule(c, job), base)
  BY <1>4, NextIs, LatestIs, Positive
<1>6. base # None BY <1>1 DEF Advanced
<1>7. b \in Time => s \in AllSlots BY <1>1, <1>3 DEF AllSlots, Slot
<1>8. CASE job # Quota
  <2>1. b = base BY <1>8 DEF Advanced
  <2>2. b \in Time BY <1>4, <1>5, <1>6, <2>1, CalendarAssumption, Positive DEF Time
  <2> QED BY <1>2, <1>5, <1>6, <1>7, <1>8, <2>1, <2>2 DEF FitsIn
<1>9. CASE job = Quota
  <2>1. Schedule(c, job) = c.quota BY <1>9 DEF Schedule
  <2>2. b \in base..(base + DayLength) /\ IsBase(c.quota, b) /\ ~Covered(c, b)
    BY <1>1, <1>5, <1>6, <1>9, AdvancedQuota
  <2>3. b <= t + DayLength
    <3>1. CASE base = Next(Schedule(c, job), t)
      BY <1>1, <1>4, <1>6, <1>9, <2>1, <3>1, AdvancedInADay
    <3>2. CASE base = Latest(Schedule(c, job), t)
      BY <1>4, <1>6, <2>2, <3>2, LatestIs, Positive
    <3> QED BY <3>1, <3>2
  <2>4. b \in Time
    BY <1>4, <1>5, <1>6, <2>2, <2>3, CalendarAssumption, Positive DEF Time
  <2> QED BY <1>2, <1>7, <1>9, <2>1, <2>2, <2>4 DEF FitsIn
<1> QED BY <1>8, <1>9

LEMMA FiniteSlots ==
  ASSUME NEW lost \in SUBSET AllSlots
  PROVE  IsFiniteSet(lost) /\ Cardinality(lost) \in Nat
<1>1. IsFiniteSet(Job) BY CalendarAssumption, FS_AddElement DEF Job
<1>2. IsFiniteSet(Time)
  BY FS_Interval, CalendarAssumption, Positive DEF Time
<1>3. IsFiniteSet(Job \X Time) BY <1>1, <1>2, FS_Product
<1> DEFINE f == [p \in Job \X Time |-> Slot(p[1], p[2])]
<1>4. f \in Surjection(Job \X Time, AllSlots)
  <2>1. ASSUME NEW s \in AllSlots PROVE \E p \in Job \X Time : f[p] = s
    <3>1. <<s.job, s.base>> \in Job \X Time BY DEF AllSlots
    <3>2. s = Slot(s.job, s.base) BY DEF AllSlots, Slot
    <3> QED BY <3>1, <3>2
  <2>2. f \in [Job \X Time -> AllSlots] BY DEF AllSlots, Slot
  <2> QED BY <2>1, <2>2 DEF Surjection
<1>5. IsFiniteSet(AllSlots) BY <1>3, <1>4, FS_Surjection
<1> QED BY <1>5, FS_Subset, FS_CardinalityType

(* What planSlot makes of the slots: the old ones may go, and a wanted one  *)
(* is there afterwards unless its write failed.                            *)
PlannedFrom(wanted, waiting, begun) ==
  /\ DOMAIN planned' \subseteq DOMAIN waiting \cup wanted
  /\ started' \subseteq begun
  /\ DOMAIN planned' \cap begun \subseteq DOMAIN waiting
  /\ \A s \in DOMAIN waiting : s.base >= now - MaxAge => s \in DOMAIN planned'
  /\ \A s \in begun : s.base >= now - MaxAge => s \in started'
  /\ failures <= failures'
  /\ failures' = failures =>
       \A s \in wanted : s.base >= now - MaxAge => s \in DOMAIN planned' \cup begun

(* The due times of slots. *)
DueTimes(waiting) ==
  \A s \in DOMAIN waiting : waiting[s] \in s.base..(s.base + MaxJitter)

LEMMA JoinedIs ==
  ASSUME NEW f, NEW g
  PROVE  /\ DOMAIN Joined(f, g) = DOMAIN f \cup DOMAIN g
         /\ \A s \in DOMAIN f : Joined(f, g)[s] = f[s]
         /\ \A s \in DOMAIN g \ DOMAIN f : Joined(f, g)[s] = g[s]
BY DEF Joined

(* Planning adds wanted slots only, and drops only what is too old. *)
LEMMA PlanAllIs ==
  ASSUME NEW wanted \in SUBSET AllSlots, NEW waiting, NEW begun,
         DOMAIN waiting \subseteq AllSlots, begun \subseteq AllSlots,
         DOMAIN waiting \cap begun = {}, DueTimes(waiting),
         failures \in 0..MaxFailures, now \in Nat,
         PlanAll(wanted, waiting, begun)
  PROVE  /\ PlannedFrom(wanted, waiting, begun)
         /\ DOMAIN planned' \cap started' = {}
         /\ DueTimes(planned)'
         /\ failures' \in 0..MaxFailures
<1> DEFINE new == Absent(wanted, waiting, begun)
<1> DEFINE Planned(lost, jitter) ==
      LET due == [s \in new \ lost |-> s.base + jitter[s]]
          all == Joined(waiting, due)
      IN  /\ WritesFail(Cardinality(lost))
          /\ IF new = {}
             THEN planned' = waiting /\ started' = begun
             ELSE planned' = Restrict(all, Recent(DOMAIN all)) /\ started' = Recent(begun)
<1>0. PICK lost \in SUBSET new :
        \E jitter \in [new \ lost -> 0..MaxJitter] : Planned(lost, jitter)
  BY Zenon DEF PlanAll
<1>1. PICK jitter \in [new \ lost -> 0..MaxJitter] : Planned(lost, jitter)
  BY <1>0
<1> DEFINE due == [s \in new \ lost |-> s.base + jitter[s]]
           all == Joined(waiting, due)
<1>2. new \subseteq wanted /\ new \cap (DOMAIN waiting \cup begun) = {}
  BY DEF Absent
<1>3. /\ failures' \in 0..MaxFailures /\ failures <= failures'
      /\ failures' = failures => lost = {}
  <2>1. Cardinality(lost) \in Nat /\ IsFiniteSet(lost) BY <1>2, FiniteSlots
  <2>2. WritesFail(Cardinality(lost)) BY <1>1
  <2>3. failures' = failures + Cardinality(lost) /\ failures + Cardinality(lost) <= MaxFailures
    BY <2>2 DEF WritesFail
  <2>4. failures' = failures => Cardinality(lost) = 0 BY <2>1, <2>3
  <2> QED BY <2>1, <2>3, <2>4, FS_EmptySet, Positive
<1>4. CASE new = {}
  <2>1. planned' = waiting /\ started' = begun BY <1>1, <1>4
  <2>2. wanted \subseteq DOMAIN waiting \cup begun BY <1>4 DEF Absent
  <2> HIDE DEF new
  <2> QED BY <1>3, <2>1, <2>2 DEF DueTimes, PlannedFrom
<1>5. CASE new # {}
  <2>1. planned' = Restrict(all, Recent(DOMAIN all)) /\ started' = Recent(begun)
    BY <1>1, <1>5
  <2>2. DOMAIN due = new \ lost OBVIOUS
  <2>20. wanted \subseteq DOMAIN waiting \cup begun \cup new BY DEF Absent
  <2>3. ASSUME NEW s \in new \ lost
        PROVE  due[s] \in s.base..(s.base + MaxJitter)
    <3>1. s.base \in Nat BY <1>2 DEF AllSlots, Time
    <3>2. jitter[s] \in 0..MaxJitter OBVIOUS
    <3>3. due[s] = s.base + jitter[s] OBVIOUS
    <3> QED BY <3>1, <3>2, <3>3, Positive
  <2> HIDE DEF new, due
  <2>4. /\ DOMAIN all = DOMAIN waiting \cup (new \ lost)
        /\ \A s \in DOMAIN waiting : all[s] = waiting[s]
        /\ \A s \in new \ lost : all[s] = due[s]
    <3>1. /\ DOMAIN all = DOMAIN waiting \cup DOMAIN due
          /\ \A s \in DOMAIN waiting : all[s] = waiting[s]
          /\ \A s \in DOMAIN due \ DOMAIN waiting : all[s] = due[s]
      BY JoinedIs
    <3> HIDE DEF all
    <3>2. \A s \in new \ lost : s \in DOMAIN due \ DOMAIN waiting BY <1>2, <2>2
    <3> QED BY <2>2, <3>1, <3>2
  <2> HIDE DEF all
  <2>5. /\ DOMAIN planned' = Recent(DOMAIN all)
        /\ \A s \in Recent(DOMAIN all) : planned'[s] = all[s]
    BY <2>1 DEF Restrict
  <2>6. Recent(DOMAIN all) \subseteq DOMAIN all BY DEF Recent
  <2>7. DOMAIN planned' \subseteq DOMAIN waiting \cup (new \ lost)
    BY <2>4, <2>5, <2>6
  <2>8. started' \subseteq begun /\ \A s \in begun : s.base >= now - MaxAge => s \in started'
    BY <2>1 DEF Recent
  <2>9. ASSUME NEW s \in DOMAIN planned'
        PROVE  planned'[s] \in s.base..(s.base + MaxJitter)
    <3>1. planned'[s] = all[s] BY <2>5
    <3>2. CASE s \in DOMAIN waiting BY <2>4, <3>1, <3>2 DEF DueTimes
    <3>3. CASE s \in new \ lost BY <2>3, <2>4, <3>1, <3>3
    <3> QED BY <2>7, <3>2, <3>3
  <2>10. DOMAIN planned' \cap started' = {} BY <1>2, <2>7, <2>8
  <2>11. \A s \in DOMAIN all : s.base >= now - MaxAge => s \in DOMAIN planned'
    BY <2>5 DEF Recent
  <2>12. \A s \in DOMAIN waiting : s.base >= now - MaxAge => s \in DOMAIN planned'
    BY <2>4, <2>11
  <2>13. failures' = failures =>
           \A s \in wanted : s.base >= now - MaxAge => s \in DOMAIN planned' \cup begun
    BY <1>3, <2>4, <2>11, <2>20
  <2>14. DOMAIN planned' \cap begun \subseteq DOMAIN waiting BY <1>2, <2>7
  <2>15. DOMAIN planned' \subseteq DOMAIN waiting \cup wanted BY <1>2, <2>7
  <2>16. PlannedFrom(wanted, waiting, begun)
    BY <1>3, <2>8, <2>12, <2>13, <2>14, <2>15 DEF PlannedFrom
  <2>17. DueTimes(planned)' BY <2>9 DEF DueTimes
  <2> QED BY <1>3, <2>10, <2>16, <2>17
<1> QED BY <1>4, <1>5

-----------------------------------------------------------------------------
(* Each step keeps the invariant.                                          *)

(* A quota refresh and a prewarm that fit have different base times. *)
LEMMA FitsApart ==
  ASSUME NEW c, NEW s \in AllSlots, NEW t \in AllSlots,
         FitsIn(c, s), FitsIn(c, t), s.job = Quota, t.job # Quota
  PROVE  s.base # t.base
<1>1. s.base \in Nat BY DEF AllSlots, Time
<1>2. ~Covered(c, s.base) BY DEF FitsIn
<1>3. /\ t.job \in Scheduled(c) /\ IsBase(c.jobs[t.job], t.base)
  BY DEF FitsIn, Schedule
<1>4. c.automatic /\ t.job \in DOMAIN c.jobs BY <1>3 DEF Scheduled
<1> QED BY <1>1, <1>2, <1>3, <1>4, CoveredIs

LEMMA SlotTypes ==
  ASSUME TypeOK
  PROVE  /\ now \in 0..MaxTime /\ now \in Nat /\ failures \in 0..MaxFailures
         /\ cfg \in Candidates
         /\ DOMAIN planned \cap started = {} /\ DueTimes(planned)
         /\ DOMAIN planned \subseteq AllSlots /\ started \subseteq AllSlots
         /\ served \subseteq AllSlots /\ stale \subseteq AllSlots
         /\ \A s \in AllSlots : s.base \in Nat
         /\ claimed \subseteq served
BY Positive DEF TypeOK, AllSlots, DueTimes, Time

LEMMA IInvInit == Init => IInv
<1> SUFFICES ASSUME Init PROVE IInv OBVIOUS
<1>1. now \in 0..MaxTime BY CalendarAssumption DEF Init
<1>2. age \in 0..Grown BY CalendarAssumption, Positive DEF Init, Grown
<1>3. cfg \in Candidates /\ Valid(cfg) BY DEF Init
<1>4. DOMAIN planned = {} /\ started = {} /\ served = {} /\ stale = {}
  BY DEF Init
<1>5. upsets \in 0..MaxUpsets /\ failures \in 0..MaxFailures
  BY Positive DEF Init
<1>6. TypeOK
  BY <1>1, <1>2, <1>3, <1>4, <1>5 DEF Init, TypeOK
<1> QED
  BY <1>4, <1>6
  DEF Init, IInv, ServedIsStarted, CallsConfigured, SlotsFit, OneQueryPerBase

(* What a planning under a configuration c leaves to show. *)
LEMMA PlanningKeeps ==
  ASSUME IInv, NEW c \in Candidates, NEW wanted, NEW waiting, NEW begun,
         \A s \in wanted : s \in AllSlots /\ FitsIn(c, s),
         DOMAIN waiting \subseteq AllSlots, begun \subseteq AllSlots,
         DOMAIN waiting \cap begun = {}, DueTimes(waiting),
         PlanAll(wanted, waiting, begun),
         now' = now, cfg' = c,
         served' \subseteq AllSlots, stale' \subseteq AllSlots,
         \A s \in served' : s.base >= now - MaxAge => s \in begun,
         \A s \in (DOMAIN waiting \cup begun) \ stale' :
           s.base >= now - MaxLate => FitsIn(c, s)
  PROVE  /\ DOMAIN planned' \cap started' = {}
         /\ DueTimes(planned)'
         /\ DOMAIN planned' \cup started' \cup served' \cup stale' \subseteq AllSlots
         /\ failures' \in 0..MaxFailures
         /\ ServedIsStarted' /\ SlotsFit'
         /\ PlannedFrom(wanted, waiting, begun)
<1>1. wanted \in SUBSET AllSlots /\ failures \in 0..MaxFailures /\ now \in Nat
  BY SlotTypes DEF IInv
<1>2. /\ PlannedFrom(wanted, waiting, begun)
      /\ DOMAIN planned' \cap started' = {}
      /\ DueTimes(planned)'
      /\ failures' \in 0..MaxFailures
  BY <1>1, PlanAllIs
<1> USE DEF PlannedFrom
<1>3. ServedIsStarted' BY <1>2 DEF ServedIsStarted
<1>4. SlotsFit'
  <2> SUFFICES ASSUME NEW s \in (DOMAIN planned' \cup started') \ stale',
                      s.base >= now - MaxLate
               PROVE  FitsIn(c, s)
    BY DEF SlotsFit
  <2>1. s \in (DOMAIN waiting \cup begun) \ stale' \/ s \in wanted BY <1>2
  <2> QED BY <2>1
<1> QED BY <1>1, <1>2, <1>3, <1>4

(* The slots that a stop puts back. *)
LEMMA PutBackIs ==
  ASSUME TypeOK, NEW S
  PROVE  /\ DOMAIN PutBack(S) = DOMAIN planned \cup (S \cap started)
         /\ DueTimes(PutBack(S))
<1> DEFINE back == [s \in S \cap started |-> s.base]
<1>1. DOMAIN back = S \cap started /\ \A s \in S \cap started : back[s] = s.base
  OBVIOUS
<1>2. PutBack(S) = Joined(planned, back) BY DEF PutBack
<1> HIDE DEF back
<1>3. /\ DOMAIN PutBack(S) = DOMAIN planned \cup (S \cap started)
      /\ \A s \in DOMAIN planned : PutBack(S)[s] = planned[s]
      /\ \A s \in (S \cap started) \ DOMAIN planned : PutBack(S)[s] = s.base
  <2> DEFINE joined == Joined(planned, back)
  <2>1. /\ DOMAIN joined = DOMAIN planned \cup DOMAIN back
        /\ \A s \in DOMAIN planned : joined[s] = planned[s]
        /\ \A s \in DOMAIN back \ DOMAIN planned : joined[s] = back[s]
    BY JoinedIs
  <2>2. PutBack(S) = joined BY <1>2
  <2> HIDE DEF joined
  <2> QED BY <1>1, <2>1, <2>2
<1>4. \A s \in S \cap started : s.base \in Nat BY SlotTypes
<1>5. \A s \in S \cap started : s.base \in s.base..(s.base + MaxJitter)
  BY <1>4, CalendarAssumption
<1>6. DueTimes(planned) BY SlotTypes
<1> QED BY <1>3, <1>5, <1>6 DEF DueTimes

LEMMA BootstrapFits ==
  ASSUME NEW c \in Candidates, now \in 0..MaxTime, NEW s \in Bootstrap(c)
  PROVE  s \in AllSlots /\ FitsIn(c, s)
<1>1. PICK job \in Scheduled(c) :
        s \in CatchUp(c, job) \cup Wanted(c, job, Next(Schedule(c, job), now))
  BY DEF Bootstrap
<1>2. \/ s \in Wanted(c, job, Latest(Schedule(c, job), now))
      \/ s \in Wanted(c, job, Next(Schedule(c, job), now))
  BY <1>1 DEF CatchUp
<1> QED BY <1>2, WantedFits

LEMMA StartKeeps ==
  ASSUME IInv, Start
  PROVE  IInv' /\ PlannedFrom(Bootstrap(cfg), planned, started)
<1>1. TypeOK /\ UNCHANGED <<now, cfg, claimed, served, stale, upsets>>
  BY DEF IInv, Start
<1>2. PlanAll(Bootstrap(cfg), planned, started) /\ calls' = {}
      /\ up' = TRUE /\ age' = 0 /\ passed' = FALSE
  BY DEF Start, Install
<1>3. \A s \in Bootstrap(cfg) : s \in AllSlots /\ FitsIn(cfg, s)
  BY <1>1, SlotTypes, BootstrapFits
<1>4. /\ DOMAIN planned' \cap started' = {}
      /\ DueTimes(planned)'
      /\ DOMAIN planned' \cup started' \cup served' \cup stale' \subseteq AllSlots
      /\ failures' \in 0..MaxFailures
      /\ ServedIsStarted' /\ SlotsFit'
      /\ PlannedFrom(Bootstrap(cfg), planned, started)
  BY <1>1, <1>2, <1>3, SlotTypes, PlanningKeeps DEF IInv, ServedIsStarted, SlotsFit
<1>5. age' \in 0..Grown BY <1>2, CalendarAssumption DEF Grown
<1>6. TypeOK' BY <1>1, <1>2, <1>4, <1>5 DEF TypeOK, DueTimes, AllSlots
<1> QED
  BY <1>1, <1>2, <1>4, <1>6 DEF IInv, CallsConfigured, OneQueryPerBase

LEMMA CallbackKeeps ==
  ASSUME IInv, NEW job \in Job, Callback(job)
  PROVE  IInv' /\ PlannedFrom(CallbackPlans(job), planned, started)
<1>1. TypeOK /\ UNCHANGED <<now, up, cfg, claimed, passed, age, served, stale, upsets>>
  BY DEF IInv, Callback
<1>2. job \in Scheduled(cfg) BY DEF IInv, CallsConfigured, Callback
<1>3. PlanAll(CallbackPlans(job), planned, started) /\ calls' = calls \ {job}
  BY DEF Callback
<1>4. \A s \in CallbackPlans(job) : s \in AllSlots /\ FitsIn(cfg, s)
  BY <1>1, <1>2, SlotTypes, WantedFits DEF CallbackPlans
<1>5. /\ DOMAIN planned' \cap started' = {}
      /\ DueTimes(planned)'
      /\ DOMAIN planned' \cup started' \cup served' \cup stale' \subseteq AllSlots
      /\ failures' \in 0..MaxFailures
      /\ ServedIsStarted' /\ SlotsFit'
      /\ PlannedFrom(CallbackPlans(job), planned, started)
  BY <1>1, <1>3, <1>4, SlotTypes, PlanningKeeps DEF IInv, ServedIsStarted, SlotsFit
<1>6. TypeOK' BY <1>1, <1>3, <1>5 DEF TypeOK, DueTimes, AllSlots
<1> QED
  BY <1>1, <1>3, <1>5, <1>6 DEF IInv, CallsConfigured, OneQueryPerBase

(* A due slot was not served before. *)
LEMMA DueUnserved ==
  ASSUME IInv, NEW s \in Due
  PROVE  /\ s \in DOMAIN planned /\ s.base <= now /\ s.base >= now - MaxLate
         /\ s.job \in Scheduled(cfg)
         /\ s \notin served
<1>1. /\ s \in DOMAIN planned /\ planned[s] <= now /\ now - s.base <= MaxLate
      /\ s.job \in Scheduled(cfg)
  BY DEF Due, Claimable
<1>2. s.base \in Nat /\ now \in Nat /\ planned[s] \in s.base..(s.base + MaxJitter)
  BY <1>1, SlotTypes DEF IInv, DueTimes
<1>3. s.base <= now /\ s.base >= now - MaxLate /\ s.base >= now - MaxAge
  BY <1>1, <1>2, Positive
<1>4. s \notin started BY <1>1, SlotTypes DEF IInv
<1> QED BY <1>1, <1>3, <1>4 DEF IInv, ServedIsStarted

(* What Claim plans, and what it leaves waiting. *)
Successors == UNION {Wanted(cfg, s.job, Next(Schedule(cfg, s.job), s.base)) : s \in Due}
Unclaimed == Restrict(planned, DOMAIN planned \ Due)

LEMMA ClaimKeeps ==
  ASSUME IInv, Claim
  PROVE  /\ IInv' /\ PlannedFrom(Successors, Unclaimed, started \cup Due)
         /\ \A s \in Successors : s \in AllSlots /\ FitsIn(cfg, s)
<1>1. /\ TypeOK
      /\ UNCHANGED <<now, up, cfg, calls, age, stale, upsets>>
      /\ claimed' = claimed \cup Due /\ served' = served \cup Due /\ passed' = TRUE
  BY DEF IInv, Claim
<1> DEFINE begun == started \cup Due
<1>2. PlanAll(Successors, Unclaimed, begun) BY DEF Claim, Successors, Unclaimed
<1>3. \A s \in Successors : s \in AllSlots /\ FitsIn(cfg, s)
  <2> SUFFICES ASSUME NEW d \in Due,
                      NEW s \in Wanted(cfg, d.job, Next(Schedule(cfg, d.job), d.base))
               PROVE  s \in AllSlots /\ FitsIn(cfg, s)
    BY DEF Successors
  <2> HIDE DEF begun
  <2>1. d \in DOMAIN planned /\ d.base <= now /\ d.job \in Scheduled(cfg)
    BY DueUnserved
  <2>2. now \in 0..MaxTime /\ d.base \in Nat BY <1>1, <2>1, SlotTypes
  <2>3. d.base \in 0..MaxTime BY <2>1, <2>2, Positive
  <2> QED BY <1>1, <2>1, <2>3, SlotTypes, WantedFits
<1>4. /\ DOMAIN Unclaimed = DOMAIN planned \ Due
      /\ \A s \in DOMAIN Unclaimed : Unclaimed[s] = planned[s]
  BY DEF Restrict, Unclaimed
<1>5. Due \subseteq DOMAIN planned BY DEF Due
<1>6. DueTimes(Unclaimed) BY <1>1, <1>4, SlotTypes DEF DueTimes
<1>7. /\ DOMAIN planned' \cap started' = {}
      /\ DueTimes(planned)'
      /\ DOMAIN planned' \cup started' \cup served' \cup stale' \subseteq AllSlots
      /\ failures' \in 0..MaxFailures
      /\ ServedIsStarted' /\ SlotsFit'
      /\ PlannedFrom(Successors, Unclaimed, begun)
  <2>1. /\ DOMAIN Unclaimed \subseteq AllSlots /\ begun \subseteq AllSlots
        /\ DOMAIN Unclaimed \cap begun = {}
        /\ served' \subseteq AllSlots /\ stale' \subseteq AllSlots
    BY <1>1, <1>4, <1>5, SlotTypes
  <2>2. \A s \in served' : s.base >= now - MaxAge => s \in begun
    BY <1>1 DEF IInv, ServedIsStarted
  <2>3. \A s \in (DOMAIN Unclaimed \cup begun) \ stale' :
          s.base >= now - MaxLate => FitsIn(cfg, s)
    BY <1>1, <1>4, <1>5 DEF IInv, SlotsFit
  <2> HIDE DEF begun
  <2> QED BY <1>1, <1>2, <1>3, <1>6, <2>1, <2>2, <2>3, SlotTypes, PlanningKeeps
<1>8. TypeOK' BY <1>1, <1>7 DEF TypeOK, DueTimes, AllSlots
<1>9. OneQueryPerBase'
  <2> SUFFICES ASSUME NEW s \in served' \ stale, NEW t \in served' \ stale,
                      s.job = Quota, t.job # Quota, s.base = t.base
               PROVE  FALSE
    BY <1>1 DEF OneQueryPerBase
  <2>1. CASE s \in served /\ t \in served
    BY <2>1 DEF IInv, OneQueryPerBase
  <2>2. CASE s \in Due \/ t \in Due
    <3>1. s.base >= now - MaxLate /\ s.base >= now - MaxAge
      BY <1>1, <2>2, DueUnserved, SlotTypes, Positive
    <3>2. \A u \in {s, t} : u \in (DOMAIN planned \cup started) \ stale
      BY <1>1, <1>5, <3>1 DEF IInv, ServedIsStarted
    <3>3. FitsIn(cfg, s) /\ FitsIn(cfg, t) BY <3>1, <3>2 DEF IInv, SlotsFit
    <3>4. s \in AllSlots /\ t \in AllSlots BY <1>1, <3>2, SlotTypes
    <3> QED BY <3>3, <3>4, FitsApart
  <2> QED BY <1>1, <2>1, <2>2
<1> QED BY <1>1, <1>3, <1>7, <1>8, <1>9 DEF IInv, CallsConfigured

LEMMA StopKeeps == ASSUME IInv, Stop PROVE IInv'
<1>1. /\ TypeOK /\ UNCHANGED <<now, cfg, stale, failures>>
      /\ upsets < MaxUpsets /\ upsets' = upsets + 1
      /\ up' = FALSE /\ age' = 0 /\ passed' = FALSE /\ calls' = {}
  BY DEF IInv, Stop, Upset, Down
<1>2. PICK S \in Unfinished :
        /\ claimed' = {} /\ served' = served \ S
        /\ planned' = PutBack(S) /\ started' = started \ S
  BY DEF Stop, RoundsEnd
<1>3. DOMAIN planned' = DOMAIN planned \cup (S \cap started) /\ DueTimes(planned)'
  BY <1>1, <1>2, PutBackIs DEF DueTimes
<1>4. /\ DOMAIN planned' \cap started' = {}
      /\ DOMAIN planned' \cup started' \cup served' \cup stale' \subseteq AllSlots
  BY <1>1, <1>2, <1>3, SlotTypes
<1>5. ServedIsStarted' BY <1>1, <1>2 DEF IInv, ServedIsStarted
<1>6. SlotsFit' BY <1>1, <1>2, <1>3 DEF IInv, SlotsFit
<1>7. OneQueryPerBase' BY <1>1, <1>2 DEF IInv, OneQueryPerBase
<1>8. upsets' \in 0..MaxUpsets /\ age' \in 0..Grown
  BY <1>1, CalendarAssumption, Positive DEF TypeOK, Grown
<1>9. TypeOK' BY <1>1, <1>2, <1>3, <1>4, <1>8 DEF TypeOK, DueTimes, AllSlots
<1> QED BY <1>1, <1>5, <1>6, <1>7, <1>9 DEF IInv, CallsConfigured

LEMMA ConfigureKeeps ==
  ASSUME IInv, NEW c \in Candidates, Configure(c)
  PROVE  /\ IInv'
         /\ \E S \in Unfinished :
              /\ served' = served \ S
              /\ PlannedFrom(Bootstrap(c), PutBack(S), started \ S)
<1>1. /\ TypeOK /\ Valid(c) /\ cfg' = c /\ now' = now
      /\ upsets < MaxUpsets /\ upsets' = upsets + 1
      /\ stale' = stale \cup {s \in DOMAIN planned \cup started : s.base >= now - MaxLate}
  BY DEF IInv, Configure, Upset
<1>2. PICK S \in Unfinished :
        /\ claimed' = {} /\ served' = served \ S
        /\ PlanAll(Bootstrap(c), PutBack(S), started \ S)
        /\ up' = TRUE /\ age' = 0 /\ passed' = FALSE /\ calls' = {}
  BY DEF Configure, RoundsEnd, Install
<1> DEFINE waiting == PutBack(S)  begun == started \ S
<1>3. DOMAIN waiting = DOMAIN planned \cup (S \cap started) /\ DueTimes(waiting)
  BY <1>1, PutBackIs
<1> HIDE DEF waiting
<1>4. \A s \in Bootstrap(c) : s \in AllSlots /\ FitsIn(c, s)
  BY <1>1, SlotTypes, BootstrapFits
<1>5. /\ DOMAIN planned' \cap started' = {}
      /\ DueTimes(planned)'
      /\ DOMAIN planned' \cup started' \cup served' \cup stale' \subseteq AllSlots
      /\ failures' \in 0..MaxFailures
      /\ ServedIsStarted' /\ SlotsFit'
      /\ PlannedFrom(Bootstrap(c), waiting, begun)
  <2>1. /\ DOMAIN waiting \subseteq AllSlots /\ begun \subseteq AllSlots
        /\ DOMAIN waiting \cap begun = {}
        /\ served' \subseteq AllSlots /\ stale' \subseteq AllSlots
    BY <1>1, <1>2, <1>3, SlotTypes
  <2>2. \A s \in served' : s.base >= now - MaxAge => s \in begun
    BY <1>2 DEF IInv, ServedIsStarted
  <2>3. \A s \in (DOMAIN waiting \cup begun) \ stale' :
          s.base >= now - MaxLate => FitsIn(c, s)
    BY <1>1, <1>3
  <2>4. PlanAll(Bootstrap(c), waiting, begun) BY <1>2 DEF waiting
  <2> HIDE DEF begun
  <2> QED BY <1>1, <1>3, <1>4, <2>1, <2>2, <2>3, <2>4, PlanningKeeps
<1>6. OneQueryPerBase' BY <1>1, <1>2 DEF IInv, OneQueryPerBase
<1>7. upsets' \in 0..MaxUpsets /\ age' \in 0..Grown
  BY <1>1, <1>2, CalendarAssumption, Positive DEF TypeOK, Grown
<1>8. TypeOK' BY <1>1, <1>2, <1>5, <1>7 DEF TypeOK, DueTimes, AllSlots
<1>9. PlannedFrom(Bootstrap(c), PutBack(S), started \ S) BY <1>5 DEF waiting
<1> QED BY <1>2, <1>5, <1>6, <1>8, <1>9 DEF IInv, CallsConfigured

LEMMA TickKeeps == ASSUME IInv, Tick PROVE IInv'
<1>1. /\ TypeOK /\ now < MaxTime /\ now' = now + 1 /\ passed' = FALSE
      /\ calls' \subseteq Scheduled(cfg)
      /\ UNCHANGED <<up, cfg, claimed, upsets, failures, slotVars>>
  BY DEF IInv, Tick
<1>2. now' \in 0..MaxTime BY <1>1, Positive DEF TypeOK
<1>3. age' \in 0..Grown
  <2>1. age \in Nat /\ age <= Grown /\ Grown \in Nat
    BY <1>1, CalendarAssumption DEF TypeOK, Grown
  <2> DEFINE a == age + 1
  <2>2. a \in Nat BY <2>1
  <2> HIDE DEF a
  <2>3. \E x \in {a, Grown} : \A y \in {a, Grown} : x =< y
    BY <2>1, <2>2, Least
  <2>4. Min({a, Grown}) \in {a, Grown} /\ \A y \in {a, Grown} : Min({a, Grown}) =< y
    BY <2>3, Zenon DEF Min
  <2>5. Min({a, Grown}) \in 0..Grown BY <2>1, <2>2, <2>4
  <2>6. age' = IF up THEN Min({a, Grown}) ELSE 0 BY DEF Tick, a
  <2>7. 0 \in 0..Grown BY <2>1
  <2> QED BY <2>5, <2>6, <2>7
<1>4. Scheduled(cfg) \subseteq Job
  BY <1>1, CalendarAssumption DEF TypeOK, Scheduled, Job
<1>5. TypeOK'
  BY <1>1, <1>2, <1>3, <1>4 DEF TypeOK, slotVars
<1>6. now \in Nat /\ \A s \in AllSlots : s.base \in Nat BY <1>1, SlotTypes
<1>7. ServedIsStarted'
  BY <1>1, <1>6, SlotTypes, Positive DEF IInv, ServedIsStarted, slotVars
<1>8. SlotsFit'
  BY <1>1, <1>6, SlotTypes, Positive DEF IInv, SlotsFit, slotVars
<1>9. OneQueryPerBase' BY <1>1 DEF IInv, OneQueryPerBase, slotVars
<1> QED BY <1>1, <1>5, <1>7, <1>8, <1>9 DEF IInv, CallsConfigured

LEMMA IInvNext == IInv /\ [Step]_vars => IInv'
<1> SUFFICES ASSUME IInv, [Step]_vars PROVE IInv' OBVIOUS
<1>1. TypeOK BY DEF IInv
<1>2. CASE Crash
  <2>1. /\ UNCHANGED <<now, cfg, failures, planned, started, served, stale>>
        /\ up' = FALSE /\ age' = 0 /\ passed' = FALSE /\ calls' = {} /\ claimed' = {}
        /\ upsets < MaxUpsets /\ upsets' = upsets + 1
    BY <1>2 DEF Crash, Upset, Down, slotVars
  <2>2. upsets' \in 0..MaxUpsets /\ age' \in 0..Grown
    BY <1>1, <2>1, CalendarAssumption, Positive DEF TypeOK, Grown
  <2>3. TypeOK' BY <1>1, <2>1, <2>2 DEF TypeOK
  <2> QED
    BY <2>1, <2>3
    DEF IInv, ServedIsStarted, CallsConfigured, SlotsFit, OneQueryPerBase
<1>3. CASE NothingDue \/ ClaimFails \/ UNCHANGED vars
           \/ \E c \in Candidates : Rejected(c)
  <2>1. /\ UNCHANGED <<now, up, cfg, claimed, calls, age, upsets,
                       planned, started, served, stale>>
        /\ passed' \in BOOLEAN
    BY <1>1, <1>3 DEF NothingDue, ClaimFails, Rejected, vars, slotVars, TypeOK
  <2>2. failures' \in 0..MaxFailures
    BY <1>1, <1>3, Positive
    DEF NothingDue, ClaimFails, Rejected, vars, WritesFail, TypeOK
  <2>3. TypeOK' BY <1>1, <2>1, <2>2 DEF TypeOK
  <2> QED
    BY <2>1, <2>3
    DEF IInv, ServedIsStarted, CallsConfigured, SlotsFit, OneQueryPerBase
<1> QED
  BY <1>2, <1>3, StartKeeps, StopKeeps, TickKeeps, ClaimKeeps, CallbackKeeps,
     ConfigureKeeps
  DEF Step

LEMMA IInvHolds == Spec => []IInv
BY IInvInit, IInvNext, PTL DEF Spec

-----------------------------------------------------------------------------
(* The slots are well formed: a waiting slot is due within the jitter      *)
(* after its base, none both waits and is started, and only times of the   *)
(* planning horizon are planned.                                           *)
THEOREM TypeCorrect == Spec => []TypeOK
<1>1. IInv => TypeOK BY DEF IInv
<1> QED BY <1>1, IInvHolds, PTL

(* Under one configuration a quota refresh and a prewarm never query the   *)
(* accounts for the same base time.                                        *)
THEOREM OneQuery == Spec => []OneQueryPerBase
<1>1. IInv => OneQueryPerBase BY DEF IInv
<1> QED BY <1>1, IInvHolds, PTL

(* A slot is run at most once, unless its round was put back. *)
THEOREM RunsOnce == Spec => SlotRunsOnce
<1>1. IInv /\ [Step]_vars => [(claimed' \ claimed) \cap served = {}]_vars
  <2> SUFFICES ASSUME IInv, Step PROVE (claimed' \ claimed) \cap served = {}
    OBVIOUS
  <2>1. CASE Claim BY <2>1, DueUnserved DEF Claim
  <2>2. CASE ~Claim
    <3>1. claimed' \subseteq claimed
      BY <2>2 DEF Step, Start, Stop, Crash, Tick, NothingDue, ClaimFails, Callback,
                  Rejected, Configure, RoundsEnd, vars
    <3> QED BY <3>1
  <2> QED BY <2>1, <2>2
<1> QED BY <1>1, IInvHolds, PTL DEF Spec, SlotRunsOnce

-----------------------------------------------------------------------------
(* More of the calendar.                                                   *)

LEMMA Division ==
  ASSUME NEW m \in Nat \ {0}, NEW q \in Nat, NEW h \in 0..(m - 1)
  PROVE  (m * q + h) \div m = q /\ (m * q + h) % m = h
BY SMT

LEMMA Divided ==
  ASSUME NEW m \in Nat \ {0}, NEW t \in Nat
  PROVE  /\ t \div m \in Nat /\ t % m \in 0..(m - 1)
         /\ t = m * (t \div m) + (t % m)
BY SMT

(* What lies between two times of a day is of that day. *)
LEMMA BetweenDay ==
  ASSUME NEW a \in Nat, NEW b \in Nat, NEW c \in Nat,
         a <= b, b <= c, SameDate(a, c)
  PROVE  SameDate(a, b) /\ SameDate(b, c)
<1> DEFINE q == a \div DayLength  p == b \div DayLength
           h == a % DayLength  i == b % DayLength  k == c % DayLength
<1>1. /\ q \in Nat /\ p \in Nat
      /\ h \in 0..(DayLength - 1) /\ i \in 0..(DayLength - 1) /\ k \in 0..(DayLength - 1)
      /\ a = DayLength * q + h /\ b = DayLength * p + i
      /\ c = DayLength * (c \div DayLength) + k
  BY Divided, Positive
<1>2. c \div DayLength = q BY DEF SameDate
<1>3. c = DayLength * q + k BY <1>1, <1>2
<1> HIDE DEF q, p, h, i, k
<1>4. \A x, y \in Nat, u, v \in 0..(DayLength - 1) :
        DayLength * x + u <= DayLength * y + v => x <= y
  <2> SUFFICES ASSUME NEW x \in Nat, NEW y \in Nat, NEW u \in 0..(DayLength - 1),
                      NEW v \in 0..(DayLength - 1), x > y
               PROVE  DayLength * x + u > DayLength * y + v
    BY Positive, SMT
  <2>1. PICK d \in Nat : x = y + 1 + d BY x - y - 1 \in Nat
  <2>2. DayLength * x = DayLength * y + DayLength + DayLength * d
    BY <2>1, Positive, SMT
  <2>3. DayLength * d \in Nat /\ DayLength * y \in Nat BY Positive, SMT
  <2> HIDE DEF q
  <2> QED BY <2>2, <2>3, Positive
<1>5. q <= p /\ p <= q BY <1>1, <1>3, <1>4
<1> QED BY <1>1, <1>2, <1>5 DEF SameDate, q, p

(* Only the last minute of a day is followed by another day. *)
LEMMA NextMinute ==
  ASSUME NEW b \in Nat, ~(HourOf(b) = LastHour /\ b % Hour = Hour - 1)
  PROVE  SameDate(b, b + 1)
<1> DEFINE q == b \div DayLength  h == b % DayLength
<1>1. q \in Nat /\ h \in 0..(DayLength - 1) /\ b = DayLength * q + h
  BY Divided, Positive
<1>2. HourOf(b) = h \div Hour BY DEF HourOf
<1>3. SameDate(b, b + 1) <=> (b + 1) \div DayLength = q BY DEF SameDate
<1> HIDE DEF q, h
<1>4. CASE h < DayLength - 1
  <2>1. h + 1 \in 0..(DayLength - 1) /\ b + 1 = DayLength * q + (h + 1)
    BY <1>1, <1>4, Positive, SMT
  <2> QED BY <1>1, <1>3, <2>1, Division, Positive
<1>5. CASE h = DayLength - 1
  <2>1. LastHour \in Nat /\ DayLength = (LastHour + 1) * Hour
    BY CalendarAssumption
  <2>2. Hour \in Nat \ {0} /\ Hour - 1 \in 0..(Hour - 1) BY Positive
  <2>3. h = Hour * LastHour + (Hour - 1) BY <1>5, <2>1, <2>2, SMT
  <2>4. h \div Hour = LastHour BY <2>1, <2>2, <2>3, Division
  <2> DEFINE r == (LastHour + 1) * q + LastHour
  <2>5. r \in Nat BY <1>1, <2>1, SMT
  <2>6. b = Hour * r + (Hour - 1)
    <3>1. DayLength * q = Hour * ((LastHour + 1) * q)
      BY <1>1, <2>1, <2>2, SMT
    <3>2. Hour * r = Hour * ((LastHour + 1) * q) + Hour * LastHour
      BY <1>1, <2>1, <2>2, SMT
    <3>3. b = DayLength * q + (Hour * LastHour + (Hour - 1)) BY <1>1, <2>3
    <3>4. DayLength * q \in Int /\ Hour * LastHour \in Int BY <1>1, <2>1, <2>2, Positive, SMT
    <3> HIDE DEF r
    <3> QED BY <2>2, <3>1, <3>2, <3>3, <3>4
  <2> HIDE DEF r
  <2>7. b % Hour = Hour - 1 BY <2>2, <2>5, <2>6, Division
  <2> QED BY <1>2, <2>4, <2>7
<1> QED BY <1>1, <1>4, <1>5, Positive

(* A slot that fits a valid configuration is neither at night nor in the   *)
(* last minute of a day.                                                   *)
LEMMA FitsDaytime ==
  ASSUME NEW c, Valid(c), NEW s \in AllSlots, FitsIn(c, s)
  PROVE  /\ s.base \in Nat
         /\ SameDate(s.base, s.base + 1)
         /\ s.job # Quota => InScheduleHour(s.base) /\ Covered(c, s.base)
<1>1. s.base \in Nat BY DEF AllSlots, Time
<1> DEFINE schedule == Schedule(c, s.job)
<1>2. s.job \in Scheduled(c) /\ IsBase(schedule, s.base) BY DEF FitsIn
<1>3. s.job # Quota => s.job \in DOMAIN c.jobs /\ c.automatic /\ schedule = c.jobs[s.job]
  BY <1>2 DEF Scheduled, Schedule
<1>4. schedule \in {c.quota} \cup {c.jobs[job] : job \in DOMAIN c.jobs}
  BY <1>3 DEF Schedule
<1>5. HourOf(s.base) \in schedule.hours /\ s.base % Hour \in schedule.minutes
  BY <1>2 DEF IsBase
<1>6. ~(LastHour \in schedule.hours /\ Hour - 1 \in schedule.minutes)
  BY <1>4 DEF Valid
<1> HIDE DEF schedule
<1>7. SameDate(s.base, s.base + 1) BY <1>1, <1>5, <1>6, NextMinute
<1>8. ASSUME s.job # Quota PROVE InScheduleHour(s.base) /\ Covered(c, s.base)
  <2>1. HourOf(s.base) \in DayStart .. LastHour
    BY <1>3, <1>5, <1>8 DEF Valid
  <2>2. Covered(c, s.base) BY <1>1, <1>2, <1>3, <1>8, CoveredIs DEF schedule
  <2>3. DayStart \in Int /\ LastHour \in Int BY CalendarAssumption
  <2> QED BY <2>1, <2>2, <2>3 DEF InScheduleHour
<1> QED BY <1>1, <1>7, <1>8

-----------------------------------------------------------------------------
(* The second invariant: with at most one failed write, what is scheduled  *)
(* since the scheduler was installed is planned and claimed in time.       *)

Lucky       == up /\ failures <= 1
Undisturbed == up /\ failures = 0

StartedServed == started \subseteq served

ServedPast == \A s \in served : s.base <= now

BeforeMidnight == \A s \in DOMAIN planned \cup started : SameDate(s.base, s.base + 1)

CallsNow == \A job \in calls : IsBase(Schedule(cfg, job), now) /\ age > 0

(* The claim of the slot at t will plan the one at b. *)
Handed(job, t, b) == Slot(job, t) \in DOMAIN planned /\ Next(Schedule(cfg, job), t) = b

(* The base time of the present minute can be planned by its callback or   *)
(* with its predecessor.                                                   *)
ByCallback(job) == job \in calls
ByClaim(job)    == age > 1 /\ Handed(job, now - 1, now)

(* A base time since the installation has its slot, or is the present      *)
(* minute with one way left to plan it: two before a write has failed.     *)
InTime ==
  Lucky =>
    \A b \in Nat, job \in Scheduled(cfg) :
      now - age < b /\ b <= now /\ FitsIn(cfg, Slot(job, b)) =>
        \/ Slot(job, b) \in DOMAIN planned \cup served
        \/ /\ b = now /\ (ByCallback(job) \/ ByClaim(job))
           /\ failures = 0 => ByCallback(job) /\ ByClaim(job)

(* While no write has failed the next base time is planned, or will be     *)
(* with the claim of a slot, or by the callback of this minute.            *)
Ahead ==
  Undisturbed =>
    \A b \in Nat, job \in Scheduled(cfg) :
      b = Next(Schedule(cfg, job), now) /\ FitsIn(cfg, Slot(job, b)) =>
        \/ Slot(job, b) \in DOMAIN planned
        \/ age > 0 /\ Handed(job, now, b)
        \/ age > 1 /\ Handed(job, now - 1, b)
        \/ job \in calls /\ Slot(job, now) \notin DOMAIN planned \cup served

(* A slot since then is claimed in its own minute or by the next pass. *)
Punctual ==
  Lucky =>
    \A s \in DOMAIN planned : s.job \in Scheduled(cfg) /\ s.base > now - age =>
      s.base >= now - 1 /\ (passed => s.base >= now)

(* The base time to be made up for is claimed by the first pass, or by the *)
(* second if it was the minute of the installation.                        *)
ToBeCaughtUp(b, since) ==
  /\ b \in Missed(since) /\ \A d \in Missed(since) : d <= b
  /\ NotTooLate(b, since)

CatchingUp ==
  Undisturbed /\ age <= Settled =>
    \A b \in Nat : ToBeCaughtUp(b, now - age) =>
      \/ Served(b)
      \/ \E job \in Scheduled(cfg) :
           /\ Slot(job, b) \in DOMAIN planned /\ FitsIn(cfg, Slot(job, b))
           /\ \/ age = 0 /\ (passed => b = now - age)
              \/ age = 1 /\ ~passed /\ b = now - age

Aged == age <= now /\ (~up => age = 0)

Serving ==
  /\ StartedServed /\ ServedPast /\ BeforeMidnight /\ CallsNow /\ Aged
  /\ InTime /\ Ahead /\ Punctual /\ CatchingUp

(* A base time that no prewarm covers, or a prewarm's own, is planned as   *)
(* it is.                                                                  *)
LEMMA WantedHere ==
  ASSUME NEW c, Valid(c), NEW job, NEW b \in Nat,
         Slot(job, b) \in AllSlots, FitsIn(c, Slot(job, b))
  PROVE  Slot(job, b) \in Wanted(c, job, b)
<1>1. Slot(job, b).job = job /\ Slot(job, b).base = b BY DEF Slot
<1>2. b # None BY DEF None
<1>3. CASE job # Quota
  <2>1. Advanced(c, job, b) = b BY <1>3 DEF Advanced
  <2>2. InScheduleHour(b) BY <1>1, <1>3, FitsDaytime
  <2> QED BY <1>2, <2>1, <2>2 DEF Wanted
<1>4. CASE job = Quota
  <2> DEFINE bases == Bases(Schedule(c, job), b, b + DayLength)
             free  == {t \in bases : ~Covered(c, t)}
             next  == FirstOf(free)
  <2>1. bases = {t \in b..(b + DayLength) : IsBase(Schedule(c, job), t)}
    BY DEF Bases
  <2>2. b \in free BY <1>1, <1>4, <2>1, Positive DEF FitsIn
  <2>3. free \in SUBSET Nat /\ \A t \in free : b <= t BY <2>1, Positive
  <2>4. next = b
    <3> HIDE DEF free
    <3>1. next \in free /\ next <= b BY <2>2, <2>3, FirstIs
    <3> HIDE DEF next
    <3>2. next \in Nat /\ b <= next BY <2>3, <3>1
    <3> QED BY <3>1, <3>2
  <2>5. {t \in bases : t < next} = {} BY <2>1, <2>4, Positive
  <2>6. Cardinality({t \in bases : t < next}) = 0 BY <2>5, FS_EmptySet
  <2>7. ~(Cardinality({t \in bases : t < next}) > SkipLimit)
    BY <2>6, CalendarAssumption
  <2>8. Advanced(c, job, b) = IF next = None \/ Cardinality({t \in bases : t < next}) > SkipLimit
                              THEN None ELSE next
    BY <1>2, <1>4 DEF Advanced
  <2>9. Advanced(c, job, b) = b BY <1>2, <2>4, <2>7, <2>8
  <2> QED BY <1>2, <1>4, <2>9 DEF Wanted
<1> QED BY <1>3, <1>4

(* A base time of the present or the next day is one of a slot. *)
LEMMA SlotIs ==
  ASSUME NEW c, NEW job \in Scheduled(c), c \in Candidates,
         NEW b \in Nat, now \in 0..MaxTime, b <= now + DayLength
  PROVE  /\ Slot(job, b) \in AllSlots
         /\ Slot(job, b).job = job /\ Slot(job, b).base = b
<1>1. job \in Job BY CalendarAssumption DEF Scheduled, Job
<1>2. b \in Time BY CalendarAssumption, Positive DEF Time
<1> QED BY <1>1, <1>2 DEF Slot, AllSlots

(* The base time after a covered one is planned in its place. *)
LEMMA WantedNext ==
  ASSUME NEW c, NEW b \in Nat, NEW n \in Nat, IsBase(c.quota, b), Covered(c, b),
         n = Next(c.quota, b), ~Covered(c, n)
  PROVE  Slot(Quota, n) \in Wanted(c, Quota, b)
<1> DEFINE bases == Bases(Schedule(c, Quota), b, b + DayLength)
           free  == {t \in bases : ~Covered(c, t)}
           next  == FirstOf(free)
<1>1. bases = {t \in b..(b + DayLength) : IsBase(c.quota, t)}
  BY DEF Bases, Schedule
<1>2. n # None /\ b # None BY DEF None
<1>3. /\ b < n /\ n <= b + DayLength /\ IsBase(c.quota, n)
      /\ \A t \in (b + 1)..(b + DayLength) : IsBase(c.quota, t) => n <= t
  BY <1>2, NextIs
<1>4. n \in free /\ free \in SUBSET Nat BY <1>1, <1>3, Positive
<1>5. ASSUME NEW t \in free PROVE n <= t
  <2>1. t \in b..(b + DayLength) /\ IsBase(c.quota, t) /\ t # b BY <1>1
  <2>2. t \in (b + 1)..(b + DayLength) BY <2>1, Positive
  <2> QED BY <1>3, <2>1, <2>2
<1>6. next = n
  <2> HIDE DEF free
  <2>1. next \in free /\ next <= n BY <1>4, FirstIs
  <2>2. n <= next /\ next \in Nat BY <1>4, <1>5, <2>1
  <2> QED BY <2>1, <2>2
<1>7. {t \in bases : t < next} = {b}
  <2>1. b \in bases /\ b < next BY <1>1, <1>3, <1>6, Positive
  <2>2. ASSUME NEW t \in bases, t < next PROVE t = b
    <3>1. t \in b..(b + DayLength) /\ IsBase(c.quota, t) /\ t < n BY <1>1, <1>6, <2>2
    <3>2. ASSUME t # b PROVE FALSE
      <4>1. t \in (b + 1)..(b + DayLength) BY <3>1, <3>2, Positive
      <4> QED BY <1>3, <3>1, <4>1
    <3> QED BY <3>2
  <2> QED BY <2>1, <2>2
<1>8. ~(Cardinality({t \in bases : t < next}) > SkipLimit)
  <2> DEFINE skipped == {t \in bases : t < next}
  <2>1. SkipLimit \in Nat \ {0} BY CalendarAssumption
  <2>2. skipped = {b} BY <1>7
  <2> HIDE DEF skipped
  <2>3. Cardinality(skipped) = 1 BY <2>2, FS_Singleton
  <2>4. ~(Cardinality(skipped) > SkipLimit) BY <2>1, <2>3
  <2> QED BY <2>4 DEF skipped
<1>9. Advanced(c, Quota, b) = IF next = None \/ Cardinality({t \in bases : t < next}) > SkipLimit
                              THEN None ELSE next
  BY <1>2 DEF Advanced
<1>10. Advanced(c, Quota, b) = n BY <1>2, <1>6, <1>8, <1>9
<1> QED BY <1>2, <1>10 DEF Wanted

(* A slot of the present or the last minute is claimed once it is due. *)
LEMMA DueSoon ==
  ASSUME IInv, BeforeMidnight, MaxJitter = 1, NEW s \in DOMAIN planned,
         s.job \in Scheduled(cfg), s.base \in {now, now - 1}, planned[s] <= now
  PROVE  s \in Due
<1>1. now \in Nat /\ s.base \in Nat BY SlotTypes DEF IInv
<1>2. SameDate(s.base, now)
  <2>1. CASE s.base = now BY <2>1 DEF SameDate
  <2>2. CASE s.base = now - 1
    <3>1. s.base + 1 = now BY <1>1, <2>2
    <3> QED BY <3>1 DEF BeforeMidnight
  <2> QED BY <2>1, <2>2
<1>3. now - s.base <= MaxLate /\ now <= s.base + LateInLastHour
  BY <1>1, CalendarAssumption
<1>4. ~(now > s.base + LateInLastHour) BY <1>1, <1>3, CalendarAssumption
<1> QED BY <1>2, <1>3, <1>4 DEF Due, Claimable

(* No slot is made for a base time that has gone by since the scheduler    *)
(* was installed.                                                          *)
LEMMA NoneLeft ==
  ASSUME IInv, Serving, Lucky, NEW s \in AllSlots, FitsIn(cfg, s),
         now - age < s.base, s.base < now
  PROVE  s \in DOMAIN planned \cup started
<1>1. now \in Nat /\ s.base \in Nat /\ age \in 0..Grown
  BY SlotTypes DEF IInv, TypeOK
<1>2. s = Slot(s.job, s.base) BY DEF AllSlots, Slot
<1>3. s.job \in Scheduled(cfg) BY DEF FitsIn
<1>4. s \in DOMAIN planned \cup served
  BY <1>1, <1>2, <1>3 DEF Serving, InTime
<1>5. s.base >= now - MaxAge BY <1>1, CalendarAssumption DEF Grown
<1> QED BY <1>4, <1>5 DEF IInv, ServedIsStarted

(* The age counts the ticks of an installed scheduler, up to Grown. *)
LEMMA AgeTicks ==
  ASSUME TypeOK, Tick
  PROVE  /\ age \in Nat /\ now \in Nat
         /\ up => age' \in Nat /\ (age' = age + 1 \/ (age' = Grown /\ age >= Grown))
         /\ up => now' - age' >= now - age
<1>1. age \in Nat /\ age <= Grown /\ Grown \in Nat /\ now \in Nat
  BY CalendarAssumption DEF TypeOK, Grown
<1>2. ASSUME up
      PROVE  age' \in Nat /\ (age' = age + 1 \/ (age' = Grown /\ age >= Grown))
  <2> DEFINE a == age + 1
  <2>1. a \in Nat BY <1>1
  <2>2. age' = Min({a, Grown}) BY <1>2 DEF Tick
  <2> HIDE DEF a
  <2>3. \E x \in {a, Grown} : \A y \in {a, Grown} : x =< y BY <1>1, <2>1, Least
  <2>4. Min({a, Grown}) \in {a, Grown} /\ \A y \in {a, Grown} : Min({a, Grown}) =< y
    BY <2>3, Zenon DEF Min
  <2>5. age' \in {a, Grown} /\ age' <= a BY <2>2, <2>4
  <2> QED BY <1>1, <2>1, <2>5 DEF a
<1>3. now' = now + 1 BY DEF Tick
<1> QED BY <1>1, <1>2, <1>3

LEMMA PlainNext ==
  ASSUME IInv, StartedServed, ServedPast, BeforeMidnight, CallsNow, Aged, Step
  PROVE  (StartedServed /\ ServedPast /\ BeforeMidnight /\ CallsNow)'
<1> USE DEF PlannedFrom
<1>1. TypeOK /\ DOMAIN planned \subseteq AllSlots /\ started \subseteq AllSlots
      /\ Valid(cfg) /\ now \in 0..MaxTime /\ cfg \in Candidates
      /\ now \in Nat /\ \A s \in AllSlots : s.base \in Nat
  BY SlotTypes DEF IInv, TypeOK
<1>2. CASE Start
  <2>1. \A s \in Bootstrap(cfg) : SameDate(s.base, s.base + 1)
    BY <1>1, BootstrapFits, FitsDaytime
  <2>2. PlannedFrom(Bootstrap(cfg), planned, started) BY <1>2, StartKeeps
  <2>3. served' = served /\ calls' = {} /\ now' = now BY <1>2 DEF Start, Install
  <2> QED BY <2>1, <2>2, <2>3 DEF StartedServed, ServedPast, BeforeMidnight, CallsNow
<1>3. ASSUME NEW job \in Job, Callback(job)
      PROVE  (StartedServed /\ ServedPast /\ BeforeMidnight /\ CallsNow)'
  <2>1. job \in Scheduled(cfg) BY <1>3 DEF IInv, CallsConfigured, Callback
  <2>2. \A s \in CallbackPlans(job) : SameDate(s.base, s.base + 1)
    BY <1>1, <2>1, WantedFits, FitsDaytime DEF CallbackPlans
  <2>3. PlannedFrom(CallbackPlans(job), planned, started) BY <1>3, CallbackKeeps
  <2>4. /\ served' = served /\ calls' \subseteq calls
        /\ now' = now /\ cfg' = cfg /\ age' = age
    BY <1>3 DEF Callback
  <2> QED BY <2>2, <2>3, <2>4 DEF StartedServed, ServedPast, BeforeMidnight, CallsNow
<1>4. CASE Claim
  <2>1. /\ PlannedFrom(Successors, Unclaimed, started \cup Due)
        /\ \A s \in Successors : s \in AllSlots /\ FitsIn(cfg, s)
    BY <1>4, ClaimKeeps
  <2>2. \A s \in Successors : SameDate(s.base, s.base + 1)
    BY <1>1, <2>1, FitsDaytime
  <2>3. served' = served \cup Due /\ UNCHANGED <<now, cfg, calls, age>>
    BY <1>4 DEF Claim
  <2>4. DOMAIN Unclaimed = DOMAIN planned \ Due BY DEF Unclaimed, Restrict
  <2>5. Due \subseteq DOMAIN planned BY DEF Due
  <2>6. ASSUME NEW s \in Due PROVE s.base <= now
    <3>1. planned[s] \in s.base..(s.base + MaxJitter)
      BY <2>5, SlotTypes DEF IInv, DueTimes
    <3>2. planned[s] <= now BY DEF Due, Claimable
    <3> QED BY <1>1, <2>5, <3>1, <3>2, Positive
  <2> QED
    BY <2>1, <2>2, <2>3, <2>4, <2>5, <2>6
    DEF StartedServed, ServedPast, BeforeMidnight, CallsNow
<1>5. CASE Stop
  <2>1. PICK S \in Unfinished :
          served' = served \ S /\ planned' = PutBack(S) /\ started' = started \ S
    BY <1>5 DEF Stop, RoundsEnd
  <2>2. DOMAIN planned' = DOMAIN planned \cup (S \cap started)
    BY <1>1, <2>1, PutBackIs
  <2>3. calls' = {} /\ now' = now BY <1>5 DEF Stop, Down
  <2> QED BY <2>1, <2>2, <2>3 DEF StartedServed, ServedPast, BeforeMidnight, CallsNow
<1>6. ASSUME NEW c \in Candidates, Configure(c)
      PROVE  (StartedServed /\ ServedPast /\ BeforeMidnight /\ CallsNow)'
  <2>1. PICK S \in Unfinished :
          /\ served' = served \ S
          /\ PlannedFrom(Bootstrap(c), PutBack(S), started \ S)
    BY <1>6, ConfigureKeeps
  <2>2. Valid(c) BY <1>6 DEF Configure
  <2>3. \A s \in Bootstrap(c) : SameDate(s.base, s.base + 1)
    BY <1>1, <2>2, BootstrapFits, FitsDaytime
  <2>4. DOMAIN PutBack(S) = DOMAIN planned \cup (S \cap started)
    BY <1>1, PutBackIs
  <2>5. calls' = {} /\ now' = now BY <1>6 DEF Configure, Install
  <2> QED BY <2>1, <2>3, <2>4, <2>5 DEF StartedServed, ServedPast, BeforeMidnight, CallsNow
<1>7. CASE Tick
  <2>1. /\ UNCHANGED <<planned, started, served, cfg>>
        /\ \A job \in calls' : up /\ IsBase(Schedule(cfg, job), now')
        /\ now' = now + 1
    BY <1>7 DEF Tick, slotVars
  <2>2. ASSUME up PROVE age' > 0
    <3>1. age' = age + 1 \/ age' = Grown BY <1>1, <1>7, <2>2, AgeTicks
    <3>2. Grown \in Nat \ {0} /\ age \in Nat
      BY <1>1, <1>7, CalendarAssumption, AgeTicks DEF Grown
    <3> QED BY <3>1, <3>2
  <2>3. \A s \in served : s.base <= now + 1
    <3>1. served \subseteq AllSlots BY <1>1 DEF TypeOK, AllSlots
    <3> QED BY <1>1, <3>1 DEF ServedPast
  <2> QED BY <2>1, <2>2, <2>3 DEF StartedServed, ServedPast, BeforeMidnight, CallsNow
<1>8. CASE Crash \/ NothingDue \/ ClaimFails \/ \E c \in Candidates : Rejected(c)
  <2>1. /\ UNCHANGED <<planned, started, served, cfg, now>>
        /\ (calls' = calls /\ age' = age) \/ calls' = {}
    BY <1>8 DEF Crash, Down, NothingDue, ClaimFails, Rejected, vars, slotVars
  <2> QED BY <2>1 DEF StartedServed, ServedPast, BeforeMidnight, CallsNow
<1> QED BY <1>2, <1>3, <1>4, <1>5, <1>6, <1>7, <1>8 DEF Step

LEMMA AgedNext == ASSUME IInv, Aged, Step PROVE Aged'
<1>1. now \in Nat /\ age \in Nat
  BY SlotTypes, CalendarAssumption DEF IInv, TypeOK, Grown
<1>2. CASE Start \/ \E c \in Candidates : Configure(c)
  <2>1. now' = now /\ age' = 0 /\ up' = TRUE
    BY <1>2 DEF Start, Configure, Install
  <2> QED BY <1>1, <2>1 DEF Aged
<1>3. CASE Stop \/ Crash
  <2>1. now' = now /\ age' = 0 BY <1>3 DEF Stop, Crash, Down
  <2> QED BY <1>1, <2>1 DEF Aged
<1>4. CASE Tick
  <2>1. now' = now + 1 /\ up' = up BY <1>4 DEF Tick
  <2>2. CASE ~up
    <3>1. age' = 0 BY <1>4, <2>2 DEF Tick
    <3> QED BY <1>1, <2>1, <3>1 DEF Aged
  <2>3. CASE up
    <3>1. age' = age + 1 \/ (age' = Grown /\ age >= Grown)
      BY <1>4, <2>3, AgeTicks DEF IInv
    <3>2. Grown \in Nat BY CalendarAssumption DEF Grown
    <3> QED BY <1>1, <2>1, <2>3, <3>1, <3>2 DEF Aged
  <2> QED BY <2>2, <2>3
<1>5. CASE \/ NothingDue \/ Claim \/ (\E j \in Job : Callback(j)) \/ ClaimFails
           \/ \E c \in Candidates : Rejected(c)
  <2>1. UNCHANGED <<now, age, up>>
    BY <1>5 DEF NothingDue, Claim, Callback, ClaimFails, Rejected, vars
  <2> QED BY <2>1 DEF Aged
<1> QED BY <1>2, <1>3, <1>4, <1>5 DEF Step

(* What the steps of a running scheduler do to the slots. *)
Running ==
  \/ NothingDue \/ Claim \/ (\E j \in Job : Callback(j)) \/ ClaimFails
  \/ \E c \in Candidates : Rejected(c)

LEMMA RunningIs ==
  ASSUME IInv, StartedServed, Running, Lucky'
  PROVE  /\ Lucky /\ UNCHANGED <<now, age, cfg>>
         /\ failures \in 0..1 /\ failures' \in {failures, 1}
         /\ served \subseteq served' /\ served' \subseteq served \cup DOMAIN planned
         /\ \A s \in DOMAIN planned' \ DOMAIN planned :
              s \in AllSlots /\ FitsIn(cfg, s) /\ s \notin started
         /\ \A s \in DOMAIN planned : s.base >= now - MaxAge =>
              s \in DOMAIN planned' \cup served'
         /\ passed' /\ ~passed => DOMAIN planned' \cap Due = {}
<1> USE DEF PlannedFrom
<1>1. up' /\ failures' <= 1 /\ failures \in Nat
  BY SlotTypes DEF Lucky, IInv
<1>2. UNCHANGED <<now, age, cfg, up>>
  BY DEF Running, NothingDue, Claim, Callback, ClaimFails, Rejected, vars
<1>3. failures' \in Nat
  <2>1. IInv' BY IInvNext DEF Running, Step
  <2> QED BY <2>1, Positive DEF IInv, TypeOK
<1>4. ASSUME failures <= failures'
      PROVE  Lucky /\ failures \in 0..1 /\ failures' \in {failures, 1}
  BY <1>1, <1>2, <1>3, <1>4 DEF Lucky
<1>5. CASE Claim
  <2>1. /\ PlannedFrom(Successors, Unclaimed, started \cup Due)
        /\ \A s \in Successors : s \in AllSlots /\ FitsIn(cfg, s)
    BY <1>5, ClaimKeeps
  <2>2. served' = served \cup Due BY <1>5 DEF Claim
  <2>3. DOMAIN Unclaimed = DOMAIN planned \ Due BY DEF Unclaimed, Restrict
  <2>4. failures <= failures' BY <2>1
  <2>5. DOMAIN planned' \cap Due = {} BY <2>1, <2>3
  <2>6. Due \subseteq DOMAIN planned BY DEF Due
  <2>7. ASSUME NEW s \in DOMAIN planned' \ DOMAIN planned
        PROVE  s \in AllSlots /\ FitsIn(cfg, s) /\ s \notin started
    BY <2>1, <2>3, <2>7
  <2>8. ASSUME NEW s \in DOMAIN planned, s.base >= now - MaxAge
        PROVE  s \in DOMAIN planned' \cup served'
    BY <2>1, <2>2, <2>3, <2>8
  <2> QED BY <1>2, <1>4, <2>2, <2>4, <2>5, <2>6, <2>7, <2>8
<1>6. ASSUME NEW j \in Job, Callback(j)
      PROVE  /\ failures <= failures' /\ served' = served /\ passed' = passed
             /\ \A s \in DOMAIN planned' \ DOMAIN planned :
                  s \in AllSlots /\ FitsIn(cfg, s) /\ s \notin started
             /\ \A s \in DOMAIN planned : s.base >= now - MaxAge =>
                  s \in DOMAIN planned'
  <2>1. PlannedFrom(CallbackPlans(j), planned, started) BY <1>6, CallbackKeeps
  <2>2. served' = served /\ passed' = passed BY <1>6 DEF Callback
  <2>3. j \in Scheduled(cfg) BY <1>6 DEF IInv, CallsConfigured, Callback
  <2>4. \A s \in CallbackPlans(j) : s \in AllSlots /\ FitsIn(cfg, s)
    BY <2>3, SlotTypes, WantedFits DEF IInv, CallbackPlans
  <2> QED BY <2>1, <2>2, <2>4
<1>7. CASE NothingDue \/ ClaimFails \/ \E c \in Candidates : Rejected(c)
  <2>1. UNCHANGED <<planned, served>>
    BY <1>7 DEF NothingDue, ClaimFails, Rejected, vars, slotVars
  <2>2. Due = {} \/ passed' = passed BY <1>7 DEF NothingDue, ClaimFails, Rejected, vars
  <2>3. failures <= failures'
    <3>1. failures' \in {failures, failures + 1}
      BY <1>7 DEF NothingDue, ClaimFails, WritesFail, Rejected, vars
    <3> QED BY <1>1, <3>1
  <2> QED BY <1>2, <1>4, <2>1, <2>2, <2>3
<1> QED BY <1>2, <1>4, <1>5, <1>6, <1>7 DEF Running

(* A claimed slot hands over to the next one unless a write fails. *)
LEMMA HandedOn ==
  ASSUME IInv, StartedServed, Running, failures' = failures,
         NEW job \in Scheduled(cfg), NEW t \in Nat, NEW b \in Nat,
         Handed(job, t, b), FitsIn(cfg, Slot(job, b)),
         t >= now - MaxAge, b >= now - MaxAge, b <= now + DayLength
  PROVE  Slot(job, t) \in DOMAIN planned' \/ Slot(job, b) \in DOMAIN planned' \cup served'
<1> USE DEF PlannedFrom
<1> DEFINE s == Slot(job, t)  n == Slot(job, b)
<1>1. s \in DOMAIN planned /\ Next(Schedule(cfg, job), t) = b BY DEF Handed
<1>2. s.job = job /\ s.base = t BY DEF Slot
<1>3. /\ cfg \in Candidates /\ Valid(cfg) /\ now \in 0..MaxTime
  BY SlotTypes DEF IInv, TypeOK
<1>4. n \in AllSlots /\ n.base = b BY <1>3, SlotIs
<1> HIDE DEF s
<1>5. CASE Claim
  <2>1. PlannedFrom(Successors, Unclaimed, started \cup Due) BY <1>5, ClaimKeeps
  <2>2. served' = served \cup Due BY <1>5 DEF Claim
  <2>3. DOMAIN Unclaimed = DOMAIN planned \ Due BY DEF Unclaimed, Restrict
  <2>4. CASE s \in Due
    <3>1. n \in Wanted(cfg, job, b) BY <1>3, <1>4, WantedHere
    <3> HIDE DEF n
    <3>2. n \in Successors
      <4>1. n \in Wanted(cfg, s.job, Next(Schedule(cfg, s.job), s.base))
        BY <1>1, <1>2, <3>1
      <4> QED BY <2>4, <4>1 DEF Successors
    <3>3. n \in DOMAIN planned' \cup (started \cup Due) BY <1>4, <2>1, <3>2
    <3> QED BY <2>2, <3>3 DEF StartedServed, n
  <2>5. CASE s \notin Due BY <1>1, <1>2, <2>1, <2>3, <2>5 DEF s
  <2> QED BY <2>4, <2>5
<1>6. ASSUME NEW j \in Job, Callback(j) PROVE s \in DOMAIN planned'
  <2>1. PlannedFrom(CallbackPlans(j), planned, started) BY <1>6, CallbackKeeps
  <2> QED BY <1>1, <1>2, <2>1
<1>7. CASE NothingDue \/ ClaimFails \/ \E c \in Candidates : Rejected(c)
  <2>1. planned' = planned
    BY <1>7 DEF NothingDue, ClaimFails, Rejected, vars, slotVars
  <2> QED BY <1>1, <2>1 DEF s
<1> QED BY <1>5, <1>6, <1>7 DEF Running, s

(* The callback of a job plans its base time unless the write fails. *)
LEMMA CalledBack ==
  ASSUME IInv, StartedServed, CallsNow, NEW job \in Job, Callback(job),
         failures' = failures
  PROVE  /\ \A s \in CallbackPlans(job) : s.base >= now - MaxAge =>
              s \in DOMAIN planned' \cup served
         /\ CallbackPlans(job) = Wanted(cfg, job, now)
         /\ FitsIn(cfg, Slot(job, now)) =>
              Slot(job, now) \in DOMAIN planned' \cup served
<1>1. PlannedFrom(CallbackPlans(job), planned, started) BY CallbackKeeps
<1>2. \A s \in CallbackPlans(job) : s.base >= now - MaxAge =>
        s \in DOMAIN planned' \cup served
  BY <1>1 DEF PlannedFrom, StartedServed
<1>3. job \in Scheduled(cfg) /\ IsBase(Schedule(cfg, job), now)
  BY DEF IInv, CallsConfigured, CallsNow, Callback
<1>4. /\ now \in Nat /\ now \in 0..MaxTime /\ cfg \in Candidates /\ Valid(cfg)
  BY SlotTypes DEF IInv, TypeOK
<1>5. Latest(Schedule(cfg, job), now) = now
  BY <1>3, <1>4, LatestIs, Positive
<1>6. CallbackPlans(job) = Wanted(cfg, job, now) BY <1>5 DEF CallbackPlans
<1>7. now <= now + DayLength /\ now >= now - MaxAge
  BY <1>4, CalendarAssumption, Positive
<1>8. ASSUME FitsIn(cfg, Slot(job, now))
      PROVE  Slot(job, now) \in DOMAIN planned' \cup served
  <2>1. Slot(job, now) \in AllSlots /\ Slot(job, now).base = now
    BY <1>3, <1>4, <1>7, SlotIs
  <2>2. Slot(job, now) \in CallbackPlans(job)
    BY <1>4, <1>6, <1>8, <2>1, WantedHere
  <2> QED BY <1>2, <1>7, <2>1, <2>2
<1> QED BY <1>2, <1>6, <1>8

(* The pass has claimed the slots of the minute before. *)
LEMMA BehindPass ==
  ASSUME now \in Nat, age \in Nat, Punctual, Lucky, passed,
         NEW job \in Scheduled(cfg)
  PROVE  ~(age > 1 /\ Slot(job, now - 1) \in DOMAIN planned)
<1>1. Slot(job, now - 1).job = job /\ Slot(job, now - 1).base = now - 1 BY DEF Slot
<1>2. ASSUME age > 1, Slot(job, now - 1) \in DOMAIN planned PROVE FALSE
  <2>1. now - 1 > now - age BY <1>2
  <2>2. now - 1 >= now BY <1>1, <1>2, <2>1 DEF Punctual
  <2> QED BY <2>2
<1> QED BY <1>2

LEMMA InTimeNext ==
  ASSUME IInv, Serving, Step PROVE InTime'
<1>1. /\ now \in Nat /\ age \in 0..Grown /\ failures \in Nat /\ age \in Nat
      /\ Valid(cfg) /\ cfg \in Candidates /\ Grown \in Nat
  BY SlotTypes, CalendarAssumption DEF IInv, TypeOK, Grown
<1>2. SUFFICES ASSUME Lucky', NEW b \in Nat, NEW job \in Scheduled(cfg'),
                      now' - age' < b, b <= now', FitsIn(cfg', Slot(job, b))
               PROVE  \/ Slot(job, b) \in DOMAIN planned' \cup served'
                      \/ /\ b = now' /\ (ByCallback(job)' \/ ByClaim(job)')
                         /\ failures' = 0 => ByCallback(job)' /\ ByClaim(job)'
  BY DEF InTime
<1> DEFINE s == Slot(job, b)
<1>3. s.base = b /\ s.job = job BY DEF Slot
<1> HIDE DEF s
<1>4. CASE Running
  <2>1. /\ Lucky /\ now' = now /\ age' = age /\ cfg' = cfg
        /\ failures \in 0..1 /\ failures' \in {failures, 1}
        /\ served \subseteq served'
        /\ \A x \in DOMAIN planned : x.base >= now - MaxAge =>
             x \in DOMAIN planned' \cup served'
    BY <1>2, <1>4, RunningIs DEF Serving
  <2>2. b >= now - MaxAge /\ now - age < b /\ b <= now
    BY <1>1, <1>2, <2>1, CalendarAssumption DEF Grown
  <2>3. CASE s \in DOMAIN planned \cup served
    BY <1>3, <2>1, <2>2, <2>3 DEF s
  <2>4. ASSUME s \notin DOMAIN planned \cup served
        PROVE  /\ b = now /\ (ByCallback(job) \/ ByClaim(job))
               /\ failures = 0 => ByCallback(job) /\ ByClaim(job)
    BY <1>2, <2>1, <2>2, <2>4 DEF Serving, InTime, s
  <2>5. ASSUME b = now, ByClaim(job), failures' = failures
        PROVE  ByClaim(job)' \/ s \in DOMAIN planned' \cup served'
    <3>1. age > 1 /\ Handed(job, now - 1, b) BY <2>5 DEF ByClaim
    <3>2. now - 1 \in Nat /\ now - 1 >= now - MaxAge /\ b <= now + DayLength
      <4>1. age <= now BY DEF Serving, Aged
      <4> QED BY <1>1, <2>5, <3>1, <4>1, Positive, CalendarAssumption
    <3>3. Slot(job, now - 1) \in DOMAIN planned' \/ s \in DOMAIN planned' \cup served'
      BY <1>2, <1>4, <2>1, <2>2, <2>5, <3>1, <3>2, HandedOn DEF Serving, s
    <3> QED BY <2>1, <2>5, <3>1, <3>3 DEF ByClaim, Handed
  <2>6. ASSUME b = now, ByCallback(job), ~ByCallback(job)'
        PROVE  job \in Job /\ Callback(job)
    <3>1. job \in calls /\ job \notin calls' BY <2>6 DEF ByCallback
    <3> QED BY <1>4, <3>1 DEF Running, NothingDue, Claim, Callback, ClaimFails,
                              Rejected, vars
  <2>7. ASSUME b = now, job \in Job, Callback(job), failures' = failures
        PROVE  s \in DOMAIN planned' \cup served'
    <3>1. Slot(job, now) \in DOMAIN planned' \cup served
      BY <1>2, <2>1, <2>7, CalledBack DEF Serving
    <3> QED BY <2>1, <2>7, <3>1 DEF s
  <2>8. ASSUME b = now, job \in Job, Callback(job), ByClaim(job)
        PROVE  ByClaim(job)'
    <3>1. Slot(job, now - 1) \in DOMAIN planned BY <2>8 DEF ByClaim, Handed
    <3>2. Slot(job, now - 1).base = now - 1 BY DEF Slot
    <3>3. now - 1 >= now - MaxAge BY <1>1, CalendarAssumption
    <3>4. Slot(job, now - 1) \in DOMAIN planned'
      BY <2>8, <3>1, <3>2, <3>3, CallbackKeeps DEF PlannedFrom
    <3> QED BY <2>1, <2>8, <3>4 DEF ByClaim, Handed
  <2>9. CASE s \notin DOMAIN planned \cup served /\ failures' = failures
    BY <2>1, <2>4, <2>5, <2>6, <2>7, <2>9 DEF s
  <2>10. CASE s \notin DOMAIN planned \cup served /\ failures' # failures
    <3>1. failures = 0 /\ failures' = 1 BY <2>1, <2>10
    <3> QED BY <2>1, <2>4, <2>6, <2>8, <2>10, <3>1
  <2> QED BY <2>3, <2>9, <2>10
<1>5. CASE Start \/ \E c \in Candidates : Configure(c)
  <2>1. age' = 0 BY <1>5 DEF Start, Configure, Install
  <2>2. now' = now BY <1>5 DEF Start, Configure
  <2>3. now - 0 < b /\ b <= now BY <1>2, <2>1, <2>2
  <2> QED BY <1>1, <2>3
<1>6. CASE Stop \/ Crash
  BY <1>2, <1>6 DEF Lucky, Stop, Crash, Down
<1>7. CASE Tick
  <2>1. /\ up /\ Lucky /\ calls = {} /\ passed /\ cfg' = cfg /\ failures' = failures
        /\ now' = now + 1 /\ planned' = planned /\ served' = served
        /\ calls' = {j \in Scheduled(cfg) : IsBase(Schedule(cfg, j), now')}
    BY <1>2, <1>7 DEF Tick, Lucky, slotVars
  <2>2. age' = age + 1 \/ (age' = Grown /\ age >= Grown)
    BY <1>7, <2>1, AgeTicks DEF IInv
  <2>3. ~(age > 1 /\ Slot(job, now - 1) \in DOMAIN planned)
    BY <1>1, <1>2, <2>1, BehindPass DEF Serving
  <2>4. CASE b = now'
    <3>1. ByCallback(job)' BY <1>2, <1>3, <2>1, <2>4 DEF FitsIn, ByCallback, s
    <3>2. ASSUME failures = 0, s \notin DOMAIN planned PROVE ByClaim(job)'
      <4>1. b = Next(Schedule(cfg, job), now)
        <5>1. IsBase(Schedule(cfg, job), b) BY <1>2, <1>3, <2>1 DEF FitsIn, s
        <5>2. b \in (now + 1)..(now + DayLength) /\ now \in Int /\ now >= -1
          BY <1>1, <2>1, <2>4, Positive
        <5>3. /\ Next(Schedule(cfg, job), now) \in Nat
              /\ now < Next(Schedule(cfg, job), now)
              /\ Next(Schedule(cfg, job), now) <= b
          BY <5>1, <5>2, NextIs
        <5> QED BY <1>1, <2>1, <2>4, <5>3
      <4>2. age > 0 /\ Handed(job, now, b)
        BY <1>2, <2>1, <2>3, <3>2, <4>1
        DEF Serving, Ahead, Undisturbed, Handed, s
      <4>3. age' > 1
        BY <1>1, <2>2, <4>2, CalendarAssumption DEF Grown
      <4>4. now' - 1 = now BY <1>1, <2>1
      <4> QED BY <2>1, <2>4, <4>2, <4>3, <4>4 DEF ByClaim, Handed
    <3> QED BY <2>1, <2>4, <3>1, <3>2 DEF s
  <2>5. CASE b <= now
    <3>1. now - age < b
      <4>1. CASE age' = age + 1 BY <1>1, <1>2, <2>1, <4>1
      <4>2. CASE age' = Grown /\ age >= Grown
        <5>1. now + 1 - Grown < b BY <1>1, <1>2, <2>1, <4>2
        <5> QED BY <1>1, <4>2, <5>1
      <4> QED BY <2>2, <4>1, <4>2
    <3>2. ~ByCallback(job) BY <2>1 DEF ByCallback
    <3>3. ~ByClaim(job) BY <2>3 DEF ByClaim, Handed
    <3> QED BY <1>2, <2>1, <2>5, <3>1, <3>2, <3>3 DEF Serving, InTime
  <2> QED BY <1>1, <1>2, <2>1, <2>4, <2>5
<1> QED BY <1>4, <1>5, <1>6, <1>7 DEF Step, Running

LEMMA AheadNext ==
  ASSUME IInv, Serving, Step PROVE Ahead'
<1>1. /\ now \in Nat /\ now \in 0..MaxTime /\ age \in Nat /\ Grown \in Nat \ {0}
      /\ failures \in Nat /\ Valid(cfg) /\ cfg \in Candidates
  BY SlotTypes, CalendarAssumption DEF IInv, TypeOK, Grown
<1>2. ServedPast'
  BY PlainNext DEF Serving
<1>3. SUFFICES ASSUME Undisturbed', NEW b \in Nat, NEW job \in Scheduled(cfg'),
                      b = Next(Schedule(cfg', job), now'),
                      FitsIn(cfg', Slot(job, b))
               PROVE  \/ Slot(job, b) \in DOMAIN planned'
                      \/ age' > 0 /\ Handed(job, now, b)'
                      \/ age' > 1 /\ Handed(job, now - 1, b)'
                      \/ /\ job \in calls'
                         /\ Slot(job, now') \notin DOMAIN planned' \cup served'
  BY DEF Ahead
<1> DEFINE s == Slot(job, b)
<1>4. s.base = b /\ s.job = job BY DEF Slot
<1> HIDE DEF s
<1>5. ASSUME now' = now
      PROVE  /\ now < b /\ b <= now + DayLength /\ b >= now - MaxAge
             /\ s \notin served'
  <2>1. b # None BY DEF None
  <2>2. now < b /\ b <= now + DayLength BY <1>1, <1>3, <1>5, <2>1, NextIs
  <2>3. s \notin served' BY <1>1, <1>2, <1>4, <1>5, <2>2 DEF ServedPast
  <2> QED BY <1>1, <2>2, <2>3, Positive, CalendarAssumption
<1>6. CASE Running
  <2>1. /\ failures = 0 /\ up /\ failures' = failures /\ now' = now /\ age' = age /\ cfg' = cfg
        /\ served' \subseteq served \cup DOMAIN planned
        /\ \A x \in DOMAIN planned : x.base >= now - MaxAge =>
             x \in DOMAIN planned' \cup served'
    BY <1>3, <1>6, RunningIs DEF Serving, Lucky, Undisturbed
  <2>2. /\ now < b /\ b <= now + DayLength /\ b >= now - MaxAge /\ s \notin served'
    BY <1>5, <2>1
  <2>3. CASE s \in DOMAIN planned BY <1>4, <2>1, <2>2, <2>3 DEF s
  <2>4. ASSUME NEW t \in {now, now - 1}, t \in Nat, Handed(job, t, b)
        PROVE  s \in DOMAIN planned' \/ Slot(job, t) \in DOMAIN planned'
    <3>1. t >= now - MaxAge BY <1>1, <2>4, CalendarAssumption
    <3> QED BY <1>3, <1>6, <2>1, <2>2, <2>4, <3>1, HandedOn DEF Serving, s
  <2>5. CASE age > 0 /\ Handed(job, now, b)
    BY <1>1, <2>1, <2>4, <2>5 DEF Handed, s
  <2>6. CASE age > 1 /\ Handed(job, now - 1, b)
    <3>1. now - 1 \in Nat BY <1>1, <2>6 DEF Serving, Aged
    <3> QED BY <2>1, <2>4, <2>6, <3>1 DEF Handed, s
  <2>7. ASSUME job \in calls, Slot(job, now) \notin DOMAIN planned \cup served
        PROVE  \/ s \in DOMAIN planned'
               \/ age > 0 /\ Slot(job, now) \in DOMAIN planned'
               \/ job \in calls' /\ Slot(job, now) \notin DOMAIN planned' \cup served'
    <3>1. age > 0 /\ IsBase(Schedule(cfg, job), now)
      BY <2>7 DEF Serving, CallsNow
    <3>2. Slot(job, now) \notin served' BY <2>1, <2>7
    <3>3. CASE job \in calls' BY <3>1, <3>2, <3>3
    <3>4. CASE job \notin calls'
      <4>1. job \in Job /\ Callback(job)
        BY <1>6, <2>7, <3>4 DEF Running, NothingDue, Claim, Callback, ClaimFails,
                                Rejected, vars
      <4>2. /\ \A x \in CallbackPlans(job) : x.base >= now - MaxAge =>
                 x \in DOMAIN planned' \cup served
            /\ CallbackPlans(job) = Wanted(cfg, job, now)
            /\ FitsIn(cfg, Slot(job, now)) =>
                 Slot(job, now) \in DOMAIN planned' \cup served
        BY <2>1, <4>1, CalledBack DEF Serving
      <4>3. CASE FitsIn(cfg, Slot(job, now)) BY <2>7, <3>1, <4>2, <4>3
      <4>4. CASE ~FitsIn(cfg, Slot(job, now))
        <5>1. job = Quota /\ Covered(cfg, now)
          BY <1>3, <2>1, <3>1, <4>4 DEF FitsIn, Slot
        <5>2. ~Covered(cfg, b) BY <1>3, <1>4, <2>1, <5>1 DEF FitsIn, s
        <5>3. IsBase(cfg.quota, now) /\ b = Next(cfg.quota, now)
          BY <1>3, <2>1, <3>1, <5>1 DEF Schedule
        <5>4. s \in Wanted(cfg, job, now)
          BY <1>1, <5>1, <5>2, <5>3, WantedNext DEF s
        <5>5. s \in DOMAIN planned' \cup served BY <1>4, <2>2, <4>2, <5>4
        <5>6. s \notin served BY <1>1, <1>4, <2>2 DEF Serving, ServedPast
        <5> QED BY <5>5, <5>6
      <4> QED BY <4>3, <4>4
    <3> QED BY <3>3, <3>4
  <2>8. \/ s \in DOMAIN planned
        \/ age > 0 /\ Handed(job, now, b)
        \/ age > 1 /\ Handed(job, now - 1, b)
        \/ job \in calls /\ Slot(job, now) \notin DOMAIN planned \cup served
    BY <1>3, <2>1 DEF Serving, Ahead, Undisturbed, s
  <2> QED BY <1>3, <2>1, <2>3, <2>5, <2>6, <2>7, <2>8 DEF Handed, s
<1>7. ASSUME NEW c \in Candidates, Valid(c), cfg' = c, now' = now,
             NEW waiting, NEW begun, begun \subseteq served',
             PlannedFrom(Bootstrap(c), waiting, begun)
      PROVE  s \in DOMAIN planned'
  <2>1. /\ now < b /\ b <= now + DayLength /\ b >= now - MaxAge /\ s \notin served'
    BY <1>5, <1>7
  <2>2. failures' = failures
    BY <1>1, <1>3, <1>7 DEF Undisturbed, PlannedFrom
  <2>3. s \in AllSlots BY <1>1, <1>3, <1>7, <2>1, SlotIs DEF s
  <2>4. s \in Wanted(c, job, b) BY <1>3, <1>7, <2>3, WantedHere DEF s
  <2>5. s \in Bootstrap(c) BY <1>3, <1>7, <2>4 DEF Bootstrap
  <2> QED BY <1>4, <1>7, <2>1, <2>2, <2>5 DEF PlannedFrom
<1>8. CASE Start
  <2>1. PlannedFrom(Bootstrap(cfg), planned, started) BY <1>8, StartKeeps
  <2>2. cfg' = cfg /\ now' = now /\ started \subseteq served'
    BY <1>8 DEF Start, Serving, StartedServed
  <2> QED BY <1>1, <1>7, <2>1, <2>2 DEF s
<1>9. ASSUME NEW c \in Candidates, Configure(c) PROVE s \in DOMAIN planned'
  <2>1. PICK S \in Unfinished :
          /\ served' = served \ S
          /\ PlannedFrom(Bootstrap(c), PutBack(S), started \ S)
    BY <1>9, ConfigureKeeps
  <2>2. cfg' = c /\ now' = now /\ Valid(c) BY <1>9 DEF Configure
  <2>3. started \ S \subseteq served' BY <2>1 DEF Serving, StartedServed
  <2> QED BY <1>7, <2>1, <2>2, <2>3
<1>10. CASE Stop \/ Crash
  BY <1>3, <1>10 DEF Undisturbed, Stop, Crash, Down
<1>11. CASE Tick
  <2>1. /\ up /\ Lucky /\ failures = 0 /\ calls = {} /\ passed /\ cfg' = cfg
        /\ now' = now + 1 /\ planned' = planned /\ served' = served
        /\ calls' = {j \in Scheduled(cfg) : IsBase(Schedule(cfg, j), now')}
    BY <1>3, <1>11 DEF Tick, Undisturbed, Lucky, slotVars
  <2>2. age' = age + 1 \/ (age' = Grown /\ age >= Grown)
    BY <1>11, <2>1, AgeTicks DEF IInv
  <2>3. age' > 0 /\ (age > 0 => age' > 1)
    BY <1>1, <2>2, CalendarAssumption DEF Grown
  <2> DEFINE schedule == Schedule(cfg, job)  t == now + 1
  <2>4. t \in Nat /\ now' = t BY <1>1, <2>1
  <2>5. CASE IsBase(schedule, t)
    <3>1. Slot(job, t).base = t BY DEF Slot
    <3>2. Slot(job, t) \notin served BY <1>1, <3>1 DEF Serving, ServedPast
    <3>3. job \in calls' BY <1>3, <2>1, <2>5
    <3>4. Slot(job, t) \in DOMAIN planned => Handed(job, now, b)'
      BY <1>3, <2>1 DEF Handed
    <3> QED BY <2>1, <2>3, <3>2, <3>3, <3>4
  <2>6. CASE ~IsBase(schedule, t)
    <3> HIDE DEF schedule
    <3>1. b = Next(schedule, t) BY <1>3, <2>1 DEF schedule
    <3>2. b # None BY DEF None
    <3>3. /\ t < b /\ b <= t + DayLength /\ IsBase(schedule, b)
          /\ \A x \in (t + 1)..(t + DayLength) : IsBase(schedule, x) => b <= x
      BY <2>4, <3>1, <3>2, NextIs
    <3>4. b # t + DayLength BY <2>4, <2>6, <3>3, EveryDay
    <3> DEFINE n == Next(schedule, now)
    <3>5. b \in (now + 1)..(now + DayLength) BY <1>1, <2>4, <3>3, <3>4, Positive
    <3>6. n \in Nat /\ now < n /\ n <= now + DayLength /\ IsBase(schedule, n) /\ n <= b
      BY <1>1, <3>3, <3>5, NextIs
    <3> HIDE DEF n
    <3>7. n # t BY <2>6, <3>6
    <3>8. n \in (t + 1)..(t + DayLength) BY <1>1, <3>6, <3>7, Positive
    <3>9. n = b BY <3>3, <3>6, <3>8
    <3>10. b = Next(Schedule(cfg, job), now) BY <3>9 DEF n, schedule
    <3>11. ~(age > 1 /\ Slot(job, now - 1) \in DOMAIN planned)
      BY <1>1, <1>3, <2>1, BehindPass DEF Serving
    <3>12. \/ Slot(job, b) \in DOMAIN planned
           \/ age > 0 /\ Handed(job, now, b)
      BY <1>3, <2>1, <3>10, <3>11 DEF Serving, Ahead, Undisturbed, Handed
    <3>13. now' - 1 = now BY <1>1, <2>1
    <3>14. Handed(job, now, b) => Handed(job, now - 1, b)'
      BY <2>1, <3>13 DEF Handed
    <3> QED BY <2>1, <2>3, <3>12, <3>14
  <2> QED BY <2>5, <2>6
<1> QED BY <1>6, <1>8, <1>9, <1>10, <1>11 DEF Step, Running, s

LEMMA PunctualNext ==
  ASSUME IInv, Serving, MaxJitter = 1, Step PROVE Punctual'
<1>1. /\ TypeOK /\ now \in Nat /\ age \in Nat /\ DOMAIN planned \subseteq AllSlots
      /\ \A s \in AllSlots : s.base \in Nat
  BY SlotTypes, CalendarAssumption DEF IInv, TypeOK, Grown
<1>2. IInv' BY IInvNext
<1>3. DOMAIN planned' \subseteq AllSlots BY <1>2 DEF IInv, TypeOK, AllSlots
<1>4. SUFFICES ASSUME Lucky', NEW s, s \in DOMAIN planned',
                      s.job \in Scheduled(cfg'), s.base > now' - age'
               PROVE  s.base >= now' - 1 /\ (passed' => s.base >= now')
  BY DEF Punctual
<1>5. s \in AllSlots /\ s.base \in Nat BY <1>1, <1>3, <1>4
<1>6. CASE Running
  <2>1. /\ Lucky /\ now' = now /\ age' = age /\ cfg' = cfg
        /\ s \notin DOMAIN planned => FitsIn(cfg, s) /\ s \notin started
        /\ passed' /\ ~passed => s \notin Due
    BY <1>4, <1>6, RunningIs DEF Serving
  <2>2. s.base > now - age /\ s.job \in Scheduled(cfg) BY <1>4, <2>1
  <2>3. CASE s \in DOMAIN planned
    <3>1. s.base >= now - 1 /\ (passed => s.base >= now)
      BY <2>1, <2>2, <2>3 DEF Serving, Punctual
    <3>2. ASSUME passed', ~passed PROVE s.base >= now
      <4>1. ASSUME s.base = now - 1 PROVE FALSE
        <5>1. planned[s] \in s.base..(s.base + MaxJitter)
          BY <1>1, <2>3, SlotTypes DEF DueTimes
        <5>2. planned[s] <= now BY <1>1, <1>5, <4>1, <5>1
        <5>3. s \in Due BY <2>2, <2>3, <4>1, <5>2, DueSoon DEF Serving
        <5> QED BY <2>1, <3>2, <5>3
      <4> QED BY <1>1, <1>5, <3>1, <4>1
    <3> QED BY <2>1, <3>1, <3>2
  <2>4. CASE s \notin DOMAIN planned
    <3>1. ~(s.base < now) BY <1>1, <1>5, <2>1, <2>2, <2>4, NoneLeft
    <3> QED BY <1>1, <1>5, <2>1, <3>1
  <2> QED BY <2>3, <2>4
<1>7. CASE Start \/ \E c \in Candidates : Configure(c)
  <2>1. now' = now /\ age' = 0 /\ passed' = FALSE
    BY <1>7 DEF Start, Configure, Install
  <2>2. s.base > now - 0 BY <1>4, <2>1
  <2> QED BY <1>1, <1>5, <2>1, <2>2
<1>8. CASE Stop \/ Crash
  BY <1>4, <1>8 DEF Lucky, Stop, Crash, Down
<1>9. CASE Tick
  <2>1. /\ up /\ failures <= 1 /\ cfg' = cfg /\ now' = now + 1
        /\ planned' = planned /\ passed /\ passed' = FALSE
    BY <1>4, <1>9 DEF Tick, Lucky, slotVars
  <2>2. now' - age' >= now - age BY <1>1, <1>9, <2>1, AgeTicks
  <2>3. s.base > now - age
    <3>1. Grown \in Nat BY CalendarAssumption DEF Grown
    <3>2. CASE age' = age + 1 BY <1>1, <1>4, <1>5, <2>1, <3>2
    <3>3. CASE age' = Grown /\ age >= Grown
      BY <1>1, <1>4, <1>5, <2>1, <3>1, <3>3
    <3> QED BY <1>1, <1>9, <2>1, <3>2, <3>3, AgeTicks
  <2>4. s.base >= now
    BY <1>4, <2>1, <2>3 DEF Serving, Punctual, Lucky
  <2> QED BY <1>1, <1>5, <2>1, <2>4
<1> QED BY <1>6, <1>7, <1>8, <1>9 DEF Step, Running

(* Two times of a day are less than a day apart. *)
LEMMA WithinDay ==
  ASSUME NEW b \in Nat, NEW t \in Nat, b <= t, SameDate(b, t)
  PROVE  t - b < DayLength
<1> DEFINE q == b \div DayLength  h == b % DayLength  k == t % DayLength
<1>1. /\ q \in Nat /\ h \in 0..(DayLength - 1) /\ k \in 0..(DayLength - 1)
      /\ b = DayLength * q + h /\ t = DayLength * (t \div DayLength) + k
  BY Divided, Positive
<1>2. t = DayLength * q + k BY <1>1 DEF SameDate
<1>3. DayLength * q \in Nat BY <1>1, Positive, SMT
<1> HIDE DEF q, h, k
<1> QED BY <1>1, <1>2, <1>3, Positive

(* For a base time of the schedules some job has a slot of its own. *)
LEMMA Servable ==
  ASSUME NEW c, NEW b \in Nat, NEW j \in Scheduled(c), IsBase(Schedule(c, j), b),
         Quota \notin DOMAIN c.jobs
  PROVE  \E job \in Scheduled(c) : FitsIn(c, Slot(job, b))
<1>1. \A job : Slot(job, b).job = job /\ Slot(job, b).base = b BY DEF Slot
<1>2. CASE j = Quota /\ Covered(c, b)
  <2>1. PICK job \in DOMAIN c.jobs : c.automatic /\ IsBase(c.jobs[job], b)
    BY <1>2, CoveredIs
  <2>2. job \in Scheduled(c) /\ job # Quota BY <2>1 DEF Scheduled
  <2> QED BY <1>1, <2>1, <2>2 DEF FitsIn, Schedule
<1>3. CASE ~(j = Quota /\ Covered(c, b)) BY <1>1, <1>3 DEF FitsIn
<1> QED BY <1>2, <1>3

LEMMA JobsAreNotQuota ==
  ASSUME NEW c \in Candidates PROVE Quota \notin DOMAIN c.jobs
BY CalendarAssumption

LEMMA MissedIs ==
  ASSUME NEW b, NEW since
  PROVE  b \in Missed(since) <=>
           /\ \E job \in Scheduled(cfg) : b \in 0..since /\ IsBase(Schedule(cfg, job), b)
           /\ SameDate(b, since) /\ since - b <= MaxLate
BY DEF Missed, ScheduledBases, Bases

(* An installation plans the slot of the base time to be made up for. *)
LEMMA Installed ==
  ASSUME NEW c \in Candidates, Valid(c), now \in 0..MaxTime, NEW b \in Nat,
         NEW j \in Scheduled(c), b \in 0..now, IsBase(Schedule(c, j), b),
         SameDate(b, now), now - b <= MaxLate,
         \A k \in Scheduled(c) : \A d \in 0..now :
           IsBase(Schedule(c, k), d) /\ SameDate(d, now) /\ now - d <= MaxLate => d <= b
  PROVE  \E job \in Scheduled(c) :
           FitsIn(c, Slot(job, b)) /\ Slot(job, b) \in Bootstrap(c)
<1>1. now \in Nat BY Positive
<1>2. PICK job \in Scheduled(c) : FitsIn(c, Slot(job, b))
  BY Servable, JobsAreNotQuota
<1>3. Slot(job, b).job = job /\ Slot(job, b).base = b BY DEF Slot
<1>4. IsBase(Schedule(c, job), b) BY <1>2, <1>3 DEF FitsIn
<1> DEFINE n == Latest(Schedule(c, job), now)
<1>5. n = b
  <2>1. now - b < DayLength BY <1>1, WithinDay
  <2>2. n # None /\ n \in Nat /\ n <= now /\ IsBase(Schedule(c, job), n) /\ b <= n
    BY <1>1, <1>4, <2>1, LatestIs
  <2> HIDE DEF n
  <2>3. SameDate(n, now) BY <1>1, <2>2, BetweenDay
  <2>4. now - n <= MaxLate BY <1>1, <2>2, Positive
  <2>5. n <= b BY <1>1, <2>2, <2>3, <2>4
  <2> QED BY <2>2, <2>5
<1>6. Slot(job, b) \in AllSlots
  <2>1. job \in Job BY CalendarAssumption DEF Scheduled, Job
  <2>2. b \in Time BY <1>1, CalendarAssumption, Positive DEF Time
  <2> QED BY <2>1, <2>2 DEF Slot, AllSlots
<1>7. Slot(job, b) \in Wanted(c, job, b) BY <1>2, <1>6, WantedHere
<1>8. CatchUp(c, job) = Wanted(c, job, b) BY <1>5 DEF CatchUp, None
<1> QED BY <1>2, <1>7, <1>8 DEF Bootstrap

LEMMA CatchingUpNext ==
  ASSUME IInv, Serving, MaxJitter = 1, Step PROVE CatchingUp'
<1> USE DEF PlannedFrom
<1>1. /\ TypeOK /\ now \in Nat /\ now \in 0..MaxTime /\ age \in Nat /\ Settled = 3
      /\ cfg \in Candidates /\ Valid(cfg) /\ DOMAIN planned \subseteq AllSlots
      /\ Grown = 4 /\ failures \in Nat
  BY SlotTypes, CalendarAssumption DEF IInv, TypeOK, Grown, Settled
<1>2. SUFFICES ASSUME Undisturbed', age' <= Settled, NEW b \in Nat,
                      ToBeCaughtUp(b, now - age)'
               PROVE  \/ Served(b)'
                      \/ \E job \in Scheduled(cfg') :
                           /\ Slot(job, b) \in DOMAIN planned'
                           /\ FitsIn(cfg', Slot(job, b))
                           /\ \/ age' = 0 /\ (passed' => b = now' - age')
                              \/ age' = 1 /\ ~passed' /\ b = now' - age'
  BY DEF CatchingUp, Settled
<1>3. \A job : Slot(job, b).job = job /\ Slot(job, b).base = b BY DEF Slot
<1>4. ASSUME cfg' = cfg, now' - age' = now - age
      PROVE  ToBeCaughtUp(b, now - age)
  BY <1>2, <1>4
  DEF ToBeCaughtUp, Missed, ScheduledBases, Bases, NotTooLate, Covered
<1>5. CASE Running
  <2>1. /\ Undisturbed /\ now' = now /\ age' = age /\ cfg' = cfg
        /\ served \subseteq served'
        /\ \A s \in DOMAIN planned : s.base >= now - MaxAge =>
             s \in DOMAIN planned' \cup served'
        /\ passed' /\ ~passed => DOMAIN planned' \cap Due = {}
    BY <1>2, <1>5, RunningIs DEF Serving, Lucky, Undisturbed
  <2>2. ToBeCaughtUp(b, now - age) BY <1>4, <2>1
  <2>3. Served(b)
        \/ \E job \in Scheduled(cfg) :
             /\ Slot(job, b) \in DOMAIN planned /\ FitsIn(cfg, Slot(job, b))
             /\ \/ age = 0 /\ (passed => b = now - age)
                \/ age = 1 /\ ~passed /\ b = now - age
    BY <1>2, <2>1, <2>2 DEF Serving, CatchingUp
  <2>4. CASE Served(b) BY <2>1, <2>4 DEF Served
  <2>5. ASSUME NEW job \in Scheduled(cfg), Slot(job, b) \in DOMAIN planned,
               FitsIn(cfg, Slot(job, b)), age = 0, passed => b = now
        PROVE  \/ Served(b)'
               \/ Slot(job, b) \in DOMAIN planned' /\ (passed' => b = now)
    <3> DEFINE s == Slot(job, b)
    <3>1. b <= now /\ SameDate(b, now) /\ now - b <= MaxLate
      BY <1>1, <2>2, <2>5, MissedIs DEF ToBeCaughtUp
    <3>2. s \in DOMAIN planned' \cup served'
      BY <1>1, <1>3, <2>1, <2>5, <3>1, Positive
    <3>3. ASSUME s \in DOMAIN planned', passed', ~passed, b # now PROVE FALSE
      <4>1. planned[s] \in s.base..(s.base + MaxJitter)
        BY <2>5, SlotTypes DEF IInv, DueTimes
      <4>2. planned[s] <= now BY <1>1, <1>3, <3>1, <3>3, <4>1
      <4>3. ~(job # Quota /\ HourOf(b) = LastHour /\ now > b + LateInLastHour)
        <5>1. SUFFICES ASSUME job # Quota, HourOf(b) = LastHour
                       PROVE  ~(now > b + LateInLastHour)
          OBVIOUS
        <5>2. Covered(cfg, b) BY <1>1, <1>3, <2>5, <5>1, FitsDaytime
        <5>3. now - age <= b + LateInLastHour
          BY <2>2, <5>1, <5>2 DEF ToBeCaughtUp, NotTooLate
        <5> QED BY <1>1, <2>5, <5>3, CalendarAssumption
      <4>4. s \in Due BY <1>3, <2>5, <3>1, <4>2, <4>3 DEF Due, Claimable
      <4> QED BY <2>1, <3>3, <4>4
    <3>4. s \in served' => Served(b)' BY <1>3 DEF Served
    <3> QED BY <2>5, <3>2, <3>3, <3>4
  <2>6. ASSUME NEW job \in Scheduled(cfg), Slot(job, b) \in DOMAIN planned,
               FitsIn(cfg, Slot(job, b)), age = 1, ~passed, b = now - 1
        PROVE  \/ Served(b)'
               \/ Slot(job, b) \in DOMAIN planned' /\ ~passed'
    <3> DEFINE s == Slot(job, b)
    <3>1. s \in DOMAIN planned' \cup served'
      BY <1>1, <1>3, <2>1, <2>6, CalendarAssumption
    <3>2. ASSUME s \in DOMAIN planned', passed' PROVE FALSE
      <4>1. planned[s] \in s.base..(s.base + MaxJitter)
        BY <2>6, SlotTypes DEF IInv, DueTimes
      <4>2. planned[s] <= now BY <1>1, <1>3, <2>6, <4>1
      <4>3. s \in Due BY <1>3, <2>6, <4>2, DueSoon DEF Serving
      <4> QED BY <2>1, <2>6, <3>2, <4>3
    <3>3. s \in served' => Served(b)' BY <1>3 DEF Served
    <3> QED BY <3>1, <3>2, <3>3
  <2> QED BY <1>1, <2>1, <2>3, <2>4, <2>5, <2>6
<1>6. ASSUME NEW c \in Candidates, Valid(c), cfg' = c, now' = now, age' = 0,
             passed' = FALSE, NEW waiting, NEW begun, begun \subseteq served',
             PlannedFrom(Bootstrap(c), waiting, begun)
      PROVE  \/ Served(b)'
             \/ \E job \in Scheduled(cfg') :
                  /\ Slot(job, b) \in DOMAIN planned'
                  /\ FitsIn(cfg', Slot(job, b))
                  /\ age' = 0 /\ (passed' => b = now' - age')
  <2>1. failures' = failures BY <1>1, <1>2, <1>6 DEF Undisturbed
  <2>2. /\ b \in Missed(now)' /\ \A d \in Missed(now)' : d <= b
    BY <1>1, <1>2, <1>6 DEF ToBeCaughtUp, Missed, ScheduledBases, Bases
  <2>3. \A d : d \in Missed(now)' <=>
          /\ \E job \in Scheduled(c) : d \in 0..now /\ IsBase(Schedule(c, job), d)
          /\ SameDate(d, now) /\ now - d <= MaxLate
    BY <1>6 DEF Missed, ScheduledBases, Bases
  <2>4. PICK job \in Scheduled(c) :
          FitsIn(c, Slot(job, b)) /\ Slot(job, b) \in Bootstrap(c)
    BY <1>1, <1>6, <2>2, <2>3, Installed
  <2>5. b >= now - MaxAge BY <1>1, <2>2, <2>3, Positive
  <2>6. Slot(job, b) \in DOMAIN planned' \cup served'
    BY <1>3, <1>6, <2>1, <2>4, <2>5
  <2> QED BY <1>3, <1>6, <2>4, <2>6 DEF Served
<1>7. CASE Start
  <2>1. PlannedFrom(Bootstrap(cfg), planned, started) BY <1>7, StartKeeps
  <2>2. /\ cfg' = cfg /\ now' = now /\ age' = 0 /\ passed' = FALSE
        /\ started \subseteq served'
    BY <1>7 DEF Start, Install, Serving, StartedServed
  <2> QED BY <1>1, <1>6, <2>1, <2>2
<1>8. ASSUME NEW c \in Candidates, Configure(c)
      PROVE  \/ Served(b)'
             \/ \E job \in Scheduled(cfg') :
                  /\ Slot(job, b) \in DOMAIN planned'
                  /\ FitsIn(cfg', Slot(job, b))
                  /\ age' = 0 /\ (passed' => b = now' - age')
  <2>1. PICK S \in Unfinished :
          /\ served' = served \ S
          /\ PlannedFrom(Bootstrap(c), PutBack(S), started \ S)
    BY <1>8, ConfigureKeeps
  <2>2. /\ cfg' = c /\ now' = now /\ age' = 0 /\ passed' = FALSE /\ Valid(c)
    BY <1>8 DEF Configure, Install
  <2>3. started \ S \subseteq served' BY <2>1 DEF Serving, StartedServed
  <2> QED BY <1>6, <2>1, <2>2, <2>3
<1>9. CASE Stop \/ Crash
  BY <1>2, <1>9 DEF Undisturbed, Stop, Crash, Down
<1>10. CASE Tick
  <2>1. /\ up /\ failures = 0 /\ cfg' = cfg /\ now' = now + 1 /\ passed
        /\ planned' = planned /\ served' = served /\ passed' = FALSE
    BY <1>2, <1>10 DEF Tick, Undisturbed, slotVars
  <2>2. age' = age + 1
    <3>1. age' = age + 1 \/ age' = 4 BY <1>1, <1>10, <2>1, AgeTicks
    <3> QED BY <1>1, <1>2, <3>1
  <2>3. now' - age' = now - age BY <1>1, <2>1, <2>2
  <2>4. age <= Settled BY <1>1, <1>2, <2>2
  <2>5. Served(b)
        \/ \E job \in Scheduled(cfg) :
             /\ Slot(job, b) \in DOMAIN planned /\ FitsIn(cfg, Slot(job, b))
             /\ \/ age = 0 /\ (passed => b = now - age)
                \/ age = 1 /\ ~passed /\ b = now - age
    BY <1>4, <2>1, <2>3, <2>4 DEF Serving, CatchingUp, Undisturbed
  <2>6. CASE Served(b) BY <2>1, <2>6 DEF Served
  <2>7. ASSUME NEW job \in Scheduled(cfg), Slot(job, b) \in DOMAIN planned,
               FitsIn(cfg, Slot(job, b)), age = 0, b = now - age
        PROVE  age' = 1 /\ ~passed' /\ b = now' - age'
    BY <1>1, <2>1, <2>2, <2>3, <2>7
  <2> QED BY <2>1, <2>5, <2>6, <2>7
<1> QED BY <1>5, <1>7, <1>8, <1>9, <1>10 DEF Step, Running

LEMMA ServingInit == Init => Serving
BY CalendarAssumption
DEF Init, Serving, StartedServed, ServedPast, BeforeMidnight, CallsNow, Aged, InTime,
    Ahead, Punctual, CatchingUp, Lucky, Undisturbed

LEMMA ServingNext ==
  ASSUME MaxJitter = 1 PROVE IInv /\ Serving /\ [Step]_vars => Serving'
<1>1. ASSUME IInv, Serving, Step PROVE Serving'
  BY <1>1, PlainNext, AgedNext, InTimeNext, AheadNext, PunctualNext, CatchingUpNext
  DEF Serving
<1>2. ASSUME Serving, UNCHANGED vars PROVE Serving'
  <2>1. UNCHANGED <<now, up, cfg, passed, calls, age, failures, planned, started, served>>
    BY <1>2 DEF vars, slotVars
  <2>2. (StartedServed /\ ServedPast /\ BeforeMidnight /\ CallsNow /\ Aged)'
    BY <1>2, <2>1 DEF Serving, StartedServed, ServedPast, BeforeMidnight, CallsNow, Aged
  <2>3. Undisturbed' = Undisturbed /\ Lucky' = Lucky BY <2>1 DEF Undisturbed, Lucky
  <2>4. InTime' /\ Ahead' /\ Punctual'
    BY <1>2, <2>1, <2>3
    DEF Serving, InTime, Ahead, Punctual, ByCallback, ByClaim, Handed
  <2>5. CatchingUp'
    BY <1>2, <2>1, <2>3
    DEF Serving, CatchingUp, ToBeCaughtUp, Missed, ScheduledBases, Bases, NotTooLate,
        Covered, Served
  <2> QED BY <2>2, <2>4, <2>5 DEF Serving
<1> QED BY <1>1, <1>2

LEMMA InTimeServed ==
  ASSUME IInv, Serving, MaxJitter = 1 PROVE ServedInTime
<1>1. /\ now \in Nat /\ age \in Nat /\ Settled = 3 /\ cfg \in Candidates /\ Valid(cfg)
      /\ age <= now
  BY SlotTypes, CalendarAssumption
  DEF IInv, TypeOK, Grown, Settled, Serving, Aged
<1>2. SUFFICES ASSUME age > Settled, failures <= 1,
                      NEW b \in ScheduledBases(now - Settled, now - Settled)
               PROVE  Served(b)
  BY DEF ServedInTime
<1>3. Lucky BY <1>1, <1>2 DEF Serving, Aged, Lucky
<1>4. PICK j \in Scheduled(cfg) :
        b \in (now - Settled)..(now - Settled) /\ IsBase(Schedule(cfg, j), b)
  BY <1>2 DEF ScheduledBases, Bases
<1>5. b \in Nat /\ b = now - 3 BY <1>1, <1>2, <1>4
<1>6. PICK job \in Scheduled(cfg) : FitsIn(cfg, Slot(job, b))
  BY <1>1, <1>4, <1>5, Servable, JobsAreNotQuota
<1>7. Slot(job, b).job = job /\ Slot(job, b).base = b BY DEF Slot
<1>8. now - age < b /\ b <= now /\ b # now /\ ~(b >= now - 1)
  BY <1>1, <1>2, <1>5
<1>9. Slot(job, b) \in DOMAIN planned \cup served
  BY <1>3, <1>5, <1>6, <1>8 DEF Serving, InTime
<1>10. Slot(job, b) \notin DOMAIN planned
  <2>1. b > now - age BY <1>1, <1>5, <1>8
  <2> QED BY <1>3, <1>6, <1>7, <1>8, <2>1 DEF Serving, Punctual
<1> QED BY <1>7, <1>9, <1>10 DEF Served

LEMMA MissedServed ==
  ASSUME IInv, Serving, MaxJitter = 1 PROVE CaughtUp
<1>1. /\ now \in Nat /\ age \in Nat /\ Settled = 3 /\ age <= now
  BY SlotTypes, CalendarAssumption
  DEF IInv, TypeOK, Grown, Settled, Serving, Aged
<1> DEFINE since == now - age  last == Max(Missed(since))
<1>2. SUFFICES ASSUME age = Settled, failures = 0, Missed(since) # {},
                      NotTooLate(last, since)
               PROVE  Served(last)
  BY DEF CaughtUp
<1>3. since \in Nat BY <1>1
<1>4. Missed(since) \subseteq 0..since BY DEF Missed, ScheduledBases, Bases
<1>5. last \in Missed(since) /\ \A d \in Missed(since) : d <= last
  <2> HIDE DEF since
  <2>1. LastOf(Missed(since)) = last BY <1>2 DEF LastOf
  <2> HIDE DEF last
  <2> QED BY <1>2, <1>3, <1>4, <2>1, LastIs
<1>6. last \in Nat BY <1>3, <1>4, <1>5
<1>7. ToBeCaughtUp(last, since) BY <1>2, <1>5 DEF ToBeCaughtUp
<1>8. Undisturbed BY <1>1, <1>2 DEF Serving, Aged, Undisturbed
<1> HIDE DEF last
<1>9. Served(last) \/ age = 0 \/ age = 1
  BY <1>1, <1>2, <1>6, <1>7, <1>8 DEF Serving, CatchingUp
<1> QED BY <1>1, <1>2, <1>9

(* No base time goes unserved, whatever is covered, passed over, disabled  *)
(* before, forgotten, missed by an outage, or failed to be written once:   *)
(* with the code's jitter, less than a minute.                             *)
THEOREM BasesServed ==
  ASSUME MaxJitter = 1 PROVE Spec => []EveryBaseIsServed
<1>1. Init => IInv /\ Serving BY IInvInit, ServingInit
<1>2. IInv /\ Serving /\ [Step]_vars => (IInv /\ Serving)'
  BY IInvNext, ServingNext
<1>3. IInv /\ Serving => EveryBaseIsServed
  BY InTimeServed, MissedServed DEF EveryBaseIsServed
<1> QED BY <1>1, <1>2, <1>3, PTL DEF Spec
=============================================================================
