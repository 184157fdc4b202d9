---------------------------- MODULE SlotCalendar ----------------------------
(***************************************************************************)
(* The calendar of the slot scheduler (scheduler.go, config.go): which     *)
(* base times of the cron schedules become slots, when a slot is claimed,  *)
(* and what a restart or a new configuration does to them.                 *)
(*                                                                         *)
(* One tick is a minute.  Hour, DayStart, LastHour, DayLength, MaxLate,    *)
(* LateInLastHour and MaxAge stand for 60 minutes, 05, 23, 24 hours, 70    *)
(* minutes, 2 minutes and 48 hours, scaled down in their order.  A slot is *)
(* due 10 to 60 seconds after its base: in the base's own tick or the next.*)
(* A handler is one step here: Lifecycle has the steps between a change in *)
(* memory and its write, and the queue the claimed rounds wait in.         *)
(***************************************************************************)
EXTENDS Integers, FiniteSets, FiniteSetsExt, Functions

CONSTANTS
  PrewarmJob,                    \* names of the configured jobs
  Quota,                         \* the job named quota-refresh
  Candidates,                    \* configurations the host may send
  Hour, DayStart, LastHour,      \* ticks of an hour; the hours 05 and 23
  DayLength,                     \* ticks of a day
  MaxJitter,                     \* a slot is due at most this after its base
  MaxLate, LateInLastHour,       \* a slot older than this is not claimed
  MaxAge,                        \* a slot older than this is forgotten
  SkipLimit,                     \* covered quota slots passed over in one go
  FirstStart,                    \* when the plugin is started first
  MaxTime, MaxUpsets, MaxFailures   \* bounds of the checking

ASSUME CalendarAssumption ==
  /\ IsFiniteSet(PrewarmJob) /\ Quota \notin PrewarmJob
  /\ \A c \in Candidates : DOMAIN c.jobs \subseteq PrewarmJob
  /\ {Hour, DayLength, MaxJitter, MaxLate, LateInLastHour, MaxAge,
      SkipLimit, DayStart, LastHour, MaxTime} \subseteq Nat \ {0}
  /\ {MaxUpsets, MaxFailures} \subseteq Nat /\ FirstStart \in 0 .. MaxTime
  /\ DayStart < LastHour /\ DayLength = (LastHour + 1) * Hour
  /\ MaxJitter < LateInLastHour /\ LateInLastHour < Hour
  /\ Hour < MaxLate /\ MaxLate < MaxAge

VARIABLES
  now,       \* ticks since a midnight
  up,        \* the plugin is configured, its scheduler installed
  cfg,       \* r.cfg: automatic_enabled and the cron schedules
  planned,   \* r.state.Slots not started: slot -> the time it is due
  started,   \* r.state.Slots with StartedAt set
  claimed,   \* slots whose rounds the installed scheduler has queued
  passed,    \* the loop has passed in this tick
  calls,     \* jobs whose cron callback is still to come in this tick
  age,       \* ticks since the scheduler was installed, no more than Grown
  served,    \* slots whose round was started and not put back
  stale,     \* slots of before the present configuration, not yet too old
  upsets,    \* stops, crashes and new configurations
  failures   \* failed writes

slotVars == <<planned, started, served, stale>>
vars == <<now, up, cfg, claimed, passed, calls, age, upsets, failures, slotVars>>

Job  == PrewarmJob \cup {Quota}
Time == 0 .. MaxTime + DayLength + MaxJitter
Grown == MaxJitter + 3
None == -1                                        \* the zero time
Slot(job, base) == [job |-> job, base |-> base]

-----------------------------------------------------------------------------
(* Calendar *)

HourOf(t)      == (t % DayLength) \div Hour
SameDate(a, b) == a \div DayLength = b \div DayLength
InScheduleHour(t) == HourOf(t) >= DayStart /\ HourOf(t) <= LastHour

\* A cron expression names hours and minutes; a base time has one of each.
IsBase(schedule, t) == HourOf(t) \in schedule.hours /\ t % Hour \in schedule.minutes
Bases(schedule, from, to) == {t \in from .. to : IsBase(schedule, t)}

FirstOf(S) == IF S = {} THEN None ELSE Min(S)
LastOf(S)  == IF S = {} THEN None ELSE Max(S)

Next(schedule, t)   == FirstOf(Bases(schedule, t + 1, t + DayLength))
\* The code looks back 25 hours.
Latest(schedule, t) == LastOf(Bases(schedule, Max({0, t - DayLength - Hour + 1}), t))

\* scheduledJobs: the quota refresh is independent of automatic prewarming.
Scheduled(c) ==
  (IF c.automatic THEN DOMAIN c.jobs ELSE {})
    \cup (IF c.quota.hours = {} THEN {} ELSE {Quota})
Schedule(c, job) == IF job = Quota THEN c.quota ELSE c.jobs[job]

\* Mutant of Covered: it looks for a prewarm slot after the base time.
CoveredOneLate(c, base) ==
  c.automatic /\ \E job \in DOMAIN c.jobs : Next(c.jobs[job], base) = base

\* quotaCoveredByPrewarm
Covered(c, base) ==
  c.automatic /\ \E job \in DOMAIN c.jobs : Next(c.jobs[job], base - 1) = base

\* Mutant of Valid: slots of 23:59 are accepted.
ValidToMidnight(c) ==
  \A job \in DOMAIN c.jobs : \A h \in c.jobs[job].hours : h \in DayStart .. LastHour

\* What parsePluginConfig accepts.
Valid(c) ==
  /\ \A job \in DOMAIN c.jobs : \A h \in c.jobs[job].hours : h \in DayStart .. LastHour
  /\ \A schedule \in {c.quota} \cup {c.jobs[job] : job \in DOMAIN c.jobs} :
       ~(LastHour \in schedule.hours /\ Hour - 1 \in schedule.minutes)

-----------------------------------------------------------------------------
Init ==
  /\ now = FirstStart /\ up = FALSE /\ age = 0
  /\ cfg \in {c \in Candidates : Valid(c)}
  /\ planned = <<>> /\ started = {} /\ claimed = {}
  /\ passed = FALSE /\ calls = {} /\ served = {} /\ stale = {}
  /\ upsets = 0 /\ failures = 0

-----------------------------------------------------------------------------
(* Planning *)

\* A quota slot that a prewarm slot covers gives way to the next one that
\* none covers, if that is not too far.
Advanced(c, job, base) ==
  LET bases == Bases(Schedule(c, job), base, base + DayLength)
      next  == FirstOf({t \in bases : ~Covered(c, t)})
  IN  IF job # Quota \/ base = None THEN base
      ELSE IF next = None \/ Cardinality({t \in bases : t < next}) > SkipLimit
           THEN None ELSE next

\* The slot planSlot is to add for a base time of a job: one or none.
Wanted(c, job, base) ==
  LET b == Advanced(c, job, base)
  IN  IF b = None \/ (job # Quota /\ ~InScheduleHour(b)) THEN {} ELSE {Slot(job, b)}

WritesFail(n) == failures + n <= MaxFailures /\ failures' = failures + n

Recent(S) == {s \in S : s.base >= now - MaxAge}

\* Mutant of Absent: a started slot does not count as one that exists.
AbsentIfStarted(S, waiting, begun) == S \ DOMAIN waiting

Absent(S, waiting, begun) == S \ (DOMAIN waiting \cup begun)

\* A slot that is there already keeps its due time.
Joined(waiting, due) ==
  [s \in DOMAIN waiting \cup DOMAIN due |->
     IF s \in DOMAIN waiting THEN waiting[s] ELSE due[s]]

\* planSlot for each wanted slot, after the slots of the state have become
\* waiting (unstarted, with their due times) and begun.  A slot that exists
\* stays as it is; the others get a due time, the old slots go, and a slot
\* whose write fails is taken back.
PlanAll(wanted, waiting, begun) ==
  LET new == Absent(wanted, waiting, begun) IN
  \E lost \in SUBSET new :
  \E jitter \in [new \ lost -> 0 .. MaxJitter] :
    LET due == [s \in new \ lost |-> s.base + jitter[s]]
        all == Joined(waiting, due)
    IN  /\ WritesFail(Cardinality(lost))
        /\ IF new = {}
           THEN planned' = waiting /\ started' = begun
           ELSE planned' = Restrict(all, Recent(DOMAIN all)) /\ started' = Recent(begun)

-----------------------------------------------------------------------------
(* The loop: processDue *)

Claimable(s) ==
  /\ planned[s] <= now
  /\ SameDate(s.base, now)
  /\ now - s.base <= MaxLate
  /\ s.job \in Scheduled(cfg)
  /\ ~(s.job # Quota /\ HourOf(s.base) = LastHour /\ now > s.base + LateInLastHour)

Due == {s \in DOMAIN planned : Claimable(s)}

NothingDue ==
  /\ up /\ ~passed /\ Due = {}
  /\ passed' = TRUE
  /\ UNCHANGED <<now, up, cfg, claimed, calls, age, upsets, failures, slotVars>>

\* The due slots are claimed, written, queued, and their successors planned.
Claim ==
  /\ up /\ Due # {}
  /\ PlanAll(UNION {Wanted(cfg, s.job, Next(Schedule(cfg, s.job), s.base)) : s \in Due},
             Restrict(planned, DOMAIN planned \ Due), started \cup Due)
  /\ claimed' = claimed \cup Due
  /\ served' = served \cup Due
  /\ passed' = TRUE
  /\ UNCHANGED <<now, up, cfg, calls, age, stale, upsets>>

\* The write fails: the claims are rolled back, the next pass tries again.
ClaimFails ==
  /\ up /\ Due # {}
  /\ WritesFail(1)
  /\ UNCHANGED <<now, up, cfg, claimed, passed, calls, age, upsets, slotVars>>

-----------------------------------------------------------------------------
(* The cron callback of a job plans the slot whose base time it is. *)

CallbackPlans(job) == Wanted(cfg, job, Latest(Schedule(cfg, job), now))

Callback(job) ==
  /\ up /\ job \in calls
  /\ calls' = calls \ {job}
  /\ PlanAll(CallbackPlans(job), planned, started)
  /\ UNCHANGED <<now, up, cfg, claimed, passed, age, served, stale, upsets>>

-----------------------------------------------------------------------------
(* Installing and stopping a scheduler *)

\* bootstrap: the latest slot, if it can still be claimed, and the next one.
CatchUp(c, job) ==
  LET latest == Latest(Schedule(c, job), now) IN
  IF latest # None /\ SameDate(latest, now) /\ now - latest <= MaxLate
  THEN Wanted(c, job, latest) ELSE {}
Bootstrap(c) ==
  UNION {CatchUp(c, job) \cup Wanted(c, job, Next(Schedule(c, job), now)) :
         job \in Scheduled(c)}

Install(c, waiting, begun) ==
  /\ PlanAll(Bootstrap(c), waiting, begun)
  /\ up' = TRUE /\ age' = 0 /\ passed' = FALSE /\ calls' = {}

Start ==
  /\ ~up
  /\ Install(cfg, planned, started)
  /\ UNCHANGED <<now, cfg, claimed, served, stale, upsets>>

\* The rounds that have not ended when the plugin is stopped: the queue runs
\* them in the order of their base times.  Older ones are taken as ended: put
\* back, they would not be claimed again.
Unfinished == {{s \in claimed : s.base >= t} : t \in now - MaxLate .. now + 1}

\* requeueInterrupted puts the slots of these rounds back.  Their due times
\* have passed, so that the base stands for them.
PutBack(S) == Joined(planned, [s \in S \cap started |-> s.base])

Upset == upsets < MaxUpsets /\ upsets' = upsets + 1
Down  == up' = FALSE /\ age' = 0 /\ passed' = FALSE /\ calls' = {}
RoundsEnd(S) == claimed' = {} /\ served' = served \ S

Stop ==
  /\ up /\ Upset /\ Down
  /\ \E S \in Unfinished :
       RoundsEnd(S) /\ planned' = PutBack(S) /\ started' = started \ S
  /\ UNCHANGED <<now, cfg, stale, failures>>

\* The rounds that have not ended are lost: their slots stay started.
Crash ==
  /\ up /\ Upset /\ Down /\ claimed' = {}
  /\ UNCHANGED <<now, cfg, failures, slotVars>>

\* A configuration that parsePluginConfig rejects changes nothing; another
\* one stops the old scheduler and its rounds before it replaces them.
Rejected(c) ==
  /\ up /\ ~Valid(c)
  /\ UNCHANGED vars

Configure(c) ==
  /\ up /\ Valid(c) /\ c # cfg /\ Upset
  /\ cfg' = c
  /\ \E S \in Unfinished : RoundsEnd(S) /\ Install(c, PutBack(S), started \ S)
  /\ stale' = stale \cup {s \in DOMAIN planned \cup started : s.base >= now - MaxLate}
  /\ now' = now

-----------------------------------------------------------------------------
\* The loop passes every second and a callback comes at its minute, so that
\* neither is left behind by a tick.  The first start is at FirstStart: later
\* ones follow a stop.
Tick ==
  /\ now < MaxTime
  /\ IF up THEN passed /\ calls = {} ELSE upsets > 0
  /\ now' = now + 1
  /\ passed' = FALSE
  /\ calls' = IF up THEN {job \in Scheduled(cfg) : IsBase(Schedule(cfg, job), now')}
              ELSE {}
  /\ age' = IF up THEN Min({age + 1, Grown}) ELSE 0
  /\ UNCHANGED <<up, cfg, claimed, upsets, failures, slotVars>>

Step ==
  \/ Start \/ Stop \/ Crash \/ Tick
  \/ NothingDue \/ Claim \/ ClaimFails
  \/ \E job \in Job : Callback(job)
  \/ \E c \in Candidates : Rejected(c) \/ Configure(c)

Spec == Init /\ [][Step]_vars

-----------------------------------------------------------------------------
(* Properties *)

TypeOK ==
  /\ now \in 0 .. MaxTime /\ age \in 0 .. Grown
  /\ up \in BOOLEAN /\ passed \in BOOLEAN
  /\ cfg \in Candidates /\ Valid(cfg)
  /\ DOMAIN planned \cap started = {}
  /\ \A s \in DOMAIN planned : planned[s] \in s.base .. s.base + MaxJitter
  /\ DOMAIN planned \cup started \cup served \cup stale \subseteq
       [job : Job, base : Time]
  /\ claimed \subseteq served /\ calls \subseteq Job
  /\ upsets \in 0 .. MaxUpsets /\ failures \in 0 .. MaxFailures

\* A slot is run at most once: over crashes and restarts that plan the latest
\* slot again, over write failures, after its record is deleted, and unless
\* its round was put back (scheduler_test.go:226).
SlotRunsOnce == [][(claimed' \ claimed) \cap served = {}]_vars

\* Under one configuration a quota refresh and a prewarm never query the
\* accounts for the same base time (scheduler.go:107).
OneQueryPerBase ==
  \A s, t \in served \ stale : s.job = Quota /\ t.job # Quota => s.base # t.base

Served(b) == \E s \in served : s.base = b
ScheduledBases(from, to) ==
  UNION {Bases(Schedule(cfg, job), from, to) : job \in Scheduled(cfg)}
Settled == MaxJitter + 2        \* by then the loop has passed over a due slot

\* Some job queries the accounts for a base time of the schedules that comes
\* while a scheduler is installed: one failed write does not lose it, as a slot
\* is planned twice, with its predecessor or by the callback of the base time
\* before it, and by its own callback ...
ServedInTime ==
  age > Settled /\ failures <= 1 =>
    \A b \in ScheduledBases(now - Settled, now - Settled) : Served(b)

\* ... and a scheduler that is installed late makes up for the last one of its
\* date, if it is at most MaxLate old; a prewarm of 23 o'clock only at once.
Missed(since) ==
  {b \in ScheduledBases(0, since) : SameDate(b, since) /\ since - b <= MaxLate}
NotTooLate(b, since) ==
  Covered(cfg, b) /\ HourOf(b) = LastHour => since <= b + LateInLastHour

CaughtUp ==
  LET since == now - age
      last  == Max(Missed(since))
  IN  age = Settled /\ failures = 0 /\ Missed(since) # {} /\ NotTooLate(last, since) =>
        Served(last)

\* No base time goes unserved, whatever is covered, passed over, disabled
\* before, forgotten, missed by an outage, or failed to be written once.
EveryBaseIsServed == ServedInTime /\ CaughtUp
=============================================================================
