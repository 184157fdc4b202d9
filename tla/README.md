# TLA+ verification of codex-daily-prewarm

The plugin (Go, package `main`, all in `src/*.go`) asks the Codex upstream for the
quota of every account at planned times and sends a small model request to an account
whose five-hour window is idle. Calls cost quota, so the hard part is not the request but
everything around it: durable counting, retries, rounds that must not overlap, follow-up
queries, notifications without duplicates, and all of this across reloads, stops, failed
writes and crashes.

Contents: [inventory](#1-inventory), [modules](#2-modules-and-how-they-correspond-to-the-code),
[runs](#3-runs-bounds-and-what-they-show), [fairness](#4-fairness), [proofs](#5-proofs),
[findings](#6-findings), [limits](#7-what-is-not-modelled), [plan](#8-plan).

## 1. Inventory

| Part | Source | State | Operations |
| --- | --- | --- | --- |
| Model calls | `runtime.go` 572-905, 1130-1249 | `Accounts[a].AttemptTimes`, `LastPrewarmAt`; locals of the round | reservation, call, retry, fallback, record |
| Round execution | `runtime.go` 489-736 | locals of `executeRun`, the run record | inventory, first queries, account loop, spacing, report |
| Initial quota fetch | `initial_quota.go` | a semaphore of 3 | `fetchInitialUsagesUntil` |
| Idle confirmation | `idle_confirmation.go`, `quota_fetch.go` 76-94 | a pair of observations | `confirmIdleAfterSpacing`, `confirmedIdle` |
| Run queue | `runtime.go` 361-487 | `running`, `currentRequest`, `pending`, `generation`, `closed` | `startNamedRunWithNotify`, `startRunJob`, `runQueue`, `requeueInterrupted` |
| Lifecycle | `runtime.go` 227-330 | `terminal`, `closed`, `stopCh`, `generation`, `cron`, `scheduler` | `configure`, `quiesce`, `shutdown` |
| Slot scheduler | `scheduler.go` 42-294 | `Slots` | `planSlot` (cron, loop, bootstrap), `processDue` |
| Follow-up scheduler | `scheduler.go` 212-364 | `FiveHourFollowup*`, `WeeklyFollowup*`, `Last*R`, `QuotaRetry*` | `updateFollowupPlan`, `processDue`, `scheduleQuotaRetry`, `clearQuotaRetry` |
| Notifications | `notifications.go` | `Notifications`: digest cursor, windows, streaks, queue | `recordNotifications`, `processNotifications` |
| State file | `runtime.go` 1296-1488 | the JSON file | `persistState`, `readState` |
| Account display | `account_display.go` | `AccountDisplay` | `setAccountDisplay`, `refreshAccountDisplay` |
| Configuration | `config.go` | none | `parsePluginConfig`, among it what a schedule may be |
| Management pages, plugin ABI, Bark, audit, parsing of quotas | `management.go`, `main.go`, `bark.go`, `audit.go`, `quota.go` | none of their own | routing, I/O, conversion |

**Interaction.** The host calls `configure`, `quiesce`, `shutdown` and the management
routes, each on a goroutine of its own. The scheduler loop ticks every second: it sends
what notifications are due, claims due slots and follow-ups, and hands requests to the
run queue; the cron runner calls `planSlot`. One goroutine, `runQueue`, executes rounds
one after another. All of them change `r.state` in critical sections of `r.mu`, and each
then writes the *whole* state with `persistState`. A change is therefore in memory before
it is on disk, somebody else's write may store it earlier, and a write that fails leaves it
in memory. The locks are ordered (`lifecycleMu` > `displayMu` > `persistMu` > `mu`, and
`notificationMu` > `persistMu` > `mu`); `quiesce` waits for cron, loop and rounds while
holding `lifecycleMu`, which none of them takes.

**What is hard, and what makes each part correct.**

- *Model calls*: reservation, write, call and record are four steps; the process may die,
  be stopped or fail to write between any two. Correct: a call is paid for on disk before
  it is sent, no account has more than five calls in 24 hours or two prewarms within five
  hours, an uncertain callback is never repeated.
- *Rounds*: queries run concurrently, answers are late, the first observation ages while
  other accounts are called, users open windows meanwhile, and a stop may come in any wait.
  Correct: no more than three queries and none after a stop, only a window that was idle is
  taken for idle, and a round that was cut short says so; if it had a claim, that is open again.
- *Lifecycle and queue*: a gate, three producers and a consumer are stopped and restarted
  under load. Correct: one round at a time, nothing left running after `quiesce`, no old
  job on a new configuration (but for a manual request that is read between the closing of
  the gate and the installation), no claimed slot lost by a stop, none executed twice.
- *Slots*: a calendar of cron times, with slots that give way to others, expire, are caught
  up after a restart and are forgotten. Correct: every base time is served once.
- *State file*: three writers of one snapshot, an operator who deletes or damages files, and
  `configure` that may change to another one. Correct: nothing that was stored or confirmed
  is undone, no call is forgotten, and a change that is refused does not stop a healthy plugin,
  unless what `configure` looked at changes while it decides.
- *Follow-ups*: the loop consumes a plan while rounds rewrite it from observations that
  may be older than the claim. Correct: each reset point is asked about once, not before
  its time, and not forgotten by the queue; retries are bounded.
- *Notifications*: claim, queue, send, record; windows are dropped by a cursor. Correct: an
  alert at most once per window, a digest that was delivered is not repeated, nothing
  queued or counted is silently dropped while the plugin runs (a crash or a reload falls back to
  what was written).

`PROJECT.json` lists the hazards at their lines with the properties that cover each.

## 2. Modules and how they correspond to the code

| Module | Models | Abstract view |
| --- | --- | --- |
| `CallBudget` | what the plugin promises about model calls: a durable ledger, calls that spend it | - |
| `Warming` | the model calls of rounds, one after another | implements `CallBudget` (refinement: ledger = the attempts of the state file) |
| `Round` | one round of `executeRun`, from the inventory to the record | a call is one step of `Warming`'s whole |
| `SlotLedger` | what the plugin promises about slots: a round ends only under a claim on disk, once | - |
| `Lifecycle` | configure / quiesce / shutdown, run queue, slot scheduler | implements `SlotLedger` (refinement: the slots of the file); a round is one step of `Round`'s whole |
| `SlotCalendar` | which slots are planned, claimed, caught up and forgotten | a handler is one step of `Lifecycle`'s whole |
| `StateFile` | the writers of the state file, the display setting, the choice of the file | rounds and `quiesce` are those of `Lifecycle`, reduced to what they write |
| `Followup` | the follow-ups and retries of one account with the rounds that serve them | the queue is the part of `Lifecycle`'s that targeted requests see |
| `Notifications` | digest, alerts and quiet-hours queue | the end of a round is its input |
| `MC*` | instances for TLC (symmetry, delays, configurations) | |
| `*Proofs` | the theorems about the module they are named after, with its inductive invariants | |

In every module `mem`/`slots` is `r.state` and `disk`/`file` the state file; `Written`,
`NotWritten` and `WriteTried` are the outcomes of `persistState` (an atomic rename), and
`CrashAndRestart` loads the file anew. An action is a critical section of `r.mu`, one
write, or one call of the host; waits are states. `PROJECT.json` maps each definition to
its lines.

**Warming.** `pc` is the place in `executeRun` / `executeAccountWithGuard`:
`account` (head of the loop), `confirm` (idle confirmation), `reserve`, `write` and `paid`
(`reserveAttempt` before, in and after its write), `sent` (in `callHost`), `backoff`,
`record`. In `backoff` the timer may never fire (`TimerFires`): the wait ends because it did,
or because of a stop. The five kinds of answers of the upstream are four for the control:
retryable status, explicit refusal of the model, final, uncertain. `OtherWrite` stands for
every other goroutine that saves the state while a round runs. `called` and `settled` are
history variables. The read-only quota queries and skip reasons are one action
(`SkipAccount`): they do not touch attempts.

**Lifecycle.** Processes: the workers (goroutines of `runQueue`; two are possible so that
serialisation is a result and not an assumption), the loop (`Claim`, `ClaimWritten` /
`ClaimRolledBack`, `Dispatch`, `DispatchRefused`...), three planners of slots, the
operation that holds `lifecycleMu` (`Begin`, then `CloseGate` ... `StartScheduler`) and a
management request between its two critical sections (`ManualRead`, `ManualStart`). Which
planned slots are due is left open, so every calendar is covered. A configuration is its
version number.

**Round.** `pc` is the place in `executeRun`; `fetch[a]` is the query of an account: `waiting`
for the semaphore, `holding` it, `asked`, `answered` (the upstream has answered, the answer is
on its way), `done`. An answer carries the time it was read, which is all the code knows, and
the reset point, which tells when it was made if the window is idle: an idle window is reported
to end five hours after the answer. `opened[a]` is the truth that the code infers. The clock
moves only while something is waited for (a timer, an answer, a call); the time that a
computation takes can be added to the wait before it. A retry or a claim of somebody else that
fails to be written is `OtherWrite`. `trigger` is the kind of the request: a round over all
accounts, one for an account, or a manual one, which has no claim and is not put back
(`MayPutBack`). `putBack` says that the claim of the request is open in memory again; `dirty`,
that memory holds something the last write did not store, so that `CutShortIsPutBack` can tell
an open claim in the state file from one in memory only.

**SlotCalendar.** A tick is a fraction of an hour; the constants keep the order of the
code's (an hour < 70 minutes < 48 hours, jitter < 2 minutes of 23 o'clock < an hour). The
slots a write failure loses are chosen in `PlanAll`; `planned` has the due times, `started`
the slots with `StartedAt`. `age` counts the ticks since a scheduler was installed:
`ServedInTime` speaks of base times that came since then, `CaughtUp` of the last one before.
One failed write does not lose a base time, as it is planned twice: with its predecessor or by
the callback of the base time before it, a covered one perhaps, and by its own callback;
`CaughtUp` makes no promise after a failed write, and none for a prewarm of 23 o'clock that is
more than two minutes old at the installation: it is not claimed then, and the base times
before it are not looked for. `Unfinished` are the rounds of claimed slots that a stop finds
unfinished: the queue runs them in order, so they are the later ones. `Rejected` keeps the
configurations that `Valid` refuses out, as `parsePluginConfig` does.

**StateFile.** The attempts of one account, the run history (of version 0.4 too, from which
`readState` imports attempts) and the display flag stand for the state, with `other` for the
rest: quotas, slots, the digest cursor, whatever `configure` counts as a state besides
(`HadState`). `persistMu` and
`displayMu` are modelled with their holders, because the properties are about what they
exclude; `snapshot` is the clone that a writer holds. `paid`, `confirmed` and `damaged`
are history variables: what was promised, and which files an operator has destroyed since.

**Followup.** One account, the times in ticks within one day. `window[k]` is what the upstream
reports; `obs` is the observation a round has in hand, which ages. `Planned` is
`updateFollowupPlan`, `RolledBack` the restoration after a failed write, `Requeued` what a stop
puts back. `owed`, `done` and `tries` are history variables. A targeted round may end before it
asks, because the accounts cannot be listed or the one is not among them (`GiveUp`): nothing
then plans or repeats the query, and `givenUp` has the follow-ups that are lost so. A failed
query is two writes, of the failure and of the retry (`SaveQuotaFailure`,
`ScheduleQuotaRetry`). `tries` counts the delayed retries that failed since a query succeeded
and cleared the counter. A retry that was claimed, waited in the queue or stood in the state
file at that moment cannot be recalled by the code; `Leftover` counts these, and `tries` starts
below zero by as many.

**Notifications.** `step` is the holder of `notificationMu`. A day has `DayLength` ticks,
`DigestEnd`, `Quiet` and `QuietUntil` are the calendar functions of the code. A round is
one of three modes (prewarm, read-only refresh, manual with feedback), which differ in what they
count and whether they alert. An account may be absent from a round, targeted or cut short; its
streak of unknown results then stays. Bark is assumed to be configured. A round drops the
windows that ended `KeepTime` (seven days) ago, the one whose digest is due not excepted,
with the record of its tries and of an answer nobody read. `DigestDeliveredOnce` therefore
promises something until `KeepTime` after the digest was due.

## 3. Runs, bounds and what they show

| Run | Bounds | Shows |
| --- | --- | --- |
| `Warming.cfg` | 1 account, limit 5, one retry, two models, window 3 and cool-down 2 ticks, clock to 3, 6 reservations; any number of crashes, stops, failed writes; fair | `CallsArePrepaid`, `RollingLimit`, `PrewarmsAreSpaced`, `CallsPerPrewarm`, `NothingAfterFinalAnswer`, `ImplementsBudget`, `StopEndsRound` |
| `Round.cfg` | 2 accounts, one shared with a user, 1 place in the semaphore, clock to 5, any number of failed writes, a stop; fair | `TypeOK` (with the bound of the semaphore), `NoQueryAfterStop`, `ConfirmedWasIdle`, `IdleIsConfirmed`, `CutShortIsPutBack`, `SuccessIsHonest`, `StopEndsRound` |
| `Lifecycle.cfg` | 2 slots, 2 workers, 2 operations, a manual request, 2 failed writes, a crash | `OneRoundAtATime`, `QuietWhenQuiesced`, `NoStaleJob`, `ImplementsLedger` |
| `LifecycleGraceful.cfg` | 2 slots, 1 worker, 3 operations, a manual request, no faults; fair | `OperationsReturn`, `ClaimsAreServed` |
| `SlotCalendar.cfg` | a day of 9 ticks, from 05:00 of one day to 05:00 of the next; 3 valid and 2 rejected configurations; a stop, crash or reconfiguration; a failed write | `OneQueryPerBase`, `EveryBaseIsServed`, `SlotRunsOnce` |
| `StateFile.cfg` | 2 files, each missing or of version 0.4 at first; a call, a damaged file, a failed write, a crash; any number of configurations and settings | `CallsAreStored`, `CallsAreRemembered`, `DisplayAsConfirmed`, `HealthyKeepsRunning` |
| `Followup.cfg` | 2 successive reset points, a stop, a failed write, a crash | `ClaimsComeAfterReset` (up to the stop or failed write), `NoFollowupLost` (up to the stop or crash, and but for `GiveUp`), `OneFollowupPerReset`, `RetriesAreBounded` |
| `Notifications.cfg` | almost two days, 2 rounds, a failed write, a crash, a reload (which keeps `digest_time`) | `AlertedOncePerWindow`, `DigestDeliveredOnce`, and of every step but a crash or a reload `QueuedFailuresAreSent`, `RoundsAreReported` |
| `FollowupRequeue.cfg`, `FollowupDuplicate.cfg`, `NotificationsQuietDigest.cfg`, `NotificationsDigestMoved.cfg` | as small as possible | the [findings](#6-findings) |

Why the bounds are enough.

- `Warming`: the clock reaches the end of a window and of a cool-down, so attempts
  expire and an account is warmed again; a prewarm can use up all its attempts with both
  models, and the limit of five stops another one halfway. The safety theorems hold without
  any bound.
- `Round`: two accounts are enough for one to wait for its turn while the other is called and
  for one goroutine to wait for the semaphore. The clock passes the spacing, the age limit
  and the distance of the observations; `Slack` (60 seconds) is longer than the clock, so that
  an answer may be as late as the run allows. The constants have the order the code's have:
  tolerance < confirmation wait, least distance < wait, age + wait < greatest distance.
- `Lifecycle` has two slots so that one runs while the other waits, two operations so that a
  reload is followed by a stop, and failures enough for a planning write *and* a claim to
  fail.
- `SlotCalendar`: a day has a night hour, a first and a last daytime hour, and three minutes
  an hour, of which the first is a prewarm's, two are the quota refresh's and the last is the
  forbidden one before midnight. The run goes over a midnight, and slots older than
  `MaxAge` are forgotten within it. `SkipLimit` (64 in the code) is 1, and a schedule covered
  all day exceeds it.
- `StateFile`: with two files a plugin can change to the other one and back; the faults are one
  each, in any order and at any step.
- `Followup`: the second reset point lets an observation of it arrive around the claim of the
  first. The run has one kind of follow-up; the theorems hold for every set of kinds.
- `Notifications`: the clock passes a digest, the quiet hours after it and the next digest;
  its reload keeps `digest_time`, because moving it is the fourth finding. `KeepTime` (seven
  days in the code) is a day here, the least the module assumes, so that rounds drop old
  windows within the run.

Runs switch deadlock checking off where the counters of the bounds and the end of the
clock stop the system, which is in all of them.

The runs check the type invariants too, that of `SlotCalendar` excepted, which is proved only.

Each property of a passing run comes with a mutant, a definition beside the one it
replaces ("Mutant of ..."), with which TLC reports the property violated. They are not
part of the specifications.

## 4. Fairness

`Warming!FairSpec` requires weak fairness of the steps of the round: its goroutine is
scheduled, every wait in it is a timer or a `select` on `stopCh`, and the host returns from
its callbacks (the code has no timeout of its own for them, so the assumption is one about
the host). Nothing makes a round begin or the clock tick, and the timer of a back-off need not
fire (`TimerFires` is not fair): `StopEndsRound` therefore says that a stop ends a back-off.

`Lifecycle!Fairness` requires it of `runQueue`, of a pass of the loop that has begun, of a planner's
write and of the operation that holds `lifecycleMu`. Nobody is obliged to plan, to claim,
to call or to reconfigure.

`Round!FairSpec` requires it of `Work`, the steps of the round and its goroutines together:
some step that is possible is taken, the upstream's answer or its absence included (the host
returns from its callbacks). The clock need not move, so `StopEndsRound` says that no timer
has to fire after a stop.

In `SlotCalendar` the loop passes and a due callback is called before the next tick (they
run every second, a tick is minutes): urgency of the model instead of fairness, which makes
`EveryBaseIsServed` a bounded-response invariant.

`Followup`, `Notifications` and `StateFile` have safety properties and action properties only.

## 5. Proofs

Every invariant that a passing run checks, every action property and both refinements are
proved, for all values of the constants that the module's assumption admits; four theorems
have a hypothesis more, which is named below. The
assumptions (`WarmingAssumption`, `RoundAssumption`, ...) say that numbers are natural
numbers, that the reserved values are not in the sets, and in what order the code's constants
are; the runs evaluate them. The bounds on time, stops, crashes and failed writes are
constants as well, so the theorems do not depend on them.

Only `NoFollowupLost` is inductive as it stands. What has to be added to the others is the
content of the proofs, and each `*Proofs` module begins with it. Types come first, each further
layer is proved from those before, one step per action.

| Module | Theorems (property) |
| --- | --- |
| `WarmingProofs` | `TypeCorrect`, `Prepaid` (`CallsArePrepaid`), `LimitHolds` (`RollingLimit`), `SpacingHolds` (`PrewarmsAreSpaced`), `FinalAnswerHolds` (`NothingAfterFinalAnswer`), `PrewarmIsBounded` (`CallsPerPrewarm`), `Refinement` (`ImplementsBudget`) |
| `LifecycleProofs` | `TypeCorrect`, `OneRound` (`OneRoundAtATime`), `Quiesced` (`QuietWhenQuiesced`), `NoStale` (`NoStaleJob`), `LedgerRefinement` (`ImplementsLedger`) |
| `RoundProofs` | `TypeCorrect`, `IdleConfirmed` (`ConfirmedWasIdle`), `IdlePrewarmed` (`IdleIsConfirmed`), `NoLateQuery` (`NoQueryAfterStop`), `PutBackIfCutShort` (`CutShortIsPutBack`), `HonestSuccess` (`SuccessIsHonest`) |
| `StateFileProofs` | `TypeCorrect`, `CallsStored` (`CallsAreStored`), `CallsRemembered` (`CallsAreRemembered`), `DisplayConfirmed` (`DisplayAsConfirmed`), `HealthyStays` (`HealthyKeepsRunning`) |
| `SlotCalendarProofs` | `TypeCorrect`, `OneQuery` (`OneQueryPerBase`), `RunsOnce` (`SlotRunsOnce`), `BasesServed` (`EveryBaseIsServed`) |
| `FollowupProofs` | `TypeCorrect`, `Late` (`ClaimsComeAfterReset`), `Kept` (`NoFollowupLost`), `RetriesCounted` (`RetriesAreBounded`), `Once` (`OneFollowupPerReset`) |
| `NotificationsProofs` | `TypeCorrect`, `DeliveredOnce` (`DigestDeliveredOnce`), `AlertedOnce` (`AlertedOncePerWindow`), `RoundsReported` (`RoundsAreReported`), `QueuedSent` (`QueuedFailuresAreSent`) |

**Warming.** `CallsArePrepaid` speaks of the disk, but a crash or a reload replaces the memory
by the disk and the next write the disk by the memory. `IInv` says: memory holds every live
reservation of the disk, has as late a `LastPrewarmAt` and respects the limit (`Covered`); the
reservation in hand is in memory, and on disk once it is paid (`EntryInHand`); the live calls
are on disk, and its `LastPrewarmAt` is as late as each (`Remembered`); while a prewarm is in
hand every call of another one is a cool-down older (`Spacing`). `LimitHolds` needs the
cardinality facts of `FiniteSetTheorems`, as live calls are a subset of live reservations.
For `FinalAnswerHolds`, a prewarm in hand has had no final answer (`PrewarmUnanswered`); for
`PrewarmIsBounded` the calls of a prewarm are counted by its attempts and models (`Counted`).

**Lifecycle.** `Stages` says what is over when `quiesce` has come to a step: the gate is
closed with `stopCh`, cron, then the loop, then the rounds have ended. `Serial` says that
`running` is set exactly while one goroutine is active; with `Stages` this gives
`QuietWhenQuiesced`. `Fresh` says that a request in the queue has the installed configuration
or the current generation. `Custody` says that a claimed slot has one holder (the loop's
claims, a request in the queue or in the copy of `quiesce`, a round) until its round has
ended, and that its claim is on disk since the loop went on; from it each step is a step of
`SlotLedger` or a stutter.

**Round.** `ConfirmedWasIdle` says nothing of how the two answers came about. `Evidence` says
what an answer tells of the window it is about (the reset point of a window in use stays, that
of an idle one is near the time of the answer) and how far apart the two observations are at
each step. That the first one's age is looked at *before* the wait is what makes
`IdleIsConfirmed` hold; it uses `MaxAge + ConfirmWait < MaxDelta`. `Accounted` follows an
account without an entry from `finish` through the deferred part to the requeue, and what its
write left unsaved to the report.

**StateFile.** What is on disk after a write depends on the clone that is being written.
`Stored` follows a call from `reserveAttempt` through every clone under `persistMu` to the
file, `Shown` does it for the display setting, `Vetted` is what `configure` still knows of the
file it changes to when it has stopped the scheduler: unless a file was destroyed, only the first
state of the process can make it refuse a missing one then.

**SlotCalendar.** `IInv` says that a served slot younger than `MaxAge` is still in the state as
started (so no planning finds it absent), and that a slot planned under the present
configuration fits it (so a quota slot has no prewarm beside it). `BasesServed` has a second
invariant, `Serving`: before a write has failed the next base time is planned, or a slot that
waits or a callback of this minute will plan it (`Ahead`); so every base time since the
installation has its slot, is served, or is the present minute with one way left to plan it,
two before a write has failed (`InTime`); such a slot is claimed in its own minute or by the
next pass (`Punctual`); while no write fails, the base time to be made up for is claimed by the
first or the second pass (`CatchingUp`). That the callback of a covered base time plans the
next one needs `SkipLimit` to be at least 1. The proof contains the arithmetic of the calendar:
no slot that a valid configuration admits is in the last minute of a day, so that it is due on
its own date. `BasesServed` assumes `MaxJitter = 1`, a jitter of less than two ticks of a
minute, which is the code's (10 to 60 seconds).

**Followup.** Over the types and the queue (`Queue`) stand four independent invariants: `Punctual`
(when plans are due), `NoFollowupLost` itself, `Spent` and `Counted`.
`Spent`, the longest, is behind `OneFollowupPerReset`: what is done, runs, waits or is claimed
is planned neither in memory nor on disk, and both remember it as used up as long as some
observation, in hand or to come, may report it as still ahead. Its difficult cases are the
roll-back of a claim whose write failed and an observation older than the claim.
`Counted` accounts for each failed, planned or requested retry by a step of the counter, in
memory and on disk; a crash replaces the one by the other.

**Notifications.** `RecordKept` says of memory and of disk that a digest handed to Bark is
over, or that the window that is due knows its tries and the answer nobody read.
`Accounted` says that what was alerted stays claimed while its window lasts, and what waits in
the queue is claimed and was not alerted. `RecordKept` holds for every sequence of
`digest_time`s, `Accounted` needs all windows to end at one time of day (`AtDigestTime`).
`AlertedOnce` and `RoundsReported` therefore assume `DigestTime = {FirstDigest}`, and
`QueuedSent` in addition that this time is outside the quiet hours. These are the hypotheses
of the runs; the findings 3 and 4 are what happens without them.

**What the proofs changed.** Four properties were true of the instances and false in general;
a larger instance shows each with TLC.

- `RetriesAreBounded` did not allow for `Leftover` (see [Followup](#2-modules-and-how-they-correspond-to-the-code)).
- `DigestDeliveredOnce` had no end: seven days after a digest was due a round drops the record
  of its tries (`notifications.go`, the clean-up in `recordNotifications`), and if the loop did
  not pass meanwhile, the digest is sent again.
- `AlertedOncePerWindow`: when `digest_time` is moved later within a day on which the earlier
  digest has been sent, the window that ends at the new time was dropped with the earlier one
  and comes back without its alerts. The theorem assumes `digest_time` fixed.
- `CaughtUp` asked for base times before a prewarm of 23 o'clock that comes too late.

**Only model-checked.** Liveness (`StopEndsRound` in `Warming` and `Round`, `OperationsReturn`,
`ClaimsAreServed`): fairness and `ENABLED` are outside of what the prover handles.
The properties of the four runs that end with a
counterexample are false. No module uses a recursive definition.

## 6. Findings

Each is a run that TLC ends with a counterexample.

1. `FollowupRequeue.cfg` (code bug, `runtime.go:377`): a round serving the follow-up of R
   reads and saves the next reset point R', then a stop interrupts it (during the idle
   confirmation, say). `requeueInterrupted` sets `FiveHourFollowupAt` back to the old time under the
   new `FiveHourFollowupR`. After the reload the claim is due at once and marks R' as
   followed up; the query at R' + 90 s never happens. The roll-back of a claim whose write
   failed (`scheduler.go:256`) restores the old time in the same way.
2. `FollowupDuplicate.cfg` (divergence, `runtime.go:433`): a weekly follow-up that comes
   due while the five-hour follow-up of the same account runs is dropped, even if that
   round has read the quota already. The design document removes duplicates among waiting
   tasks only.
3. `NotificationsQuietDigest.cfg` (code bug, `notifications.go:482`): with `digest_time`
   inside the quiet hours, closing the digest deletes the failures queued since
   `quiet_start`; no alert is sent for them.
4. `NotificationsDigestMoved.cfg` (code bug, `notifications.go:478`): after `digest_time`
   changes, the digest of the old boundary deletes a window of the new boundaries with its
   rounds unreported.

Smaller differences met while modelling, which no run is spent on:

- The design document (line 43) repeats a query after 2 and 8 minutes when the upstream
  resets late; the code does so only when the query fails.
- The design document (line 10) starts the slot of 23 o'clock by 23:01 and nothing after it.
  A slot of 22 o'clock that an outage left behind is claimed until 23:10, and a round that
  waits in the queue begins when the one before it ends.
- `README.md:7` of the plugin makes up for the latest slot after a restart. One that comes
  60 to 70 minutes after an unserved slot runs that slot and the latest one.
- A slot that was put back may be deleted by the failed write of its own planning, if that
  write was under way all the while (`scheduler.go:148` recognises the slot by its jitter
  and its empty `StartedAt`); `SlotLedger` allows it, as no round of it has ended.
- A change to a missing state file is refused only after the old scheduler is stopped, and
  leaves the plugin stopped, if the first state of the process (a planned slot or the record of a
  round is enough) came about after `configure` first looked (`runtime.go:239`, `254`).
- A claimed follow-up whose round cannot list the account, or finds another number of accounts
  than expected, is neither asked, nor retried after 2 and 8 minutes, nor put back
  (`runtime.go:535-563`).

## 7. What is not modelled

- `Lifecycle` lets any planned slot be due at any time, `SlotCalendar` takes a handler as one
  step: a write that fails *and* a calendar condition that changes between the steps of a
  handler are not combined. Daylight saving time is not modelled (the default time zone
  has none). After a new configuration, slots planned under the old schedules still run
  (they are in the model, but no property is about them); `OneQueryPerBase` is about one
  configuration.
- `Followup` stays inside the follow-up hours of a day; a follow-up that falls into the night
  is never claimed.
- A clock that goes back. `recentAttempts` drops attempts more than a minute in the
  future: a clock set back by more makes room for calls. `Warming` assumes it does not happen.
- Times are equal or not; the minute by which `sameResetPoint` lets two reports of a reset
  point differ is equality, and reservations are told apart by a serial number instead of
  nanoseconds.
- The view that `readState` seeds for display from an old history, the names that are
  displayed, and the counts and reset points of run records.
- The parsing of quota bodies, headers and upstream errors (`quota.go`,
  `parseUsageBody`): conversions; `Round` and `Followup` have their outcomes. Of the
  configuration only the schedules are modelled, the other options by the bounds that
  the modules assume.
- The text of messages, HTTP, YAML, the host ABI and the audit file: pure I/O or formatting.
- Notifications when Bark is not configured, and the feedback of a manual round.
- What happens to a queued notice that is in memory only, or that somebody else's write took out
  of the file before its own flush failed, when the state is loaded anew: it is lost. In the same
  way a claim that a stop put back, but that no write stored, is lost. No property promises
  more.

## 8. Plan

Done: the modules `CallBudget`, `Warming`, `Lifecycle`, `Followup`, `Notifications`, `Round`,
`StateFile`, `SlotCalendar` and `SlotLedger`, and the proofs about all of them.

Next:

1. An abstract outbox (claimed, sent once, recorded) implemented by `Notifications`, from the
   layers `DigestsSettled` and `Alerts`.
2. `RoundsReported` for a `digest_time` that is moved while no window is open.

The project is kept to a dozen runs, one for each question.
