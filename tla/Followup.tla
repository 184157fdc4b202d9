------------------------------ MODULE Followup ------------------------------
(***************************************************************************)
(* The follow-ups of one account: the queries planned 90 seconds after a   *)
(* reset point that the upstream reported, and the delayed retries of a    *)
(* query that failed (scheduler.go, with saveQuota, the query part of      *)
(* executeRun and requeueInterrupted of runtime.go).                       *)
(*                                                                         *)
(* The scheduler loop claims what is due, writes the claim and hands a     *)
(* targeted round to the queue; meanwhile the round in progress, over all  *)
(* accounts or a targeted one, saves what it read.  Both change the        *)
(* account's window of r.state.Accounts (`mem`), each in a critical        *)
(* section of its own; `disk` is its copy in the state file.               *)
(*                                                                         *)
(* The clock stays within the follow-up hours of one day.  Two reports of  *)
(* one reset point are within the minute of sameResetPoint: here they are  *)
(* equal.  Accounts are independent of each other.  The rounds over all    *)
(* accounts that wait in the queue are not modelled: they start when it is *)
(* idle.  Lifecycle has the whole queue.                                   *)
(***************************************************************************)
EXTENDS Integers, FiniteSets

CONSTANTS Kind,        \* follow-ups by reset point: "five_hour", "weekly"
          ResetPoint,  \* the times at which a window of the upstream may end
          Delay,       \* followupDelay (90 seconds)
          RetryDelay,  \* RetryDelay[n]: the delay of retry n (2 and 8 minutes)
          MaxRetries,  \* retries until a query succeeds (2)
          MaxTime,     \* bound: the clock stops here
          MaxStops,    \* bound: quiesce followed by configure
          MaxFailures, \* bound: writes of the state file that fail
          MaxCrashes   \* bound: crashes of the process

ASSUME FollowupAssumption ==
  /\ "retry" \notin Kind
  /\ ResetPoint \subseteq Nat \ {0}
  /\ Delay \in Nat \ {0}
  /\ MaxRetries \in Nat /\ RetryDelay \in [1..MaxRetries -> Nat \ {0}]
  /\ {MaxTime, MaxStops, MaxFailures, MaxCrashes} \subseteq Nat

VARIABLES
  now,      \* the clock
  window,   \* window[k]: the reset point the upstream reports, 0 if not in use
  mem,      \* the account's entry of r.state.Accounts
  disk,     \* its copy in the state file
  stopped,  \* closed, with stopCh closed
  round,    \* the request of the round in progress
  phase,    \* where it is with the account
  reads,    \* the queries it has made
  obs,      \* the observation it has in hand
  pending,  \* the targeted request in r.pending
  loop,     \* where the scheduler loop is in processDue
  claim,    \* the request processDue is building, and the window before it
  owed,     \* owed[k]: a reset point claimed for which nobody has asked yet
  givenUp,  \* those of them whose round ended before it could ask
  done,     \* done[k]: reset points with a follow-up that ran to its end
  tries,    \* failed retries since a query succeeded, less those it left
            \*   over (history)
  stops, failures, crashes  \* the counters of the bounds

run    == <<round, phase, reads, obs>>
due    == <<loop, claim>>
past   == <<owed, givenUp, done, tries>>
bounds == <<stops, crashes>>
vars   == <<now, window, mem, disk, stopped, run, pending, due, past, bounds,
            failures>>

Plan == Kind \cup {"retry"}
Time == Nat     \* 0 is the zero time.Time

(* FiveHourFollowupR/At, WeeklyFollowupR/At, LastFiveHourR, LastWeeklyR,   *)
(* QuotaRetryAt (at["retry"]) and QuotaRetryStep of an accountWindow.      *)
Entry == [r : [Kind -> Time], last : [Kind -> Time], at : [Plan -> Time],
          step : 0..MaxRetries]
EmptyEntry == [r |-> [k \in Kind |-> 0], last |-> [k \in Kind |-> 0],
               at |-> [p \in Plan |-> 0], step |-> 0]

(* A reset_followup request, or a round over all accounts (no plans).  The *)
(* reset points it was claimed for are read by the properties only.        *)
Request == [plans : SUBSET Plan, due : Time, r : [Kind -> Time]]
FullRound == [plans |-> {}, due |-> 0, r |-> [k \in Kind |-> 0]]
NoRequest == FullRound
Targeted == round.plans # {}

NoObs == [checked |-> 0, r |-> [k \in Kind |-> 0]]
NoClaim == [request |-> NoRequest, before |-> EmptyEntry]

-----------------------------------------------------------------------------
(* persistState *)
Written(entry) == disk' = entry /\ UNCHANGED failures
NotWritten == /\ failures < MaxFailures
              /\ failures' = failures + 1
              /\ UNCHANGED disk
WriteTried(entry) == Written(entry) \/ NotWritten

(* Mutant of Planned: a plan that is not used up keeps its time. *)
PlannedKeepsTime(entry, o) ==
  LET new == {k \in Kind : o.r[k] > o.checked /\ o.r[k] # entry.last[k]}
  IN [entry EXCEPT
        !.r  = [k \in Kind |-> IF k \in new THEN o.r[k] ELSE entry.r[k]],
        !.at = [p \in Plan |-> IF p \in new /\ entry.at[p] = 0
                               THEN o.r[p] + Delay ELSE entry.at[p]]]

(* Mutant of Planned: a reset point that was followed up is planned again. *)
PlannedAgain(entry, o) ==
  LET new == {k \in Kind : o.r[k] > o.checked}
  IN [entry EXCEPT
        !.r  = [k \in Kind |-> IF k \in new THEN o.r[k] ELSE entry.r[k]],
        !.at = [p \in Plan |-> IF p \in new THEN o.r[p] + Delay
                               ELSE IF p \in Kind /\ entry.at[p] <= o.checked
                               THEN 0 ELSE entry.at[p]]]

(* updateFollowupPlan: a window in use whose reset point is to come, and   *)
(* was not followed up yet, is planned; a plan that is used up is dropped. *)
Planned(entry, o) ==
  LET new  == {k \in Kind : o.r[k] > o.checked /\ o.r[k] # entry.last[k]}
      over == {k \in Kind \ new : \/ entry.r[k] # 0 /\ entry.r[k] = entry.last[k]
                                  \/ entry.at[k] <= o.checked}
  IN [entry EXCEPT
        !.r  = [k \in Kind |-> IF k \in new THEN o.r[k] ELSE entry.r[k]],
        !.at = [p \in Plan |-> IF p \in new THEN o.r[p] + Delay
                               ELSE IF p \in over THEN 0 ELSE entry.at[p]]]

(* requeueInterrupted: every plan of the request is due again. *)
Requeued(entry, request) ==
  [entry EXCEPT !.at = [p \in Plan |-> IF p \in request.plans
                                       THEN request.due ELSE entry.at[p]]]

(* clearQuotaRetry *)
Cleared(entry) == [entry EXCEPT !.at["retry"] = 0, !.step = 0]

(* Mutant of Retried: the step does not advance. *)
RetriedSameStep(entry) ==
  IF entry.step < MaxRetries /\ entry.at["retry"] = 0
  THEN [entry EXCEPT !.at["retry"] = now + RetryDelay[entry.step + 1]]
  ELSE entry

(* Mutant of Retried: the last delay is used again and again. *)
RetriedForever(entry) ==
  IF entry.at["retry"] = 0
  THEN [entry EXCEPT
          !.at["retry"] = now + RetryDelay[IF entry.step < MaxRetries
                                           THEN entry.step + 1 ELSE MaxRetries],
          !.step = @ + 1]
  ELSE entry

(* scheduleQuotaRetry: one retry at a time, MaxRetries in all. *)
Retried(entry) ==
  IF entry.step < MaxRetries /\ entry.at["retry"] = 0
  THEN [entry EXCEPT !.at["retry"] = now + RetryDelay[entry.step + 1],
                     !.step = @ + 1]
  ELSE entry

-----------------------------------------------------------------------------
Init ==
  /\ now = 1
  /\ window = [k \in Kind |-> 0]
  /\ mem = EmptyEntry /\ disk = EmptyEntry
  /\ stopped = FALSE
  /\ round = NoRequest /\ phase = "idle" /\ reads = 0 /\ obs = NoObs
  /\ pending = NoRequest
  /\ loop = "idle" /\ claim = NoClaim
  /\ owed = [k \in Kind |-> 0] /\ givenUp = {} /\ done = [k \in Kind |-> {}] /\ tries = 0
  /\ stops = 0 /\ failures = 0 /\ crashes = 0

-----------------------------------------------------------------------------
(* The upstream and the clock.  A window that has ended may be reported a  *)
(* while longer; then the account is not in use until somebody uses it.    *)
Upstream ==
  /\ \/ \E k \in Kind, R \in ResetPoint :
          /\ window[k] = 0 /\ R > now
          /\ window' = [window EXCEPT ![k] = R]
          /\ UNCHANGED now
     \/ \E k \in Kind :
          /\ window[k] # 0 /\ window[k] <= now
          /\ window' = [window EXCEPT ![k] = 0]
          /\ UNCHANGED now
     \/ now < MaxTime /\ now' = now + 1 /\ UNCHANGED window
  /\ UNCHANGED <<mem, disk, stopped, run, pending, due, past, bounds, failures>>

-----------------------------------------------------------------------------
(* A round, with the account in hand.                                      *)

(* A query made since the reset point was due serves the follow-up. *)
Served(o) == [k \in Kind |-> IF owed[k] + Delay <= o.checked THEN 0 ELSE owed[k]]

Begin(request) ==
  /\ round' = request
  /\ phase' = "query"
  /\ reads' = 0
  /\ obs' = NoObs

StartFull ==
  /\ phase = "idle" /\ pending = NoRequest /\ ~stopped
  /\ Begin(FullRound)
  /\ UNCHANGED <<mem, disk, failures, pending, past>>

(* The follow-ups that are owed and left to the round in progress alone.   *)
OnlyHere ==
  {k \in Kind : /\ owed[k] # 0 /\ pending = NoRequest
                /\ ~(loop = "dispatch" /\ k \in claim.request.plans)}

(* executeRun ends before it asks anything: the accounts cannot be listed, *)
(* their number is not the expected one, or the account is not among them. *)
(* No retry is planned and the claim does not go back.                     *)
GiveUp ==
  /\ phase = "query" /\ reads = 0
  /\ phase' = "end"
  /\ givenUp' = IF Targeted THEN givenUp \cup OnlyHere ELSE givenUp
  /\ UNCHANGED <<mem, disk, failures, pending, round, reads, obs, owed, done, tries>>

(* fetchUsage: from here on the observation gets older. *)
Query ==
  /\ phase = "query"
  /\ reads' = reads + 1
  /\ \/ obs' = [checked |-> now, r |-> window] /\ phase' = "read"
     \/ obs' = [NoObs EXCEPT !.checked = now] /\ phase' = "failed"
  /\ owed' = [k \in Kind |-> 0] /\ givenUp' = {}
  /\ UNCHANGED <<mem, disk, failures, pending, round, done, tries>>

(* saveQuota.  A round over all accounts then clears the retry; a targeted *)
(* one does so when it has decided.                                        *)
SaveQuota ==
  /\ phase = "read"
  /\ mem' = Planned(mem, obs)
  /\ \/ /\ Written(mem')
        /\ phase' = IF ~Targeted /\ reads = 1 THEN "clear" ELSE "decide"
     \/ /\ NotWritten
        /\ phase' = IF Targeted THEN "clear" ELSE "end"
  /\ owed' = Served(obs)
  /\ UNCHANGED <<pending, round, reads, obs, givenUp, done, tries>>

SaveQuotaFailure ==
  /\ phase = "failed"
  /\ WriteTried(mem)
  /\ tries' = IF "retry" \in round.plans THEN tries + 1 ELSE tries
  /\ phase' = IF Targeted THEN "retry" ELSE "end"
  /\ UNCHANGED <<mem, pending, round, reads, obs, owed, givenUp, done>>

(* Nothing is planned and written if the upstream answered 429, or if a    *)
(* retry is planned already or was the last.                               *)
ScheduleQuotaRetry ==
  /\ phase = "retry"
  /\ \/ UNCHANGED <<mem, disk, failures>>
     \/ Retried(mem) # mem /\ mem' = Retried(mem) /\ WriteTried(mem')
  /\ phase' = "end"
  /\ UNCHANGED <<pending, round, reads, obs, past>>

(* The quota is read again to confirm an idle window, at most twice, or    *)
(* the account is skipped or called.                                       *)
Decide ==
  /\ phase = "decide"
  /\ \/ reads < 3 /\ phase' = "query"
     \/ phase' = IF Targeted THEN "clear" ELSE "end"
     \/ ~Targeted /\ reads > 1 /\ phase' = "model"
  /\ UNCHANGED <<mem, disk, failures, pending, round, reads, obs, past>>

(* What is left of the delayed retries when a query has succeeded: claimed *)
(* already, still in the state file, or put back by a stop.                *)
One(P) == IF P THEN 1 ELSE 0
Leftover ==
  One("retry" \in claim.request.plans) + One("retry" \in pending.plans)
  + One("retry" \in round.plans /\ phase' = "model")
  + One(mem'.at["retry"] # 0 \/ disk'.at["retry"] # 0)

ClearQuotaRetry ==
  /\ phase = "clear"
  /\ mem' = Cleared(mem)
  /\ WriteTried(mem')
  /\ \/ ~Targeted /\ phase' = "decide"
     \/ Targeted /\ phase' = "end"
     \/ Targeted /\ reads > 1 /\ phase' = "model"
  /\ tries' = -Leftover
  /\ UNCHANGED <<pending, round, reads, obs, owed, givenUp, done>>

(* recordAccountResult plans from the quota in the model's answer, or from *)
(* what was read before the call; without an answer it plans nothing.      *)
RecordResult ==
  /\ phase = "model"
  /\ \/ UNCHANGED <<obs, mem, owed>>
     \/ /\ \E r \in {window, obs.r} : obs' = [checked |-> now, r |-> r]
        /\ mem' = Planned(mem, obs')
        /\ owed' = Served(obs')
  /\ WriteTried(mem')
  /\ phase' = "end"
  /\ UNCHANGED <<pending, round, reads, givenUp, done, tries>>

(* runQueue takes the next request. *)
NextRequest ==
  IF pending # NoRequest /\ ~stopped
  THEN Begin(pending) /\ pending' = NoRequest
  ELSE /\ round' = NoRequest /\ phase' = "idle" /\ reads' = 0 /\ obs' = NoObs
       /\ UNCHANGED pending

EndRound ==
  /\ phase = "end"
  /\ NextRequest
  /\ done' = [k \in Kind |-> IF k \in round.plans
                             THEN done[k] \cup {round.r[k]} ELSE done[k]]
  /\ UNCHANGED <<mem, disk, failures, owed, givenUp, tries>>

(* A stop check before the first query, after it, in a wait of the idle    *)
(* confirmation or around the model call: the claim goes back.             *)
Interrupt ==
  /\ stopped
  /\ \/ phase = "query" /\ reads = 0
     \/ phase \in {"read", "failed"} /\ reads = 1
     \/ phase \in {"decide", "model"}
  /\ mem' = Requeued(IF Targeted /\ phase = "decide" THEN Cleared(mem) ELSE mem,
                     round)
  /\ WriteTried(mem')
  /\ NextRequest
  /\ tries' = IF Targeted /\ phase = "decide" THEN -Leftover ELSE tries
  /\ UNCHANGED <<owed, givenUp, done>>

Round ==
  /\ \/ StartFull \/ GiveUp \/ Query \/ SaveQuota
     \/ SaveQuotaFailure \/ ScheduleQuotaRetry \/ Decide
     \/ ClearQuotaRetry \/ RecordResult \/ EndRound \/ Interrupt
  /\ UNCHANGED <<now, window, stopped, due, bounds>>

-----------------------------------------------------------------------------
(* processDue.                                                             *)

IsDue(p) == mem.at[p] # 0 /\ mem.at[p] <= now

Consumed(entry, S) ==
  [entry EXCEPT
     !.at   = [p \in Plan |-> IF p \in S THEN 0 ELSE entry.at[p]],
     !.last = [k \in Kind |-> IF k \in S THEN entry.r[k] ELSE entry.last[k]]]

(* Everything that is due is claimed, as due at the earliest of the times. *)
Claim ==
  /\ loop = "idle" /\ ~stopped
  /\ LET S == {p \in Plan : IsDue(p)} IN
       /\ S # {}
       /\ mem' = Consumed(mem, S)
       /\ \E p \in S :
            /\ \A q \in S : mem.at[p] <= mem.at[q]
            /\ claim' = [request |-> [plans |-> S, due |-> mem.at[p],
                                      r |-> mem.r],
                         before  |-> mem]
  /\ loop' = "claimed"
  /\ UNCHANGED <<disk, failures, run, pending, past>>

ClaimWritten ==
  /\ loop = "claimed"
  /\ Written(mem)
  /\ loop' = "dispatch"
  /\ owed' = [k \in Kind |->
                 IF /\ k \in claim.request.plans
                    /\ obs.checked < claim.request.r[k] + Delay
                 THEN claim.request.r[k] ELSE owed[k]]
  /\ givenUp' = givenUp \ claim.request.plans
  /\ UNCHANGED <<mem, claim, run, pending, done, tries>>

(* What the failed write restores: a plan whose claim is recognised by the *)
(* reset point it consumed, the retry by its step.                         *)
RolledBack(entry, before) ==
  LET same == {k \in Kind : entry.last[k] = before.r[k]}
               \cup (IF entry.step = before.step THEN {"retry"} ELSE {})
  IN [entry EXCEPT
        !.at   = [p \in Plan |-> IF p \in same THEN before.at[p] ELSE entry.at[p]],
        !.last = [k \in Kind |-> IF k \in same THEN before.last[k]
                                               ELSE entry.last[k]]]

ClaimNotWritten ==
  /\ loop = "claimed"
  /\ NotWritten
  /\ mem' = RolledBack(mem, claim.before)
  /\ loop' = "idle" /\ claim' = NoClaim
  /\ UNCHANGED <<run, pending, past>>

(* Mutant of Duplicate: a round over all accounts counts as well. *)
DuplicateOfAnyRound == phase # "idle"

(* A targeted request that runs or waits already, for whatever plans. *)
Duplicate == Targeted \/ pending # NoRequest

(* A claim dropped because of the targeted request that runs. *)
DroppedIsNotOwed ==
  [k \in Kind |-> IF /\ Targeted /\ pending = NoRequest
                     /\ k \in claim.request.plans
                  THEN 0 ELSE owed[k]]

(* startRunJob: a duplicate is dropped; a stopped plugin refuses, and the  *)
(* claim goes back.                                                        *)
Dispatch ==
  /\ loop = "dispatch"
  /\ loop' = "idle" /\ claim' = NoClaim
  /\ \/ /\ ~stopped /\ phase = "idle" /\ pending = NoRequest
        /\ Begin(claim.request)
        /\ UNCHANGED <<mem, disk, failures, pending, owed>>
     \/ /\ ~stopped /\ phase # "idle"
        /\ pending' = IF Duplicate THEN pending ELSE claim.request
        /\ owed' = DroppedIsNotOwed
        /\ UNCHANGED <<mem, disk, failures, run>>
     \/ /\ stopped
        /\ mem' = Requeued(mem, claim.request)
        /\ WriteTried(mem')
        /\ UNCHANGED <<run, pending, owed>>
  /\ UNCHANGED <<givenUp, done, tries>>

ProcessDue ==
  /\ Claim \/ ClaimWritten \/ ClaimNotWritten \/ Dispatch
  /\ UNCHANGED <<now, window, stopped, bounds>>

-----------------------------------------------------------------------------
(* quiesce, and the reload by configure once nothing runs.                 *)
Stop ==
  /\ ~stopped /\ stops < MaxStops
  /\ stopped' = TRUE
  /\ stops' = stops + 1
  /\ UNCHANGED <<now, window, mem, disk, failures, run, pending, due, past,
                 crashes>>

RequeuePending ==
  /\ stopped /\ phase = "idle" /\ loop = "idle" /\ pending # NoRequest
  /\ mem' = Requeued(mem, pending)
  /\ WriteTried(mem')
  /\ pending' = NoRequest
  /\ UNCHANGED <<now, window, stopped, run, due, past, bounds>>

Reload ==
  /\ stopped /\ phase = "idle" /\ loop = "idle" /\ pending = NoRequest
  /\ mem' = disk
  /\ stopped' = FALSE
  /\ UNCHANGED <<now, window, disk, failures, run, pending, due, past, bounds>>

CrashAndRestart ==
  /\ crashes < MaxCrashes
  /\ crashes' = crashes + 1
  /\ mem' = disk
  /\ stopped' = FALSE
  /\ round' = NoRequest /\ phase' = "idle" /\ reads' = 0 /\ obs' = NoObs
  /\ pending' = NoRequest
  /\ loop' = "idle" /\ claim' = NoClaim
  /\ UNCHANGED <<now, window, disk, failures, past, stops>>

(* persistState for something else: another account, a slot, a notice. *)
OtherWrite ==
  /\ Written(mem)
  /\ UNCHANGED <<now, window, mem, stopped, run, pending, due, past, bounds>>

Next ==
  \/ Upstream \/ OtherWrite
  \/ Round
  \/ ProcessDue
  \/ Stop \/ RequeuePending \/ Reload
  \/ CrashAndRestart

Spec == Init /\ [][Next]_vars

-----------------------------------------------------------------------------
TypeOK ==
  /\ now \in Nat \ {0}
  /\ window \in [Kind -> Time]
  /\ mem \in Entry /\ disk \in Entry
  /\ stopped \in BOOLEAN
  /\ round \in Request /\ pending \in Request
  /\ phase \in {"idle", "query", "read", "failed", "retry", "clear", "decide",
                "model", "end"}
  /\ reads \in 0..3
  /\ obs \in [checked : Time, r : [Kind -> Time]]
  /\ loop \in {"idle", "claimed", "dispatch"}
  /\ claim \in [request : Request, before : Entry]
  /\ owed \in [Kind -> Time] /\ givenUp \subseteq Kind
  /\ done \in [Kind -> SUBSET Time] /\ tries \in Int
  /\ {stops, failures, crashes} \subseteq Nat

(* A follow-up is planned no earlier than the delay after the reset point  *)
(* it is for (the design document: in the daytime, at R5 + 90 seconds,     *)
(* that account is queried).                                               *)
PlansComeAfterReset ==
  \A k \in Kind : mem.at[k] # 0 => mem.r[k] + Delay <= mem.at[k]

(* A claim uses up a reset point only when the reset point and the delay   *)
(* after it are over, whatever rounds save between the claim, its write    *)
(* and its dispatch.  A stop, or the roll-back of a write that failed, may *)
(* put a claim back under a later reset point: see PlansComeAfterReset.    *)
ClaimsComeAfterReset ==
  stops = 0 /\ failures = 0 /\ loop # "idle" =>
    \A k \in claim.request.plans \cap Kind : claim.request.r[k] + Delay <= now

(* Whoever has a claimed follow-up in hand: the loop, the queue, or the    *)
(* targeted round in progress, which is about to ask.                      *)
InHand(k) ==
  \/ loop = "dispatch" /\ k \in claim.request.plans
  \/ pending # NoRequest
  \/ Targeted /\ phase = "query"

(* A claimed follow-up for which the upstream has not been asked yet is in *)
(* somebody's hands: the queue and a failed write do not lose it (README:  *)
(* about 90 seconds after the reset point the account is queried).  Three  *)
(* things do.  A crash may; so may a stop, as an observation older than    *)
(* what the stop put back clears it; and a targeted round that cannot list *)
(* the account gives up whatever was left to it alone.  What is dropped as *)
(* a duplicate of a request that runs is the subject of                    *)
(* DroppedFollowupIsAsked.                                                 *)
NoFollowupLost ==
  crashes = 0 /\ stops = 0 =>
    \A k \in Kind \ givenUp : owed[k] # 0 => InHand(k)

(* A follow-up that is dropped as a duplicate is served by another one: a  *)
(* request that waits, or that runs and has asked since the follow-up was  *)
(* due or has yet to ask (the design document: duplicates are removed      *)
(* among the tasks that wait).  A round that gave up asks for nobody.      *)
DroppedFollowupIsAsked ==
  [][loop = "dispatch" /\ loop' = "idle" /\ ~stopped /\ phase # "idle" /\ Duplicate
       /\ crashes' = crashes
     => \/ pending # NoRequest
        \/ phase = "query" \/ reads = 0
        \/ \A k \in claim.request.plans \cap Kind :
             claim.request.r[k] + Delay <= obs.checked]_vars

(* No reset point is followed up a second time once a follow-up of it ran  *)
(* to its end, whatever crashes, stops, fails to be written or arrives     *)
(* late.                                                                   *)
OneFollowupPerReset ==
  loop = "dispatch" => \A k \in claim.request.plans \cap Kind :
                         claim.request.r[k] \notin done[k]

(* Between two successful queries at most MaxRetries delayed retries fail  *)
(* besides those that were claimed, or left in the state file, when the    *)
(* first succeeded, whatever crashes, stops or fails to be written in      *)
(* between (the design document: at most once each, after 2 and 8 minutes).*)
RetriesAreBounded == tries <= MaxRetries
=============================================================================
