--------------------------- MODULE FollowupProofs ---------------------------
(***************************************************************************)
(* Proofs about Followup for every set of kinds and of reset points, every *)
(* delay, every number of retries and every bound on time, stops, failed   *)
(* writes and crashes.                                                     *)
(*                                                                         *)
(* Over the types and the queue (Queue) stand four independent invariants: *)
(* when plans are due (Punctual), who has a follow-up in hand              *)
(* (NoFollowupLost, inductive as it stands), which reset points are used   *)
(* up (Spent) and how many retries there can still be (Counted).           *)
(***************************************************************************)
EXTENDS Followup, TLAPS

-----------------------------------------------------------------------------
(* Queue: the requests that exist, and what is not later than now.         *)

Timely(request) ==
  request.due <= now /\ (request.plans # {} => request.due # 0)

Queue ==
  /\ loop = "idle" => claim = NoClaim
  /\ loop # "idle" => claim.request.plans # {}
  /\ phase = "idle" => round = NoRequest
  /\ pending # NoRequest => pending.plans # {} /\ round.plans = {}
  /\ stopped => stops # 0
  /\ Timely(claim.request) /\ Timely(pending) /\ Timely(round)
  /\ obs.checked <= now

-----------------------------------------------------------------------------
(* Punctual: without stops and failed writes a plan is due no earlier than *)
(* the delay after its reset point, in memory and in the state file.       *)

LateEnough(entry) ==
  \A k \in Kind : entry.at[k] # 0 => entry.r[k] + Delay <= entry.at[k]

Punctual ==
  stops = 0 /\ failures = 0 =>
    /\ LateEnough(mem) /\ LateEnough(disk)
    /\ \A k \in claim.request.plans \cap Kind : claim.request.r[k] + Delay <= now

-----------------------------------------------------------------------------
(* Spent: reset points that must not be claimed again.                     *)

(* The observation in hand is one that the round still plans from. *)
HasRead == phase \in {"read", "decide", "clear", "model"}

(* What may still be reported as to come. *)
Ahead(R) == R > now \/ (HasRead /\ R > obs.checked)

(* A reset point that was reported before the observation in hand and lies *)
(* after it is the one that was observed.                                  *)
Known(k, R) ==
  /\ R > now => window[k] = R
  /\ HasRead /\ R > obs.checked => obs.r[k] = R

(* Followed up already, or by a request that runs or waits; the claim of   *)
(* the scheduler loop counts in memory at once, in the state file when it  *)
(* is written, and no longer after a stop: then it goes back.              *)
UsedBy(request, k) == IF k \in request.plans THEN {request.r[k]} ELSE {}
Taken(k) == done[k] \cup UsedBy(round, k) \cup UsedBy(pending, k)
InMemory(k) ==
  IF stopped THEN Taken(k) ELSE Taken(k) \cup UsedBy(claim.request, k)
OnDisk(k) == IF loop = "dispatch" THEN InMemory(k) ELSE Taken(k)

(* An entry does not plan what is used up, and remembers it as long as an  *)
(* observation may still report it as to come.                             *)
Remembers(entry, k, used) ==
  /\ entry.at[k] # 0 => entry.r[k] \notin used
  /\ entry.at[k] # 0 /\ entry.r[k] = entry.last[k] => entry.at[k] <= now
  /\ \A R \in used : Ahead(R) => entry.r[k] = R /\ entry.last[k] = R

(* A request that goes back does not bring back what is used up. *)
Held(k) ==
  /\ k \in round.plans \cup pending.plans => mem.r[k] \notin done[k]
  /\ k \in claim.request.plans => /\ mem.r[k] \notin Taken(k)
                                  /\ claim.request.r[k] \notin Taken(k)

(* A claim that is not written yet can be undone. *)
Undoable(k) ==
  IF k \in claim.request.plans
  THEN /\ mem.last[k] = claim.request.r[k]
       /\ claim.before.at[k] <= now
  ELSE /\ mem.last[k] = claim.before.last[k]
       /\ claim.before.r[k] = claim.before.last[k] => claim.before.at[k] = 0

Reported(k) == done[k] \cup {mem.r[k], disk.r[k], round.r[k], pending.r[k],
                             claim.request.r[k]}

SpentAt(k) ==
  /\ \A R \in Reported(k) : Known(k, R)
  /\ HasRead => Known(k, obs.r[k])
  /\ Remembers(mem, k, InMemory(k))
  /\ Remembers(disk, k, OnDisk(k))
  /\ Held(k)
  /\ claim.before.r[k] = claim.request.r[k]
  /\ loop = "claimed" => Undoable(k)

Spent == \A k \in Kind : SpentAt(k)

-----------------------------------------------------------------------------
(* Counted: the retries that have failed, that are planned, and that are   *)
(* in a request are at most those that were scheduled.                     *)

InProgress == "retry" \in round.plans /\ phase \notin {"retry", "end"}
Requests == One("retry" \in pending.plans) + One(InProgress)
Retry(entry) == One(entry.at["retry"] # 0)

(* A retry that no step accounts for was put back when it was due. *)
PutBack(entry) == entry.step = 0 => entry.at["retry"] <= now

SumInMemory ==
  tries + Retry(mem) + One("retry" \in claim.request.plans) + Requests <= mem.step

SumOnDisk ==
  tries + Retry(disk) + One(loop = "dispatch" /\ "retry" \in claim.request.plans)
    + Requests <= disk.step

(* A retry that was not due when the claim was made outlives it, unless it *)
(* is cleared.                                                             *)
RetryOutlives ==
  /\ loop = "claimed" /\ "retry" \notin claim.request.plans
  /\ claim.before.at["retry"] # 0
  => claim.before.step # 0 /\ (mem.at["retry"] # 0 \/ mem.step = 0)

Counted ==
  /\ SumInMemory /\ SumOnDisk
  /\ PutBack(mem) /\ PutBack(disk) /\ PutBack(claim.before)
  /\ RetryOutlives

-----------------------------------------------------------------------------
(* What the operations on an entry do to its fields.                       *)

Obs == [checked : Time, r : [Kind -> Time]]

LEMMA EntryFields ==
  ASSUME NEW entry \in Entry
  PROVE  /\ entry.r \in [Kind -> Time] /\ entry.last \in [Kind -> Time]
         /\ entry.at \in [Plan -> Time] /\ entry.step \in 0..MaxRetries
         /\ entry.at["retry"] \in Nat /\ entry.step \in Nat
         /\ \A k \in Kind : /\ entry.r[k] \in Nat /\ entry.last[k] \in Nat
                            /\ entry.at[k] \in Nat
  BY FollowupAssumption DEF Entry, Time, Plan

(* updateFollowupPlan plans what is to come and was not followed up, or    *)
(* drops a plan, and leaves the retry alone. *)
New(entry, o, k) == o.r[k] > o.checked /\ o.r[k] # entry.last[k]

LEMMA PlannedFields ==
  ASSUME NEW entry \in Entry, NEW o \in Obs
  PROVE  /\ Planned(entry, o) \in Entry
         /\ Planned(entry, o).last = entry.last
         /\ Planned(entry, o).step = entry.step
         /\ Planned(entry, o).at["retry"] = entry.at["retry"]
         /\ \A k \in Kind :
              /\ New(entry, o, k) => /\ Planned(entry, o).r[k] = o.r[k]
                                     /\ Planned(entry, o).at[k] = o.r[k] + Delay
              /\ ~New(entry, o, k) => /\ Planned(entry, o).r[k] = entry.r[k]
                                      /\ Planned(entry, o).at[k] \in {0, entry.at[k]}
<1> DEFINE new  == {k \in Kind : o.r[k] > o.checked /\ o.r[k] # entry.last[k]}
           over == {k \in Kind \ new : \/ entry.r[k] # 0 /\ entry.r[k] = entry.last[k]
                                       \/ entry.at[k] <= o.checked}
           r    == [k \in Kind |-> IF k \in new THEN o.r[k] ELSE entry.r[k]]
           at   == [p \in Plan |-> IF p \in new THEN o.r[p] + Delay
                                   ELSE IF p \in over THEN 0 ELSE entry.at[p]]
<1>1. Planned(entry, o) = [entry EXCEPT !.r = r, !.at = at]
  BY DEF Planned
<1>2. Planned(entry, o) = [r |-> r, last |-> entry.last, at |-> at,
                           step |-> entry.step]
  BY <1>1 DEF Entry
<1>3. "retry" \notin Kind /\ Delay \in Nat
  BY FollowupAssumption
<1>4. o.r \in [Kind -> Nat] /\ \A k \in Kind : o.r[k] \in Nat
  BY DEF Obs, Time
<1>5. new \subseteq Kind /\ "retry" \notin new /\ "retry" \notin over
  BY <1>3
<1>6. r \in [Kind -> Time]
  BY <1>4, EntryFields DEF Time
<1>7. at \in [Plan -> Time]
  <2>1. ASSUME NEW p \in Plan PROVE at[p] \in Nat
    <3>1. CASE p \in new
      BY <3>1, <1>3, <1>4, <1>5
    <3>2. CASE p \notin new
      BY <3>2, EntryFields DEF Time
    <3> QED BY <3>1, <3>2
  <2> QED BY <2>1 DEF Time
<1>8. at["retry"] = entry.at["retry"]
  BY <1>5 DEF Plan
<1>9. [r |-> r, last |-> entry.last, at |-> at, step |-> entry.step] \in Entry
  BY <1>6, <1>7, EntryFields DEF Entry
<1>10. ASSUME NEW k \in Kind
       PROVE  /\ New(entry, o, k) => r[k] = o.r[k] /\ at[k] = o.r[k] + Delay
              /\ ~New(entry, o, k) => /\ r[k] = entry.r[k]
                                      /\ at[k] \in {0, entry.at[k]}
  <2>1. k \in Plan /\ (k \in new <=> New(entry, o, k))
    BY DEF Plan, New
  <2> QED BY <2>1
<1> HIDE DEF new, over, r, at
<1> QED BY <1>2, <1>8, <1>9, <1>10

(* requeueInterrupted makes every plan of the request due again. *)
LEMMA RequeuedFields ==
  ASSUME NEW entry \in Entry, NEW request \in Request
  PROVE  /\ Requeued(entry, request) \in Entry
         /\ Requeued(entry, request).r = entry.r
         /\ Requeued(entry, request).last = entry.last
         /\ Requeued(entry, request).step = entry.step
         /\ \A p \in Plan : Requeued(entry, request).at[p] =
                              IF p \in request.plans THEN request.due ELSE entry.at[p]
<1> DEFINE at == [p \in Plan |-> IF p \in request.plans
                                 THEN request.due ELSE entry.at[p]]
<1>1. Requeued(entry, request) = [r |-> entry.r, last |-> entry.last, at |-> at,
                                  step |-> entry.step]
  BY DEF Requeued, Entry
<1>2. at \in [Plan -> Time]
  BY EntryFields DEF Request, Time
<1> HIDE DEF at
<1>3. [r |-> entry.r, last |-> entry.last, at |-> at, step |-> entry.step] \in Entry
  BY <1>2, EntryFields DEF Entry
<1> QED BY <1>1, <1>3 DEF at

(* clearQuotaRetry, and scheduleQuotaRetry, touch the retry only. *)
LEMMA ClearedFields ==
  ASSUME NEW entry \in Entry
  PROVE  /\ Cleared(entry) \in Entry
         /\ Cleared(entry).r = entry.r /\ Cleared(entry).last = entry.last
         /\ Cleared(entry).step = 0 /\ Cleared(entry).at["retry"] = 0
         /\ \A k \in Kind : Cleared(entry).at[k] = entry.at[k]
<1> DEFINE at == [entry.at EXCEPT !["retry"] = 0]
<1> DEFINE noRetry == [entry EXCEPT !.at = at]
<1>0. noRetry = [r |-> entry.r, last |-> entry.last, at |-> at,
                 step |-> entry.step]
  BY DEF Entry
<1>1. Cleared(entry) = [r |-> entry.r, last |-> entry.last, at |-> at, step |-> 0]
  <2>1. Cleared(entry) = [noRetry EXCEPT !.step = 0]
    BY DEF Cleared
  <2> HIDE DEF noRetry, at
  <2> QED BY <1>0, <2>1
<1>2. at \in [Plan -> Time] /\ at["retry"] = 0
  BY EntryFields DEF Time, Plan
<1>3. \A k \in Kind : at[k] = entry.at[k]
  BY EntryFields, FollowupAssumption DEF Time, Plan
<1>4. 0 \in 0..MaxRetries
  BY FollowupAssumption
<1> HIDE DEF at, noRetry
<1>5. [r |-> entry.r, last |-> entry.last, at |-> at, step |-> 0] \in Entry
  BY <1>2, <1>4, EntryFields DEF Entry
<1> QED BY <1>1, <1>2, <1>3, <1>5

LEMMA RetriedFields ==
  ASSUME NEW entry \in Entry, now \in Nat
  PROVE  /\ Retried(entry) \in Entry
         /\ Retried(entry).r = entry.r /\ Retried(entry).last = entry.last
         /\ \A k \in Kind : Retried(entry).at[k] = entry.at[k]
         /\ \/ Retried(entry) = entry
            \/ /\ entry.at["retry"] = 0 /\ Retried(entry).at["retry"] # 0
               /\ Retried(entry).step = entry.step + 1
<1>1. CASE entry.step < MaxRetries /\ entry.at["retry"] = 0
  <2> DEFINE t == now + RetryDelay[entry.step + 1]
             at == [entry.at EXCEPT !["retry"] = t]
  <2>1. Retried(entry) = [r |-> entry.r, last |-> entry.last, at |-> at,
                          step |-> entry.step + 1]
    BY <1>1 DEF Retried, Entry
  <2>2. entry.step + 1 \in 1..MaxRetries /\ MaxRetries \in Nat
    BY <1>1, EntryFields, FollowupAssumption
  <2>3. RetryDelay[entry.step + 1] \in Nat \ {0}
    BY <2>2, FollowupAssumption
  <2>4. t \in Nat /\ t # 0
    BY <2>3
  <2> HIDE DEF t
  <2>5. at \in [Plan -> Time] /\ at["retry"] = t
    BY <2>4, EntryFields DEF Time, Plan
  <2>6. \A k \in Kind : at[k] = entry.at[k]
    BY EntryFields, FollowupAssumption DEF Time, Plan
  <2>7. entry.step + 1 \in 0..MaxRetries
    BY <2>2
  <2> HIDE DEF at
  <2>8. [r |-> entry.r, last |-> entry.last, at |-> at, step |-> entry.step + 1]
          \in Entry
    BY <2>5, <2>7, EntryFields DEF Entry
  <2> QED BY <1>1, <2>1, <2>4, <2>5, <2>6, <2>8
<1>2. CASE ~(entry.step < MaxRetries /\ entry.at["retry"] = 0)
  BY <1>2 DEF Retried
<1> QED BY <1>1, <1>2
(* A claim uses up the plans that are due; what its failed write restores. *)
LEMMA ConsumedFields ==
  ASSUME NEW entry \in Entry, NEW S \in SUBSET Plan
  PROVE  /\ Consumed(entry, S) \in Entry
         /\ Consumed(entry, S).r = entry.r /\ Consumed(entry, S).step = entry.step
         /\ \A p \in Plan : Consumed(entry, S).at[p] =
                              IF p \in S THEN 0 ELSE entry.at[p]
         /\ \A k \in Kind : Consumed(entry, S).last[k] =
                              IF k \in S THEN entry.r[k] ELSE entry.last[k]
<1> DEFINE at   == [p \in Plan |-> IF p \in S THEN 0 ELSE entry.at[p]]
           last == [k \in Kind |-> IF k \in S THEN entry.r[k] ELSE entry.last[k]]
<1>1. Consumed(entry, S) = [r |-> entry.r, last |-> last, at |-> at,
                            step |-> entry.step]
  <2> DEFINE planned == [entry EXCEPT !.at = at]
  <2>1. planned = [r |-> entry.r, last |-> entry.last, at |-> at,
                   step |-> entry.step]
    BY DEF Entry
  <2>2. Consumed(entry, S) = [planned EXCEPT !.last = last]
    BY DEF Consumed
  <2> HIDE DEF planned, at, last
  <2> QED BY <2>1, <2>2
<1>2. at \in [Plan -> Time] /\ last \in [Kind -> Time]
  BY EntryFields DEF Time
<1> HIDE DEF at, last
<1>3. [r |-> entry.r, last |-> last, at |-> at, step |-> entry.step] \in Entry
  BY <1>2, EntryFields DEF Entry
<1> QED BY <1>1, <1>3 DEF at, last

Same(entry, before) ==
  {k \in Kind : entry.last[k] = before.r[k]}
    \cup (IF entry.step = before.step THEN {"retry"} ELSE {})

LEMMA RolledBackFields ==
  ASSUME NEW entry \in Entry, NEW before \in Entry
  PROVE  /\ RolledBack(entry, before) \in Entry
         /\ RolledBack(entry, before).r = entry.r
         /\ RolledBack(entry, before).step = entry.step
         /\ RolledBack(entry, before).at["retry"] =
              IF entry.step = before.step THEN before.at["retry"] ELSE entry.at["retry"]
         /\ \A k \in Kind :
              /\ entry.last[k] = before.r[k] =>
                   /\ RolledBack(entry, before).at[k] = before.at[k]
                   /\ RolledBack(entry, before).last[k] = before.last[k]
              /\ entry.last[k] # before.r[k] =>
                   /\ RolledBack(entry, before).at[k] = entry.at[k]
                   /\ RolledBack(entry, before).last[k] = entry.last[k]
<1> DEFINE same == Same(entry, before)
           at   == [p \in Plan |-> IF p \in same THEN before.at[p] ELSE entry.at[p]]
           last == [k \in Kind |-> IF k \in same THEN before.last[k] ELSE entry.last[k]]
<1>1. RolledBack(entry, before) = [r |-> entry.r, last |-> last, at |-> at,
                                   step |-> entry.step]
  <2> DEFINE planned == [entry EXCEPT !.at = at]
  <2>1. planned = [r |-> entry.r, last |-> entry.last, at |-> at,
                   step |-> entry.step]
    BY DEF Entry
  <2>2. RolledBack(entry, before) = [planned EXCEPT !.last = last]
    BY DEF RolledBack, Same
  <2> HIDE DEF planned, at, last
  <2> QED BY <2>1, <2>2
<1>2. /\ "retry" \in same <=> entry.step = before.step
      /\ \A k \in Kind : k \in same <=> entry.last[k] = before.r[k]
  BY FollowupAssumption DEF Same
<1> HIDE DEF same
<1>3. at \in [Plan -> Time] /\ last \in [Kind -> Time]
  BY EntryFields DEF Time
<1>4. /\ at["retry"] = IF "retry" \in same THEN before.at["retry"] ELSE entry.at["retry"]
      /\ \A k \in Kind : /\ at[k] = IF k \in same THEN before.at[k] ELSE entry.at[k]
                         /\ last[k] = IF k \in same THEN before.last[k] ELSE entry.last[k]
  BY DEF Plan
<1> HIDE DEF at, last
<1>5. [r |-> entry.r, last |-> last, at |-> at, step |-> entry.step] \in Entry
  BY <1>3, EntryFields DEF Entry
<1> QED BY <1>1, <1>2, <1>4, <1>5

-----------------------------------------------------------------------------
(* Types.                                                                  *)

Phases == {"idle", "query", "read", "failed", "retry", "clear", "decide", "model",
           "end"}

EntryTypes == mem \in Entry /\ disk \in Entry /\ failures \in Nat
RoundTypes == /\ round \in Request /\ pending \in Request
              /\ phase \in Phases /\ reads \in 0..3 /\ obs \in Obs
LoopTypes  == /\ loop \in {"idle", "claimed", "dispatch"}
              /\ claim \in [request : Request, before : Entry]
PastTypes  == /\ owed \in [Kind -> Time] /\ givenUp \subseteq Kind
              /\ done \in [Kind -> SUBSET Time] /\ tries \in Int
WorldTypes == /\ now \in Nat \ {0} /\ window \in [Kind -> Time]
              /\ stopped \in BOOLEAN /\ stops \in Nat /\ crashes \in Nat

LEMMA TypeParts ==
  TypeOK <=> EntryTypes /\ RoundTypes /\ LoopTypes /\ PastTypes /\ WorldTypes
  BY DEF TypeOK, EntryTypes, RoundTypes, LoopTypes, PastTypes, WorldTypes, Phases, Obs

LEMMA Constants ==
  /\ FullRound \in Request /\ NoRequest \in Request /\ NoObs \in Obs
  /\ EmptyEntry \in Entry /\ NoClaim \in [request : Request, before : Entry]
  /\ FullRound.plans = {} /\ NoRequest.plans = {} /\ NoRequest.due = 0
  /\ NoClaim.request = NoRequest /\ NoClaim.before = EmptyEntry
<1>1. [k \in Kind |-> 0] \in [Kind -> Time] /\ [p \in Plan |-> 0] \in [Plan -> Time]
  BY DEF Time
<1>2. FullRound \in Request /\ FullRound.plans = {} /\ FullRound.due = 0
  BY <1>1 DEF FullRound, Request, Time
<1>3. NoObs \in Obs
  BY <1>1 DEF NoObs, Obs, Time
<1>4. 0 \in 0..MaxRetries
  BY FollowupAssumption
<1>5. EmptyEntry \in Entry
  BY <1>1, <1>4 DEF EmptyEntry, Entry
<1> QED BY <1>2, <1>3, <1>5 DEF NoClaim, NoRequest

LEMMA WriteTypes ==
  ASSUME EntryTypes, NEW entry \in Entry, WriteTried(entry)
  PROVE  disk' \in Entry /\ failures' \in Nat
  BY DEF EntryTypes, WriteTried, Written, NotWritten

LEMMA InitTypes == Init => TypeOK
<1> SUFFICES ASSUME Init PROVE TypeOK
  OBVIOUS
<1>1. window \in [Kind -> Time] /\ owed \in [Kind -> Time]
  BY DEF Init, Time
<1>2. done \in [Kind -> SUBSET Time]
  BY DEF Init, Time
<1>3. stopped \in BOOLEAN
  BY DEF Init
<1>4. EntryTypes
  BY Constants DEF Init, EntryTypes
<1>5. RoundTypes
  BY Constants DEF Init, RoundTypes, Phases
<1>6. LoopTypes
  BY Constants DEF Init, LoopTypes
<1>7. now = 1 /\ stops = 0 /\ crashes = 0 /\ tries = 0 /\ givenUp = {}
  BY DEF Init
<1>8. PastTypes
  BY <1>1, <1>2, <1>7 DEF PastTypes
<1>9. WorldTypes
  BY <1>1, <1>3, <1>7 DEF WorldTypes
<1> QED BY <1>4, <1>5, <1>6, <1>8, <1>9, TypeParts

LEMMA BeginTypes ==
  ASSUME NEW request \in Request, Begin(request)
  PROVE  round' \in Request /\ phase' \in Phases /\ reads' \in 0..3 /\ obs' \in Obs
  BY Constants DEF Begin, Phases

LEMMA NextTypes ==
  ASSUME RoundTypes, NextRequest
  PROVE  RoundTypes'
<1>1. CASE pending # NoRequest /\ ~stopped
  <2>1. Begin(pending) /\ pending' = NoRequest
    BY <1>1 DEF NextRequest
  <2> QED BY <2>1, BeginTypes, Constants DEF RoundTypes
<1>2. CASE ~(pending # NoRequest /\ ~stopped)
  <2>1. /\ round' = NoRequest /\ phase' = "idle" /\ reads' = 0 /\ obs' = NoObs
        /\ UNCHANGED pending
    BY <1>2 DEF NextRequest
  <2> QED BY <2>1, Constants DEF RoundTypes, Phases
<1> QED BY <1>1, <1>2
LEMMA KeptTypes ==
  /\ EntryTypes /\ UNCHANGED <<mem, disk, failures>> => EntryTypes'
  /\ RoundTypes /\ UNCHANGED <<run, pending>> => RoundTypes'
  /\ LoopTypes /\ UNCHANGED due => LoopTypes'
  /\ PastTypes /\ UNCHANGED past => PastTypes'
  /\ WorldTypes /\ UNCHANGED <<now, window, stopped, bounds>> => WorldTypes'
<1>1. EntryTypes /\ UNCHANGED <<mem, disk, failures>> => EntryTypes'
  BY DEF EntryTypes
<1>2. RoundTypes /\ UNCHANGED <<run, pending>> => RoundTypes'
  BY DEF RoundTypes, run
<1>3. LoopTypes /\ UNCHANGED due => LoopTypes'
  BY DEF LoopTypes, due
<1>4. PastTypes /\ UNCHANGED past => PastTypes'
  BY DEF PastTypes, past
<1>5. WorldTypes /\ UNCHANGED <<now, window, stopped, bounds>> => WorldTypes'
  BY DEF WorldTypes, bounds
<1> QED BY <1>1, <1>2, <1>3, <1>4, <1>5

LEMMA PartsType ==
  EntryTypes' /\ RoundTypes' /\ LoopTypes' /\ PastTypes' /\ WorldTypes' => TypeOK'
  BY DEF TypeOK, EntryTypes, RoundTypes, LoopTypes, PastTypes, WorldTypes, Phases, Obs

(* The follow-ups that a step leaves owed, and a round adds to those done. *)
LEMMA ServedType ==
  ASSUME PastTypes, NEW o \in Obs
  PROVE  Served(o) \in [Kind -> Time]
<1>1. owed \in [Kind -> Time] /\ 0 \in Time
  BY DEF PastTypes, Time
<1> QED BY <1>1 DEF Served

(* A query is made for the first time or to confirm an idle window twice.  *)
Readings == phase = "query" => reads < 3

LEMMA RoundStepTypes ==
  ASSUME TypeOK, Readings, Round
  PROVE  TypeOK'
<1>0. EntryTypes /\ RoundTypes /\ LoopTypes /\ PastTypes /\ WorldTypes
  BY TypeParts
<1>1. LoopTypes' /\ WorldTypes'
  BY <1>0, KeptTypes DEF Round
<1>2. /\ mem \in Entry /\ now \in Nat /\ round \in Request /\ pending \in Request
      /\ obs \in Obs /\ reads \in 0..3 /\ phase \in Phases
      /\ window \in [Kind -> Time]
  BY <1>0 DEF EntryTypes, RoundTypes, WorldTypes
<1>3. ASSUME mem' \in Entry, WriteTried(mem') PROVE EntryTypes'
  BY <1>0, <1>3, WriteTypes DEF EntryTypes
<1>4. ASSUME UNCHANGED <<round, pending, reads, obs>>, phase' \in Phases
      PROVE  RoundTypes'
  BY <1>0, <1>4 DEF RoundTypes
<1>9. givenUp' \subseteq Kind
  BY <1>0 DEF Round, StartFull, GiveUp, OnlyHere, Query, SaveQuota, SaveQuotaFailure,
              ScheduleQuotaRetry, Decide, ClearQuotaRetry, RecordResult, EndRound,
              Interrupt, PastTypes, past
<1>5. ASSUME UNCHANGED <<done, tries>>, owed' \in [Kind -> Time]
      PROVE  PastTypes'
  BY <1>0, <1>5, <1>9 DEF PastTypes
<1>6. ASSUME UNCHANGED <<done, owed>>, tries' \in Int
      PROVE  PastTypes'
  BY <1>0, <1>6, <1>9 DEF PastTypes
<1>7. tries \in Int /\ tries + 1 \in Int
  BY <1>0 DEF PastTypes
<1>8. Leftover \in Int
  BY DEF Leftover, One
<1>10. CASE StartFull
  <2>1. Begin(FullRound) /\ UNCHANGED <<mem, disk, failures, pending, past>>
    BY <1>10 DEF StartFull
  <2>2. RoundTypes'
    BY <2>1, <1>0, BeginTypes, Constants DEF RoundTypes
  <2> QED BY <2>1, <2>2, <1>0, <1>1, KeptTypes, PartsType
<1>11. CASE Query
  <2>1. /\ UNCHANGED <<mem, disk, failures, pending, round, done, tries>>
        /\ owed' = [k \in Kind |-> 0] /\ reads' = reads + 1
        /\ phase' \in {"read", "failed"}
        /\ \/ obs' = [checked |-> now, r |-> window]
           \/ obs' = [NoObs EXCEPT !.checked = now]
    BY <1>11 DEF Query
  <2>2. obs' \in Obs
    BY <2>1, <1>2, Constants DEF Obs, Time
  <2>3. owed' \in [Kind -> Time]
    BY <2>1 DEF Time
  <2>4. reads' \in 0..3
    BY <2>1, <1>2, <1>11 DEF Query, Readings
  <2>5. RoundTypes'
    BY <2>1, <2>2, <2>4, <1>0 DEF RoundTypes, Phases
  <2> QED BY <2>1, <2>3, <2>5, <1>0, <1>1, <1>5, KeptTypes, PartsType
<1>12. CASE SaveQuota
  <2>1. /\ mem' = Planned(mem, obs) /\ WriteTried(mem')
        /\ UNCHANGED <<pending, round, reads, obs, done, tries>>
        /\ owed' = Served(obs) /\ phase' \in Phases
    BY <1>12 DEF SaveQuota, WriteTried, Phases
  <2> QED BY <2>1, <1>0, <1>1, <1>2, <1>3, <1>4, <1>5, PlannedFields, ServedType,
             PartsType
<1>13. CASE SaveQuotaFailure
  <2>1. /\ mem' = mem /\ WriteTried(mem')
        /\ UNCHANGED <<pending, round, reads, obs, done, owed>>
        /\ tries' = tries + 1 \/ tries' = tries
        /\ phase' \in Phases
    BY <1>13 DEF SaveQuotaFailure, Phases
  <2> QED BY <2>1, <1>0, <1>1, <1>2, <1>3, <1>4, <1>6, <1>7, PartsType
<1>19. CASE ScheduleQuotaRetry
  <2>1. /\ \/ UNCHANGED <<mem, disk, failures>>
           \/ mem' = Retried(mem) /\ WriteTried(mem')
        /\ UNCHANGED <<pending, round, reads, obs, past>>
        /\ phase' \in Phases
    BY <1>19 DEF ScheduleQuotaRetry, Phases
  <2>2. EntryTypes'
    BY <2>1, <1>0, <1>2, <1>3, RetriedFields, KeptTypes
  <2> QED BY <2>1, <2>2, <1>0, <1>1, <1>4, KeptTypes, PartsType
<1>20. CASE GiveUp
  <2>1. /\ UNCHANGED <<mem, disk, failures, pending, round, reads, obs, owed, done, tries>>
        /\ phase' \in Phases
    BY <1>20 DEF GiveUp, Phases
  <2>2. PastTypes'
    BY <2>1, <1>0, <1>5 DEF PastTypes
  <2> QED BY <2>1, <2>2, <1>0, <1>1, <1>4, KeptTypes, PartsType
<1>14. CASE Decide
  <2>1. /\ UNCHANGED <<mem, disk, failures, pending, round, reads, obs, past>>
        /\ phase' \in Phases
    BY <1>14 DEF Decide, Phases
  <2> QED BY <2>1, <1>0, <1>1, <1>4, KeptTypes, PartsType
<1>15. CASE ClearQuotaRetry
  <2>1. /\ mem' = Cleared(mem) /\ WriteTried(mem')
        /\ UNCHANGED <<pending, round, reads, obs, done, owed>>
        /\ tries' = -Leftover /\ phase' \in Phases
    BY <1>15 DEF ClearQuotaRetry, Phases
  <2>2. tries' \in Int
    BY <2>1, <1>8
  <2> QED BY <2>1, <2>2, <1>0, <1>1, <1>2, <1>3, <1>4, <1>6, ClearedFields, PartsType
<1>16. CASE RecordResult
  <2>1. /\ WriteTried(mem') /\ phase' \in Phases
        /\ UNCHANGED <<pending, round, reads, done, tries>>
    BY <1>16 DEF RecordResult, Phases
  <2>2. obs' \in Obs
    BY <1>2, <1>16 DEF RecordResult, Obs, Time
  <2>3. RoundTypes'
    BY <2>1, <2>2, <1>0 DEF RoundTypes
  <2>4. mem' \in Entry
    BY <2>2, <1>2, <1>16, PlannedFields DEF RecordResult
  <2>5. owed' \in [Kind -> Time]
    BY <2>2, <1>0, <1>16, ServedType DEF RecordResult, PastTypes
  <2> QED BY <2>1, <2>3, <2>4, <2>5, <1>0, <1>1, <1>3, <1>5, PartsType
<1>17. CASE EndRound
  <2>1. /\ NextRequest /\ UNCHANGED <<mem, disk, failures, owed, tries>>
        /\ done' = [k \in Kind |-> IF k \in round.plans
                                   THEN done[k] \cup {round.r[k]} ELSE done[k]]
    BY <1>17 DEF EndRound
  <2>2. round.r \in [Kind -> Time] /\ done \in [Kind -> SUBSET Time]
    BY <1>0, <1>2 DEF Request, PastTypes
  <2>3. PastTypes'
    BY <2>1, <2>2, <1>0, <1>9 DEF PastTypes
  <2> QED BY <2>1, <2>3, <1>0, <1>1, KeptTypes, NextTypes, PartsType
<1>18. CASE Interrupt
  <2>1. /\ mem' \in {Requeued(mem, round), Requeued(Cleared(mem), round)}
        /\ WriteTried(mem') /\ NextRequest /\ UNCHANGED <<owed, done>>
        /\ tries' = tries \/ tries' = -Leftover
    BY <1>18 DEF Interrupt
  <2>2. tries' \in Int
    BY <2>1, <1>7, <1>8
  <2>3. Cleared(mem) \in Entry
    BY <1>2, ClearedFields
  <2>4. mem' \in Entry
    BY <2>1, <2>3, <1>2, RequeuedFields
  <2> QED BY <2>1, <2>2, <2>4, <1>0, <1>1, <1>3, <1>6, NextTypes, PartsType
<1> QED BY <1>10, <1>11, <1>12, <1>13, <1>14, <1>15, <1>16, <1>17, <1>18, <1>19, <1>20
        DEF Round

LEMMA LoopStepTypes ==
  ASSUME TypeOK, ProcessDue
  PROVE  TypeOK'
<1>0. EntryTypes /\ RoundTypes /\ LoopTypes /\ PastTypes /\ WorldTypes
  BY TypeParts
<1>1. WorldTypes'
  BY <1>0, KeptTypes DEF ProcessDue
<1>2. /\ mem \in Entry /\ claim.request \in Request /\ claim.before \in Entry
      /\ pending \in Request /\ owed \in [Kind -> Time] /\ failures \in Nat
  BY <1>0 DEF EntryTypes, RoundTypes, LoopTypes, PastTypes
<1>3. claim.request.r \in [Kind -> Time]
  BY <1>2 DEF Request
<1>4. ASSUME loop' = "idle", claim' = NoClaim PROVE LoopTypes'
  BY <1>4, Constants DEF LoopTypes
<1>5. CASE Claim
  <2> DEFINE S == {p \in Plan : IsDue(p)}
  <2>1. /\ mem' = Consumed(mem, S) /\ loop' = "claimed"
        /\ UNCHANGED <<disk, failures, run, pending, past>>
        /\ \E p \in S : claim' = [request |-> [plans |-> S, due |-> mem.at[p],
                                              r |-> mem.r],
                                 before  |-> mem]
    BY <1>5 DEF Claim
  <2>2. PICK p \in S : claim' = [request |-> [plans |-> S, due |-> mem.at[p],
                                            r |-> mem.r],
                               before  |-> mem]
    BY <2>1
  <2>3. S \in SUBSET Plan /\ p \in Plan
    OBVIOUS
  <2> HIDE DEF S
  <2>4. [plans |-> S, due |-> mem.at[p], r |-> mem.r] \in Request
    BY <2>3, <1>2, EntryFields DEF Request
  <2>5. LoopTypes'
    BY <2>1, <2>2, <2>4, <1>2 DEF LoopTypes
  <2>6. EntryTypes'
    BY <2>1, <2>3, <1>0, <1>2, ConsumedFields DEF EntryTypes
  <2> QED BY <2>1, <2>5, <2>6, <1>0, <1>1, KeptTypes, PartsType
<1>6. CASE ClaimWritten
  <2>1. /\ Written(mem) /\ loop' = "dispatch"
        /\ owed' = [k \in Kind |->
                       IF /\ k \in claim.request.plans
                          /\ obs.checked < claim.request.r[k] + Delay
                       THEN claim.request.r[k] ELSE owed[k]]
        /\ UNCHANGED <<mem, claim, run, pending, done, tries>>
        /\ givenUp' = givenUp \ claim.request.plans
    BY <1>6 DEF ClaimWritten
  <2>2. owed' \in [Kind -> Time]
    BY <2>1, <1>2, <1>3
  <2>3. PastTypes' /\ LoopTypes'
    BY <2>1, <2>2, <1>0 DEF PastTypes, LoopTypes
  <2>4. EntryTypes'
    BY <2>1, <1>0, <1>2 DEF EntryTypes, Written
  <2> QED BY <2>1, <2>3, <2>4, <1>0, <1>1, KeptTypes, PartsType
<1>7. CASE ClaimNotWritten
  <2>1. /\ NotWritten /\ mem' = RolledBack(mem, claim.before)
        /\ loop' = "idle" /\ claim' = NoClaim
        /\ UNCHANGED <<run, pending, past>>
    BY <1>7 DEF ClaimNotWritten
  <2>2. EntryTypes'
    BY <2>1, <1>0, <1>2, RolledBackFields DEF EntryTypes, NotWritten
  <2> QED BY <2>1, <2>2, <1>0, <1>1, <1>4, KeptTypes, PartsType
<1>8. CASE Dispatch
  <2>0. loop' = "idle" /\ claim' = NoClaim /\ UNCHANGED <<givenUp, done, tries>>
    BY <1>8 DEF Dispatch
  <2>1. CASE /\ Begin(claim.request)
             /\ UNCHANGED <<mem, disk, failures, pending, owed>>
    <3>1. RoundTypes'
      BY <2>1, <1>0, <1>2, BeginTypes DEF RoundTypes
    <3>2. PastTypes'
      BY <2>0, <2>1, <1>0 DEF PastTypes
    <3> QED BY <2>0, <2>1, <3>1, <3>2, <1>0, <1>1, <1>4, KeptTypes, PartsType
  <2>2. CASE /\ pending' = IF Duplicate THEN pending ELSE claim.request
             /\ owed' = DroppedIsNotOwed
             /\ UNCHANGED <<mem, disk, failures, run>>
    <3>1. pending' \in Request
      BY <2>2, <1>2
    <3>2. RoundTypes'
      BY <2>2, <3>1, <1>0 DEF RoundTypes, run
    <3>3. owed' \in [Kind -> Time]
      BY <2>2, <1>2 DEF DroppedIsNotOwed, Time
    <3>4. PastTypes'
      BY <2>0, <3>3, <1>0 DEF PastTypes
    <3> QED BY <2>0, <2>2, <3>2, <3>4, <1>0, <1>1, <1>4, KeptTypes, PartsType
  <2>3. CASE /\ mem' = Requeued(mem, claim.request)
             /\ WriteTried(mem')
             /\ UNCHANGED <<run, pending, owed>>
    <3>1. mem' \in Entry
      BY <2>3, <1>2, RequeuedFields
    <3>2. EntryTypes'
      BY <2>3, <3>1, <1>0, WriteTypes DEF EntryTypes
    <3>3. PastTypes'
      BY <2>0, <2>3, <1>0 DEF PastTypes
    <3> QED BY <2>0, <2>3, <3>2, <3>3, <1>0, <1>1, <1>4, KeptTypes, PartsType
  <2> QED BY <1>8, <2>1, <2>2, <2>3 DEF Dispatch
<1> QED BY <1>5, <1>6, <1>7, <1>8 DEF ProcessDue

LEMMA OtherStepTypes ==
  ASSUME TypeOK,
         Upstream \/ OtherWrite \/ Stop \/ RequeuePending \/ Reload \/ CrashAndRestart
  PROVE  TypeOK'
<1>0. EntryTypes /\ RoundTypes /\ LoopTypes /\ PastTypes /\ WorldTypes
  BY TypeParts
<1>1. /\ mem \in Entry /\ disk \in Entry /\ pending \in Request
      /\ now \in Nat \ {0} /\ window \in [Kind -> Time] /\ stops \in Nat
      /\ crashes \in Nat
  BY <1>0 DEF EntryTypes, RoundTypes, WorldTypes
<1>2. CASE Upstream
  <2>1. UNCHANGED <<mem, disk, stopped, run, pending, due, past, bounds, failures>>
    BY <1>2 DEF Upstream
  <2>2. /\ window' = window \/ \E k \in Kind, R \in ResetPoint \cup {0} :
                                 window' = [window EXCEPT ![k] = R]
        /\ now' = now \/ now' = now + 1
    BY <1>2 DEF Upstream
  <2>3. window' \in [Kind -> Time]
    BY <2>2, <1>1, FollowupAssumption DEF Time
  <2>4. now' \in Nat \ {0}
    BY <2>2, <1>1
  <2>5. WorldTypes'
    BY <2>1, <2>3, <2>4, <1>0 DEF WorldTypes, bounds
  <2> QED BY <2>1, <2>5, <1>0, KeptTypes, PartsType
<1>3. CASE Stop
  <2>1. /\ stopped' = TRUE /\ stops' = stops + 1
        /\ UNCHANGED <<now, window, mem, disk, failures, run, pending, due, past,
                       crashes>>
    BY <1>3 DEF Stop
  <2>2. stops' \in Nat
    BY <2>1, <1>1
  <2>3. stopped' \in BOOLEAN
    BY <2>1
  <2>4. WorldTypes'
    BY <2>1, <2>2, <2>3, <1>0 DEF WorldTypes
  <2> QED BY <2>1, <2>4, <1>0, KeptTypes, PartsType
<1>4. CASE RequeuePending
  <2>1. /\ mem' = Requeued(mem, pending) /\ WriteTried(mem') /\ pending' = NoRequest
        /\ UNCHANGED <<now, window, stopped, run, due, past, bounds>>
    BY <1>4 DEF RequeuePending
  <2>2. mem' \in Entry
    BY <2>1, <1>1, RequeuedFields
  <2>3. EntryTypes'
    BY <2>1, <2>2, <1>0, WriteTypes DEF EntryTypes
  <2>4. RoundTypes'
    BY <2>1, <1>0, Constants DEF RoundTypes, run
  <2> QED BY <2>1, <2>3, <2>4, <1>0, KeptTypes, PartsType
<1>5. CASE Reload
  <2>1. /\ mem' = disk
        /\ UNCHANGED <<now, window, disk, failures, run, pending, due, past, bounds>>
    BY <1>5 DEF Reload
  <2>2. stopped' \in BOOLEAN
    BY <1>5 DEF Reload
  <2>3. EntryTypes'
    BY <2>1, <1>0 DEF EntryTypes
  <2>4. WorldTypes'
    BY <2>1, <2>2, <1>0 DEF WorldTypes, bounds
  <2> QED BY <2>1, <2>3, <2>4, <1>0, KeptTypes, PartsType
<1>6. CASE CrashAndRestart
  <2>1. /\ mem' = disk /\ crashes' = crashes + 1
        /\ round' = NoRequest /\ phase' = "idle" /\ reads' = 0 /\ obs' = NoObs
        /\ pending' = NoRequest /\ loop' = "idle" /\ claim' = NoClaim
        /\ UNCHANGED <<now, window, disk, failures, past, stops>>
    BY <1>6 DEF CrashAndRestart
  <2>2. stopped' \in BOOLEAN
    BY <1>6 DEF CrashAndRestart
  <2>3. EntryTypes'
    BY <2>1, <1>0 DEF EntryTypes
  <2>4. RoundTypes' /\ LoopTypes'
    BY <2>1, Constants DEF RoundTypes, LoopTypes, Phases
  <2>5. crashes' \in Nat
    BY <2>1, <1>1
  <2>6. WorldTypes'
    BY <2>1, <2>2, <2>5, <1>0 DEF WorldTypes
  <2> QED BY <2>1, <2>3, <2>4, <2>6, <1>0, KeptTypes, PartsType
<1>7. CASE OtherWrite
  <2>1. /\ WriteTried(mem)
        /\ UNCHANGED <<now, window, mem, stopped, run, pending, due, past, bounds>>
    BY <1>7 DEF OtherWrite, WriteTried
  <2>2. EntryTypes'
    BY <2>1, <1>0, <1>1, WriteTypes DEF EntryTypes
  <2> QED BY <2>1, <2>2, <1>0, KeptTypes, PartsType
<1> QED BY <1>2, <1>3, <1>4, <1>5, <1>6, <1>7

LEMMA ReadingsStep ==
  ASSUME TypeOK, Readings, Next
  PROVE  Readings'
<1>1. ASSUME NextRequest PROVE Readings'
  BY <1>1 DEF NextRequest, Begin, Readings
<1>2. ASSUME NEW request, Begin(request) PROVE Readings'
  BY <1>2 DEF Begin, Readings
<1>3. ASSUME UNCHANGED run PROVE Readings'
  BY <1>3 DEF Readings, run
<1>4. ASSUME phase' # "query" PROVE Readings'
  BY <1>4 DEF Readings
<1>5. CASE Round
  <2>1. Decide => Readings'
    BY <1>4 DEF Decide, Readings
  <2> QED BY <1>1, <1>2, <1>4, <1>5, <2>1
          DEF Round, StartFull, GiveUp, Query, SaveQuota, SaveQuotaFailure,
              ScheduleQuotaRetry, ClearQuotaRetry, RecordResult, EndRound, Interrupt
<1>6. CASE ProcessDue
  BY <1>2, <1>3, <1>6 DEF ProcessDue, Claim, ClaimWritten, ClaimNotWritten, Dispatch
<1>7. CASE CrashAndRestart
  BY <1>4, <1>7 DEF CrashAndRestart
<1>8. CASE Upstream \/ OtherWrite \/ Stop \/ RequeuePending \/ Reload
  BY <1>3, <1>8 DEF Upstream, OtherWrite, Stop, RequeuePending, Reload
<1> QED BY <1>5, <1>6, <1>7, <1>8 DEF Next

(* Every variable keeps its type; a round reads the quota three times at   *)
(* most.                                                                   *)
THEOREM TypeCorrect == Spec => []TypeOK
<1> DEFINE Inv == TypeOK /\ Readings
<1>1. Init => Inv
  <2>1. Init => Readings
    BY DEF Init, Readings
  <2> QED BY <2>1, InitTypes
<1>2. Inv /\ [Next]_vars => Inv'
  <2>1. CASE Next
    BY <2>1, RoundStepTypes, LoopStepTypes, OtherStepTypes, ReadingsStep DEF Next
  <2>2. CASE UNCHANGED vars
    <3>1. TypeOK => TypeOK'
      BY <2>2, KeptTypes, TypeParts, PartsType DEF vars
    <3> QED BY <2>2, <3>1 DEF vars, run, Readings
  <2> QED BY <2>1, <2>2
<1>3. Inv => TypeOK
  OBVIOUS
<1> HIDE DEF Inv
<1> QED BY <1>1, <1>2, <1>3, PTL DEF Spec
-----------------------------------------------------------------------------
(* The queue.                                                              *)

LEMMA NextRequestFacts ==
  ASSUME NextRequest
  PROVE  /\ obs' = NoObs /\ phase' \in {"idle", "query"} /\ reads' = 0
         /\ \/ /\ pending # NoRequest /\ ~stopped
               /\ phase' = "query" /\ round' = pending /\ pending' = NoRequest
            \/ /\ pending = NoRequest \/ stopped
               /\ phase' = "idle" /\ round' = NoRequest /\ pending' = pending
  BY DEF NextRequest, Begin

LEMMA QueueNumbers ==
  ASSUME TypeOK
  PROVE  /\ claim.request.due \in Nat /\ pending.due \in Nat /\ round.due \in Nat
         /\ obs.checked \in Nat /\ now \in Nat /\ NoObs.checked = 0
  BY DEF TypeOK, Request, Time, NoObs

LEMMA QueueStep ==
  ASSUME TypeOK, Queue, [Next]_vars
  PROVE  Queue'
<1>0. /\ claim.request.due \in Nat /\ pending.due \in Nat /\ round.due \in Nat
      /\ obs.checked \in Nat /\ now \in Nat /\ NoObs.checked = 0
  BY QueueNumbers
<1>1. ASSUME UNCHANGED <<run, pending, due, stopped, stops>>, now' = now \/ now' = now + 1
      PROVE  Queue'
  BY <1>0, <1>1 DEF Queue, Timely, run, due
<1>2. CASE UNCHANGED vars
  BY <1>1, <1>2 DEF vars, bounds
<1>3. CASE Upstream \/ OtherWrite
  BY <1>1, <1>3 DEF Upstream, OtherWrite, bounds
<1>4. CASE Round
  <2>1. UNCHANGED <<now, window, stopped, loop, claim, stops>>
    BY <1>4 DEF Round, due, bounds
  <2>2. ASSUME NextRequest PROVE Queue'
    <3>1. \/ round' = NoRequest /\ pending' = pending
          \/ round' = pending /\ pending' = NoRequest
      BY <2>2, NextRequestFacts
    <3>2. obs'.checked = 0 /\ (phase' = "idle" => round' = NoRequest)
      BY <2>2, <1>0, NextRequestFacts
    <3> QED BY <3>1, <3>2, <2>1, <1>0, Constants DEF Queue, Timely
  <2>3. ASSUME UNCHANGED <<round, pending>>, phase # "idle", phase' # "idle",
               obs' = obs \/ obs'.checked = now
        PROVE  Queue'
    BY <2>1, <2>3, <1>0 DEF Queue, Timely
  <2>4. CASE StartFull
    <3>1. round' = FullRound /\ phase' = "query" /\ obs' = NoObs /\ UNCHANGED pending
      BY <2>4 DEF StartFull, Begin
    <3> QED BY <3>1, <2>1, <1>0, Constants DEF Queue, Timely, NoRequest
  <2>5. CASE Query
    <3>1. obs'.checked = now
      BY <2>5 DEF Query, NoObs
    <3> QED BY <3>1, <2>3, <2>5 DEF Query
  <2>6. CASE RecordResult
    <3>1. obs' = obs \/ obs'.checked = now
      BY <2>6 DEF RecordResult
    <3> QED BY <3>1, <2>3, <2>6 DEF RecordResult
  <2>7. CASE \/ GiveUp \/ SaveQuota \/ SaveQuotaFailure \/ ScheduleQuotaRetry
             \/ Decide \/ ClearQuotaRetry
    BY <2>3, <2>7 DEF GiveUp, SaveQuota, SaveQuotaFailure, ScheduleQuotaRetry, Decide,
                      ClearQuotaRetry
  <2>8. CASE EndRound \/ Interrupt
    BY <2>2, <2>8 DEF EndRound, Interrupt
  <2> QED BY <1>4, <2>4, <2>5, <2>6, <2>7, <2>8 DEF Round
<1>5. CASE ProcessDue
  <2>1. UNCHANGED <<now, window, stopped, stops>>
    BY <1>5 DEF ProcessDue, bounds
  <2>2. CASE Claim
    <3> DEFINE S == {p \in Plan : IsDue(p)}
    <3>1. /\ loop' = "claimed" /\ S # {} /\ UNCHANGED <<run, pending>>
          /\ \E p \in S : claim' = [request |-> [plans |-> S, due |-> mem.at[p],
                                                r |-> mem.r],
                                   before  |-> mem]
      BY <2>2 DEF Claim
    <3>2. claim'.request.plans = S /\ claim'.request.due <= now
          /\ claim'.request.due # 0
      BY <3>1 DEF IsDue
    <3> HIDE DEF S
    <3> QED BY <3>1, <3>2, <2>1, <1>0 DEF Queue, Timely, run
  <2>3. CASE ClaimWritten
    <3>1. loop = "claimed" /\ loop' = "dispatch" /\ UNCHANGED <<claim, run, pending>>
      BY <2>3 DEF ClaimWritten
    <3> QED BY <3>1, <2>1, <1>0 DEF Queue, Timely, run
  <2>4. CASE ClaimNotWritten
    <3>1. loop' = "idle" /\ claim' = NoClaim /\ UNCHANGED <<run, pending>>
      BY <2>4 DEF ClaimNotWritten
    <3> QED BY <3>1, <2>1, <1>0, Constants DEF Queue, Timely, run
  <2>5. CASE Dispatch
    <3>0. loop # "idle" /\ loop' = "idle" /\ claim' = NoClaim
      BY <2>5 DEF Dispatch
    <3>1. CASE /\ phase = "idle" /\ pending = NoRequest
               /\ Begin(claim.request) /\ UNCHANGED pending
      <4>1. round' = claim.request /\ phase' = "query" /\ obs' = NoObs
        BY <3>1 DEF Begin
      <4> QED BY <3>0, <3>1, <4>1, <2>1, <1>0, Constants DEF Queue, Timely
    <3>2. CASE pending' = (IF Duplicate THEN pending ELSE claim.request) /\ UNCHANGED run
      <4>1. round' = round /\ phase' = phase /\ obs' = obs
        BY <3>2 DEF run
      <4>2. CASE Duplicate
        BY <3>0, <3>2, <4>1, <4>2, <2>1, <1>0, Constants DEF Queue, Timely
      <4>3. CASE ~Duplicate
        BY <3>0, <3>2, <4>1, <4>3, <2>1, <1>0, Constants DEF Queue, Timely, Duplicate, Targeted
      <4> QED BY <4>2, <4>3
    <3>3. CASE UNCHANGED <<run, pending>>
      BY <3>0, <3>3, <2>1, <1>0, Constants DEF Queue, Timely, run
    <3> QED BY <2>5, <3>1, <3>2, <3>3 DEF Dispatch
  <2> QED BY <1>5, <2>2, <2>3, <2>4, <2>5 DEF ProcessDue
<1>6. CASE Stop
  <2>1. stops' # 0
    BY <1>6 DEF Stop, TypeOK
  <2> QED BY <2>1, <1>6, <1>0 DEF Stop, Queue, Timely, run, due
<1>7. CASE RequeuePending
  <2>1. pending' = NoRequest /\ UNCHANGED <<now, stopped, run, due, stops>>
    BY <1>7 DEF RequeuePending, bounds
  <2> QED BY <2>1, <1>0, Constants DEF Queue, Timely, run, due
<1>8. CASE Reload
  BY <1>8, <1>0 DEF Reload, Queue, Timely, run, due, bounds
<1>9. CASE CrashAndRestart
  <2>1. /\ round' = NoRequest /\ obs' = NoObs /\ pending' = NoRequest
        /\ loop' = "idle" /\ claim' = NoClaim /\ stopped' = FALSE
        /\ UNCHANGED <<now, stops>>
    BY <1>9 DEF CrashAndRestart
  <2> QED BY <2>1, <1>0, Constants DEF Queue, Timely
<1> QED BY <1>2, <1>3, <1>4, <1>5, <1>6, <1>7, <1>8, <1>9 DEF Next

LEMMA QueueAlways == Spec => [](TypeOK /\ Queue)
<1>1. Init => Queue
  <2> SUFFICES ASSUME Init PROVE Queue
    OBVIOUS
  <2>1. /\ now = 1 /\ loop = "idle" /\ claim = NoClaim /\ round = NoRequest
        /\ pending = NoRequest /\ obs = NoObs
    BY DEF Init
  <2>2. ~stopped
    BY DEF Init
  <2> QED BY <2>1, <2>2, Constants DEF Queue, Timely, NoObs
<1>2. TypeOK /\ Queue /\ [Next]_vars => Queue'
  BY QueueStep
<1> QED BY <1>1, <1>2, TypeCorrect, PTL DEF Spec
-----------------------------------------------------------------------------
(* When plans are due.                                                     *)

(* What recordAccountResult has in hand, if it plans anything. *)
LEMMA RecordedObs ==
  ASSUME TypeOK, RecordResult
  PROVE  \/ UNCHANGED <<obs, mem, owed>>
         \/ /\ obs' \in Obs /\ obs'.checked = now
            /\ obs'.r = window \/ obs'.r = obs.r
            /\ mem' = Planned(mem, obs') /\ owed' = Served(obs')
<1>1. CASE \E r \in {window, obs.r} : obs' = [checked |-> now, r |-> r]
  <2>1. PICK r \in {window, obs.r} : obs' = [checked |-> now, r |-> r]
    BY <1>1
  <2>2. r \in [Kind -> Time] /\ now \in Time
    BY <2>1 DEF TypeOK, Time
  <2>3. obs' \in Obs /\ obs'.checked = now /\ (obs'.r = window \/ obs'.r = obs.r)
    BY <2>1, <2>2 DEF Obs
  <2> QED BY <2>3 DEF RecordResult
<1>2. CASE UNCHANGED <<obs, mem, owed>>
  BY <1>2
<1> QED BY <1>1, <1>2 DEF RecordResult

(* What the counters of the bounds say about a step. *)
LEMMA NothingStopped ==
  ASSUME TypeOK, Queue, [Next]_vars, stops' = 0
  PROVE  stops = 0 /\ ~stopped
<1>1. stops \in Nat
  BY DEF TypeOK
<1>2. stops = 0
  <2>1. ASSUME UNCHANGED stops PROVE stops = 0
    BY <2>1
  <2>2. ~Stop
    BY <1>1 DEF Stop
  <2> QED BY <2>1, <2>2
          DEF Next, vars, bounds, Upstream, OtherWrite, Round, ProcessDue,
              RequeuePending, Reload, CrashAndRestart
<1> QED BY <1>2 DEF Queue

LEMMA AllWritten ==
  ASSUME TypeOK, failures' = 0
  PROVE  /\ \A entry : WriteTried(entry) => disk' = entry /\ failures = 0
         /\ ~NotWritten
  BY DEF TypeOK, WriteTried, Written, NotWritten

LEMMA PunctualStep ==
  ASSUME TypeOK, Queue, Punctual, [Next]_vars
  PROVE  Punctual'
<1> SUFFICES ASSUME stops' = 0, failures' = 0
             PROVE  /\ LateEnough(mem)' /\ LateEnough(disk)'
                    /\ \A k \in claim'.request.plans \cap Kind :
                         claim'.request.r[k] + Delay <= now'
  BY DEF Punctual
<1>1. stops = 0 /\ ~stopped
  BY NothingStopped
<1>2. /\ \A entry : WriteTried(entry) => disk' = entry /\ failures = 0
      /\ ~NotWritten
  BY AllWritten
<1>3. failures = 0 => /\ LateEnough(mem) /\ LateEnough(disk)
                      /\ \A k \in claim.request.plans \cap Kind :
                           claim.request.r[k] + Delay <= now
  BY <1>1 DEF Punctual
<1>4. /\ mem \in Entry /\ disk \in Entry /\ obs \in Obs /\ now \in Nat
      /\ claim.request.r \in [Kind -> Time] /\ Delay \in Nat
  BY FollowupAssumption DEF TypeOK, Obs, Request
<1>5. NoClaim.request.plans = {}
  BY Constants
<1>6. \A k \in Kind : claim.request.r[k] \in Nat
  BY <1>4 DEF Time
\* The claim is kept or given up, and the clock goes on.
<1>7. ASSUME failures = 0, claim' = claim \/ claim' = NoClaim,
             now' = now \/ now' = now + 1
      PROVE  \A k \in claim'.request.plans \cap Kind :
               claim'.request.r[k] + Delay <= now'
  <2>1. CASE claim' = claim
    BY <1>3, <1>4, <1>6, <1>7, <2>1
  <2>2. CASE claim' = NoClaim
    BY <1>5, <2>2
  <2> QED BY <1>7, <2>1, <2>2
<1>8. ASSUME failures = 0, UNCHANGED <<mem, disk>>, claim' = claim \/ claim' = NoClaim,
             now' = now \/ now' = now + 1
      PROVE  /\ LateEnough(mem)' /\ LateEnough(disk)'
             /\ \A k \in claim'.request.plans \cap Kind :
                  claim'.request.r[k] + Delay <= now'
  BY <1>3, <1>7, <1>8 DEF LateEnough
<1>9. ASSUME WriteTried(mem'), LateEnough(mem)', claim' = claim, now' = now
      PROVE  /\ LateEnough(mem)' /\ LateEnough(disk)'
             /\ \A k \in claim'.request.plans \cap Kind :
                  claim'.request.r[k] + Delay <= now'
  <2>1. disk' = mem' /\ failures = 0
    BY <1>2, <1>9
  <2> QED BY <1>7, <1>9, <2>1 DEF LateEnough
<1>10. ASSUME NEW o \in Obs, failures = 0, mem' = Planned(mem, o)
       PROVE  LateEnough(mem)'
  <2> SUFFICES ASSUME NEW k \in Kind, mem'.at[k] # 0
               PROVE  mem'.r[k] + Delay <= mem'.at[k]
    BY DEF LateEnough
  <2>1. CASE New(mem, o, k)
    <3>1. mem'.r[k] = o.r[k] /\ mem'.at[k] = o.r[k] + Delay /\ o.r[k] \in Nat
      BY <1>4, <1>10, <2>1, PlannedFields DEF Obs, Time
    <3> QED BY <3>1, <1>4
  <2>2. CASE ~New(mem, o, k)
    <3>1. mem'.r[k] = mem.r[k] /\ mem'.at[k] = mem.at[k]
      BY <1>4, <1>10, <2>2, PlannedFields
    <3> QED BY <3>1, <1>3, <1>10 DEF LateEnough
  <2> QED BY <2>1, <2>2
<1>11. ASSUME failures = 0,
              mem'.r = mem.r /\ \A k \in Kind : mem'.at[k] \in {0, mem.at[k]}
       PROVE  LateEnough(mem)'
  BY <1>3, <1>11 DEF LateEnough
<1>12. CASE UNCHANGED vars
  BY <1>8, <1>12 DEF vars, due
<1>13. CASE Upstream
  BY <1>8, <1>13 DEF Upstream, due
<1>14. CASE Round
  <2>1. claim' = claim /\ now' = now
    BY <1>14 DEF Round, due
  <2>2. CASE StartFull \/ GiveUp \/ Query \/ Decide \/ EndRound
    BY <1>8, <2>1, <2>2 DEF StartFull, GiveUp, Query, Decide, EndRound
  <2>3. CASE SaveQuota
    BY <1>2, <1>4, <1>9, <1>10, <2>1, <2>3 DEF SaveQuota, WriteTried
  <2>4. CASE RecordResult
    <3>1. WriteTried(mem') /\ failures = 0
      BY <1>2, <2>4 DEF RecordResult
    <3>2. LateEnough(mem)'
      BY <1>10, <1>11, <2>4, <3>1, RecordedObs
    <3> QED BY <1>9, <2>1, <3>1, <3>2
  <2>5. CASE SaveQuotaFailure
    <3>1. mem' = mem /\ WriteTried(mem')
      BY <2>5 DEF SaveQuotaFailure
    <3> QED BY <1>2, <1>9, <1>11, <2>1, <3>1
  <2>8. CASE ScheduleQuotaRetry
    <3>1. CASE UNCHANGED <<mem, disk, failures>>
      BY <1>8, <2>1, <3>1
    <3>2. CASE mem' = Retried(mem) /\ WriteTried(mem')
      <4>1. mem'.r = mem.r /\ \A k \in Kind : mem'.at[k] = mem.at[k]
        BY <1>4, <3>2, RetriedFields
      <4> QED BY <1>2, <1>9, <1>11, <2>1, <3>2, <4>1
    <3> QED BY <2>8, <3>1, <3>2 DEF ScheduleQuotaRetry
  <2>6. CASE ClearQuotaRetry
    <3>1. mem'.r = mem.r /\ \A k \in Kind : mem'.at[k] = mem.at[k]
      BY <1>4, <2>6, ClearedFields DEF ClearQuotaRetry
    <3> QED BY <1>2, <1>9, <1>11, <2>1, <2>6, <3>1 DEF ClearQuotaRetry
  <2>7. ~Interrupt
    BY <1>1 DEF Interrupt
  <2> QED BY <1>14, <2>2, <2>3, <2>4, <2>5, <2>6, <2>7, <2>8 DEF Round
<1>15. CASE ProcessDue
  <2>1. now' = now
    BY <1>15 DEF ProcessDue
  <2>2. CASE Claim
    <3> DEFINE S == {p \in Plan : IsDue(p)}
    <3>1. /\ mem' = Consumed(mem, S) /\ UNCHANGED <<disk, failures>>
          /\ \E p \in S : claim' = [request |-> [plans |-> S, due |-> mem.at[p],
                                                r |-> mem.r],
                                   before  |-> mem]
      BY <2>2 DEF Claim
    <3>2. claim'.request.plans = S /\ claim'.request.r = mem.r
      BY <3>1
    <3>3. \A k \in S : mem.at[k] # 0 /\ mem.at[k] <= now
      BY DEF IsDue
    <3>4. S \in SUBSET Plan
      OBVIOUS
    <3> HIDE DEF S
    <3>5. mem'.r = mem.r /\ \A k \in Kind : mem'.at[k] \in {0, mem.at[k]}
      BY <1>4, <3>1, <3>4, ConsumedFields DEF Plan
    <3>6. ASSUME NEW k \in S \cap Kind PROVE mem.r[k] + Delay <= now
      <4>1. mem.r[k] + Delay <= mem.at[k] /\ mem.at[k] <= now
        BY <1>3, <3>1, <3>3, <3>6 DEF LateEnough
      <4> QED BY <4>1, <1>4, EntryFields
    <3> QED BY <1>3, <1>11, <2>1, <3>1, <3>2, <3>5, <3>6 DEF LateEnough
  <2>3. CASE ClaimWritten
    <3>1. mem' = mem /\ disk' = mem /\ failures = 0 /\ claim' = claim
      BY <2>3 DEF ClaimWritten, Written
    <3> QED BY <1>3, <1>7, <2>1, <3>1 DEF LateEnough
  <2>4. ~ClaimNotWritten
    BY <1>2 DEF ClaimNotWritten
  <2>5. CASE Dispatch
    <3>1. UNCHANGED <<mem, disk, failures>> /\ claim' = NoClaim
      BY <1>1, <2>5 DEF Dispatch
    <3> QED BY <1>8, <2>1, <3>1
  <2> QED BY <1>15, <2>2, <2>3, <2>4, <2>5 DEF ProcessDue
<1>16. CASE Stop \/ RequeuePending \/ Reload
  <2>1. ~Stop
    BY <1>1 DEF Stop
  <2> QED BY <1>1, <1>16, <2>1 DEF RequeuePending, Reload
<1>17. CASE CrashAndRestart
  <2>1. mem' = disk /\ disk' = disk /\ failures = 0 /\ claim' = NoClaim /\ now' = now
    BY <1>17 DEF CrashAndRestart
  <2> QED BY <1>3, <1>7, <2>1 DEF LateEnough
<1>18. CASE OtherWrite
  <2>1. mem' = mem /\ WriteTried(mem') /\ claim' = claim /\ now' = now
    BY <1>18 DEF OtherWrite, WriteTried, due
  <2> QED BY <1>2, <1>9, <1>11, <2>1
<1> QED BY <1>12, <1>13, <1>14, <1>15, <1>16, <1>17, <1>18 DEF Next

(* Whatever rounds save between a claim, its write and its dispatch, the   *)
(* claim uses up a reset point that is over for the delay: plans in memory *)
(* and in the state file are no earlier.                                   *)
THEOREM Late == Spec => []ClaimsComeAfterReset
<1>1. Init => Punctual
  <2> SUFFICES ASSUME Init PROVE LateEnough(mem) /\ LateEnough(disk)
                                 /\ claim.request.plans = {}
    BY DEF Punctual
  <2>1. mem = EmptyEntry /\ disk = EmptyEntry /\ claim = NoClaim
    BY DEF Init
  <2> QED BY <2>1, Constants DEF LateEnough, EmptyEntry, Plan
<1>2. TypeOK /\ Queue /\ Punctual /\ [Next]_vars => Punctual'
  BY PunctualStep
<1>3. Punctual => ClaimsComeAfterReset
  BY DEF Punctual, ClaimsComeAfterReset
<1> QED BY <1>1, <1>2, <1>3, QueueAlways, PTL DEF Spec

-----------------------------------------------------------------------------
(* Who has a follow-up in hand.                                            *)

LEMMA KeptStep ==
  ASSUME TypeOK, Queue, NoFollowupLost, [Next]_vars
  PROVE  NoFollowupLost'
<1> SUFFICES ASSUME stops' = 0, crashes' = 0, NEW k \in Kind, k \notin givenUp',
                    owed'[k] # 0
             PROVE  InHand(k)'
  BY DEF NoFollowupLost
<1>1. stops = 0 /\ ~stopped
  BY NothingStopped
<1>2. ~CrashAndRestart
  BY DEF CrashAndRestart, TypeOK
<1>3. crashes = 0
  BY <1>2 DEF Next, vars, bounds, Upstream, OtherWrite, Round, ProcessDue,
              RequeuePending, Reload, Stop
<1>4. k \notin givenUp /\ owed[k] # 0 => InHand(k)
  BY <1>1, <1>3 DEF NoFollowupLost
<1>5. pending # NoRequest => pending.plans # {}
  BY DEF Queue
<1>6. CASE UNCHANGED vars \/ Upstream \/ OtherWrite
  <2>1. UNCHANGED <<run, pending, due, past>>
    BY <1>6 DEF vars, Upstream, OtherWrite
  <2> QED BY <1>4, <2>1 DEF InHand, Targeted, run, due, past
<1>7. CASE Round
  <2>1. loop' = loop /\ claim' = claim
    BY <1>7 DEF Round, due
  <2>2. CASE StartFull
    BY <1>4, <2>1, <2>2, Constants DEF StartFull, past, Queue, InHand, Targeted
  <2>3. CASE GiveUp
    <3>1. owed[k] # 0 /\ k \notin givenUp /\ (Targeted => k \notin OnlyHere)
          /\ pending' = pending
      BY <2>3 DEF GiveUp
    <3> QED BY <1>4, <2>1, <3>1 DEF OnlyHere, InHand
  <2>4. CASE Query
    BY <2>4 DEF Query
  <2>5. CASE SaveQuota \/ RecordResult
    <3>1. \A o : Served(o)[k] # 0 => owed[k] # 0
      BY DEF Served
    <3> QED BY <1>4, <2>1, <2>5, <3>1 DEF SaveQuota, RecordResult, InHand
  <2>6. CASE SaveQuotaFailure \/ ScheduleQuotaRetry \/ Decide \/ ClearQuotaRetry
    BY <1>4, <2>1, <2>6 DEF SaveQuotaFailure, ScheduleQuotaRetry, Decide,
                           ClearQuotaRetry, past, InHand
  <2>7. CASE EndRound
    <3>1. phase # "query" /\ owed' = owed /\ givenUp' = givenUp /\ NextRequest
      BY <2>7 DEF EndRound
    <3>2. \/ phase' = "query" /\ round' = pending /\ pending # NoRequest
          \/ pending' = pending
      BY <3>1, NextRequestFacts
    <3> QED BY <1>4, <1>5, <2>1, <3>1, <3>2 DEF InHand, Targeted
  <2>8. ~Interrupt
    BY <1>1 DEF Interrupt
  <2> QED BY <1>7, <2>2, <2>3, <2>4, <2>5, <2>6, <2>7, <2>8 DEF Round
<1>8. CASE ProcessDue
  <2>1. CASE Claim
    BY <1>4, <2>1 DEF Claim, run, past, InHand, Targeted
  <2>2. CASE ClaimWritten
    <3>1. CASE k \in claim.request.plans
      BY <2>2, <3>1 DEF ClaimWritten, InHand
    <3>2. CASE k \notin claim.request.plans
      <4>1. owed[k] # 0 /\ k \notin givenUp
        BY <2>2, <3>2 DEF ClaimWritten
      <4> QED BY <1>4, <2>2, <4>1 DEF ClaimWritten, run, InHand, Targeted
    <3> QED BY <3>1, <3>2
  <2>3. CASE ClaimNotWritten
    BY <1>4, <2>3 DEF ClaimNotWritten, run, past, InHand, Targeted
  <2>4. CASE Dispatch
    <3>0. claim.request.plans # {} /\ givenUp' = givenUp
      BY <2>4 DEF Dispatch, Queue
    <3>1. CASE Begin(claim.request)
      BY <3>0, <3>1 DEF Begin, InHand, Targeted
    <3>2. CASE /\ pending' = IF Duplicate THEN pending ELSE claim.request
               /\ owed' = DroppedIsNotOwed
               /\ UNCHANGED run
      <4>1. owed'[k] = IF Targeted /\ pending = NoRequest /\ k \in claim.request.plans
                       THEN 0 ELSE owed[k]
        BY <3>2 DEF DroppedIsNotOwed
      <4>2. owed[k] # 0
        BY <4>1
      <4>3. CASE ~Duplicate
        BY <3>0, <3>2, <4>3, Constants DEF InHand
      <4>4. CASE Duplicate
        BY <1>4, <3>0, <3>2, <4>1, <4>2, <4>4 DEF Duplicate, Targeted, run, InHand
      <4> QED BY <4>3, <4>4
    <3> QED BY <1>1, <2>4, <3>1, <3>2 DEF Dispatch
  <2> QED BY <1>8, <2>1, <2>2, <2>3, <2>4 DEF ProcessDue
<1>9. CASE Stop \/ RequeuePending \/ Reload
  <2>1. ~Stop
    BY <1>1 DEF Stop
  <2> QED BY <1>1, <1>9, <2>1 DEF RequeuePending, Reload
<1> QED BY <1>2, <1>6, <1>7, <1>8, <1>9 DEF Next

(* Without stops and crashes a follow-up that is owed is with the request  *)
(* processDue is about to hand over, or behind one that has yet to ask,    *)
(* unless a targeted round that could not list the account gave it up.     *)
THEOREM Kept == Spec => []NoFollowupLost
<1>1. Init => NoFollowupLost
  BY DEF Init, NoFollowupLost
<1>2. TypeOK /\ Queue /\ NoFollowupLost /\ [Next]_vars => NoFollowupLost'
  BY KeptStep
<1> QED BY <1>1, <1>2, QueueAlways, PTL DEF Spec
-----------------------------------------------------------------------------
(* How many retries there are.                                             *)

ClaimedRetry == One("retry" \in claim.request.plans)
WrittenRetry == One(loop = "dispatch" /\ "retry" \in claim.request.plans)

LEMMA CountedNumbers ==
  ASSUME TypeOK
  PROVE  /\ mem.step \in Nat /\ disk.step \in Nat /\ claim.before.step \in Nat
         /\ mem.at["retry"] \in Nat /\ disk.at["retry"] \in Nat
         /\ claim.before.at["retry"] \in Nat
         /\ tries \in Int /\ now \in Nat
         /\ mem \in Entry /\ disk \in Entry /\ claim.before \in Entry
         /\ claim.request \in Request /\ round \in Request /\ pending \in Request
         /\ obs \in Obs
<1>1. mem \in Entry /\ disk \in Entry /\ claim.before \in Entry
  BY DEF TypeOK
<1>2. tries \in Int /\ now \in Nat
  BY DEF TypeOK
<1>3. /\ claim.request \in Request /\ round \in Request /\ pending \in Request
      /\ obs \in Obs
  BY DEF TypeOK, Obs
<1> QED BY <1>1, <1>2, <1>3, EntryFields

LEMMA NumbersNext ==
  ASSUME TypeOK'
  PROVE  mem'.step \in Nat /\ disk'.step \in Nat /\ tries' \in Int
<1>1. mem' \in Entry /\ disk' \in Entry /\ tries' \in Int
  BY DEF TypeOK
<1> QED BY <1>1, EntryFields

LEMMA Counts ==
  /\ ClaimedRetry \in {0, 1} /\ WrittenRetry \in {0, 1} /\ WrittenRetry <= ClaimedRetry
  /\ Requests \in {0, 1, 2}
  /\ \A entry : Retry(entry) \in {0, 1} /\ (entry.at["retry"] = 0 <=> Retry(entry) = 0)
  BY DEF ClaimedRetry, WrittenRetry, Requests, Retry, One

(* Sums that lose no less than they gain. *)
LEMMA Moved ==
  \A t, t1, c, c1, q, q1, r, s \in Int :
    t1 + c1 + q1 <= t + c + q /\ t + r + c + q <= s => t1 + r + c1 + q1 <= s
  OBVIOUS

LEMMA Exchanged ==
  \A t, t1, w, q, q1 \in Int : t1 + q1 = t + q => t1 + w + q1 <= t + w + q
  OBVIOUS

LEMMA Raised ==
  \A t, t1, c, q, q1, r, r1, s, s1 \in Int :
    t1 + q1 = t + q /\ r1 - s1 <= r - s /\ t + r + c + q <= s => t1 + r1 + c + q1 <= s1
  OBVIOUS

(* What is on disk is counted when what is in memory is: it was written    *)
(* now, or nothing that counts was added.                                  *)
LEMMA CountedOnDisk ==
  ASSUME TypeOK, TypeOK', Counted, SumInMemory', PutBack(mem)',
         now' = now \/ now' = now + 1,
         \/ disk' = mem'
         \/ /\ disk' = disk
            /\ tries' + WrittenRetry' + Requests' <= tries + WrittenRetry + Requests
  PROVE  SumOnDisk' /\ PutBack(disk)'
<1>1. /\ disk.step \in Nat /\ disk.at["retry"] \in Nat /\ tries \in Int /\ tries' \in Int
      /\ now \in Nat /\ mem'.step \in Nat
  BY CountedNumbers, NumbersNext
<1>2. /\ tries' + Retry(mem)' + ClaimedRetry' + Requests' <= mem'.step
      /\ tries + Retry(disk) + WrittenRetry + Requests <= disk.step
  BY DEF Counted, SumInMemory, SumOnDisk, ClaimedRetry, WrittenRetry
<1>3. /\ WrittenRetry \in {0, 1} /\ Requests \in {0, 1, 2}
      /\ Retry(disk) \in {0, 1}
      /\ ClaimedRetry' \in {0, 1} /\ WrittenRetry' \in {0, 1}
      /\ WrittenRetry' <= ClaimedRetry' /\ Requests' \in {0, 1, 2}
      /\ Retry(mem)' \in {0, 1} /\ Retry(disk)' \in {0, 1}
  BY Counts DEF ClaimedRetry, WrittenRetry, Requests, Retry, One, InProgress
<1>4. CASE disk' = mem'
  <2>1. Retry(disk)' = Retry(mem)' /\ PutBack(disk)'
    BY <1>4 DEF Retry, PutBack
  <2>2. tries' + Retry(disk)' + WrittenRetry' + Requests' <= disk'.step
    BY <1>1, <1>2, <1>3, <1>4, <2>1
  <2> QED BY <2>1, <2>2 DEF SumOnDisk, WrittenRetry
<1>5. CASE /\ disk' = disk
           /\ tries' + WrittenRetry' + Requests' <= tries + WrittenRetry + Requests
  <2>1. Retry(disk)' = Retry(disk) /\ disk'.step = disk.step
    BY <1>5 DEF Retry
  <2>2. tries' + Retry(disk) + WrittenRetry' + Requests' <= disk.step
    <3>1. /\ WrittenRetry \in Int /\ WrittenRetry' \in Int /\ Requests \in Int
          /\ Requests' \in Int /\ Retry(disk) \in Int /\ disk.step \in Int
          /\ tries \in Int /\ tries' \in Int
      BY <1>1, <1>3
    <3>2. /\ tries' + WrittenRetry' + Requests' <= tries + WrittenRetry + Requests
          /\ tries + Retry(disk) + WrittenRetry + Requests <= disk.step
      BY <1>2, <1>5
    <3> QED BY <3>1, <3>2, Moved
  <2>4. tries' + Retry(disk)' + WrittenRetry' + Requests' <= disk'.step
    BY <2>1, <2>2
  <2>3. PutBack(disk)'
    BY <1>1, <1>5 DEF PutBack, Counted
  <2> QED BY <2>3, <2>4 DEF SumOnDisk, WrittenRetry
<1> QED BY <1>4, <1>5

(* Who has a retry after runQueue took the next request. *)
LEMMA NextRequestCounts ==
  ASSUME TypeOK, Queue, NextRequest
  PROVE  Requests' = One("retry" \in pending.plans)
<1>1. NoRequest.plans = {}
  BY Constants
<1>2. \/ /\ phase' = "query" /\ round' = pending /\ pending' = NoRequest
      \/ round' = NoRequest /\ pending' = pending
  BY NextRequestFacts
<1> QED BY <1>1, <1>2 DEF Requests, InProgress, One

(* A step of the round: the claim stays, and what it does to the retry in  *)
(* memory, to the step and to the retries in requests adds up.             *)
LEMMA CountedRound ==
  ASSUME TypeOK, TypeOK', Counted, UNCHANGED <<loop, claim, now>>,
         tries' + Retry(mem)' + ClaimedRetry + Requests' <= mem'.step,
         PutBack(mem)',
         mem.at["retry"] # 0 \/ mem.step = 0 =>
           mem'.at["retry"] # 0 \/ mem'.step = 0,
         \/ disk' = mem'
         \/ disk' = disk /\ tries' + WrittenRetry + Requests'
                              <= tries + WrittenRetry + Requests
  PROVE  Counted'
<1>1. ClaimedRetry' = ClaimedRetry /\ WrittenRetry' = WrittenRetry
  BY DEF ClaimedRetry, WrittenRetry
<1>2. SumInMemory'
  BY <1>1 DEF SumInMemory, ClaimedRetry
<1>3. SumOnDisk' /\ PutBack(disk)'
  BY <1>1, <1>2, CountedOnDisk
<1>4. PutBack(claim.before)'
  BY DEF Counted, PutBack
<1>5. RetryOutlives'
  BY DEF Counted, RetryOutlives
<1> QED BY <1>2, <1>3, <1>4, <1>5 DEF Counted

LEMMA CountedRoundStep ==
  ASSUME TypeOK, TypeOK', Queue, Counted, Round
  PROVE  Counted'
<1>0. UNCHANGED <<loop, claim, now>>
  BY DEF Round, due
<1>1. /\ mem.step \in Nat /\ tries \in Int /\ now \in Nat /\ mem.at["retry"] \in Nat
      /\ mem \in Entry /\ round \in Request /\ obs \in Obs /\ claim.request \in Request
      /\ disk.step \in Nat /\ pending \in Request
  BY CountedNumbers
<1>2. /\ tries + Retry(mem) + ClaimedRetry + Requests <= mem.step
      /\ tries + Retry(disk) + WrittenRetry + Requests <= disk.step
      /\ PutBack(mem)
  BY DEF Counted, SumInMemory, SumOnDisk, ClaimedRetry, WrittenRetry
<1>3. /\ ClaimedRetry \in {0, 1} /\ WrittenRetry \in {0, 1} /\ WrittenRetry <= ClaimedRetry
      /\ Requests \in {0, 1, 2} /\ Requests' \in {0, 1, 2}
      /\ \A entry : Retry(entry) \in {0, 1} /\ (entry.at["retry"] = 0 <=> Retry(entry) = 0)
      /\ Retry(mem)' = Retry(mem')
  BY Counts DEF Requests, One, InProgress, Retry
<1>4. \A entry : WriteTried(entry) => disk' = entry \/ disk' = disk
  BY DEF WriteTried, Written, NotWritten
\* The request stays, at the end or on the way, with an unchanged retry.
<1>5. ASSUME UNCHANGED <<round, pending>>, phase \notin {"retry", "end"}
      PROVE  Requests' <= Requests
  BY <1>5 DEF Requests, InProgress, One
<1>6. ASSUME mem'.at["retry"] = mem.at["retry"], mem'.step = mem.step, tries' = tries,
             Requests' <= Requests, disk' = mem' \/ disk' = disk
      PROVE  Counted'
  <2>1. Retry(mem') = Retry(mem)
    BY <1>6 DEF Retry
  <2>2. PutBack(mem)'
    BY <1>0, <1>2, <1>6 DEF PutBack
  <2>3. Retry(mem) \in {0, 1} /\ Retry(mem)' = Retry(mem)
    BY <1>3, <2>1
  <2>4. tries' + Retry(mem)' + ClaimedRetry + Requests' <= mem'.step
    BY <1>1, <1>2, <1>3, <1>6, <2>3
  <2>5. tries' + WrittenRetry + Requests' <= tries + WrittenRetry + Requests
    BY <1>1, <1>3, <1>6
  <2> QED BY <1>0, <1>6, <2>2, <2>4, <2>5, CountedRound
<1>7. CASE StartFull
  <2>1. Requests' <= Requests
    BY <1>7, Constants DEF StartFull, Begin, Requests, InProgress, One
  <2> QED BY <1>6, <1>7, <2>1 DEF StartFull, past
<1>8. CASE GiveUp \/ Query
  BY <1>5, <1>6, <1>8 DEF GiveUp, Query
<1>9. CASE Decide
  BY <1>5, <1>6, <1>9 DEF Decide, past
<1>10. CASE SaveQuota
  <2>1. mem'.at["retry"] = mem.at["retry"] /\ mem'.step = mem.step
    BY <1>1, <1>10, PlannedFields DEF SaveQuota
  <2>2. WriteTried(mem')
    BY <1>10 DEF SaveQuota, WriteTried
  <2> QED BY <1>4, <1>5, <1>6, <1>10, <2>1, <2>2 DEF SaveQuota
<1>11. CASE RecordResult
  <2>1. mem'.at["retry"] = mem.at["retry"] /\ mem'.step = mem.step
    BY <1>1, <1>11, PlannedFields, RecordedObs
  <2> QED BY <1>4, <1>5, <1>6, <1>11, <2>1 DEF RecordResult
<1>12. CASE EndRound
  <2>1. Requests' <= Requests
    BY <1>12, NextRequestCounts DEF EndRound, Requests, InProgress, One
  <2> QED BY <1>6, <1>12, <2>1 DEF EndRound
<1>13. CASE SaveQuotaFailure
  <2>1. /\ mem' = mem /\ (disk' = mem' \/ disk' = disk)
        /\ tries' = IF "retry" \in round.plans THEN tries + 1 ELSE tries
        /\ UNCHANGED <<round, pending>> /\ phase = "failed" /\ phase' \in {"retry", "end"}
    BY <1>4, <1>13 DEF SaveQuotaFailure
  <2>2. Requests = One("retry" \in pending.plans) + One("retry" \in round.plans)
    BY <2>1 DEF Requests, InProgress, One
  <2>3. Requests' = One("retry" \in pending.plans)
    BY <2>1 DEF Requests, InProgress, One
  <2>4. tries' + Requests' = tries + Requests
    BY <1>1, <2>1, <2>2, <2>3 DEF One
  <2>5. Retry(mem)' = Retry(mem) /\ PutBack(mem)'
    BY <1>0, <1>2, <2>1 DEF Retry, PutBack
  <2>6. /\ tries \in Int /\ tries' \in Int /\ ClaimedRetry \in Int
        /\ WrittenRetry \in Int /\ Requests \in Int /\ Requests' \in Int
        /\ Retry(mem) \in Int /\ mem.step \in Int
    BY <1>1, <1>3, NumbersNext
  <2>7. tries' + Retry(mem)' + ClaimedRetry + Requests' <= mem'.step
    <3>1. tries + Retry(mem) + ClaimedRetry + Requests <= mem.step
      BY <1>2
    <3>2. Retry(mem) - mem.step <= Retry(mem) - mem.step
      BY <2>6
    <3>3. tries' + Retry(mem) + ClaimedRetry + Requests' <= mem.step
      BY <2>4, <2>6, <3>1, <3>2, Raised
    <3> QED BY <2>1, <2>5, <3>3
  <2>8. tries' + WrittenRetry + Requests' <= tries + WrittenRetry + Requests
    BY <2>4, <2>6, Exchanged
  <2> QED BY <1>0, <2>1, <2>5, <2>7, <2>8, CountedRound
<1>17. CASE ScheduleQuotaRetry
  <2>1. /\ mem' = mem \/ mem' = Retried(mem)
        /\ disk' = mem' \/ disk' = disk
        /\ tries' = tries
        /\ UNCHANGED <<round, pending>> /\ phase = "retry" /\ phase' = "end"
    BY <1>4, <1>17 DEF ScheduleQuotaRetry, past
  <2>2. Requests' = Requests
    BY <2>1 DEF Requests, InProgress, One
  <2>5. \/ mem' = mem
        \/ /\ mem.at["retry"] = 0 /\ mem'.at["retry"] # 0
           /\ mem'.step = mem.step + 1
    BY <1>1, <2>1, RetriedFields
  <2>6. Retry(mem)' - mem'.step <= Retry(mem) - mem.step
    <3>1. CASE mem' = mem
      BY <1>1, <1>3, <3>1
    <3>2. CASE mem'.at["retry"] # 0 /\ mem'.step = mem.step + 1
      BY <1>1, <1>3, <3>2
    <3> QED BY <2>5, <3>1, <3>2
  <2>7. PutBack(mem)'
    <3>1. CASE mem' = mem
      BY <1>0, <1>2, <3>1 DEF PutBack
    <3>2. CASE mem'.step = mem.step + 1
      BY <1>1, <3>2 DEF PutBack
    <3> QED BY <2>5, <3>1, <3>2
  <2>8. mem'.step \in Nat
    BY NumbersNext
  <2>9. tries' + Retry(mem)' + ClaimedRetry + Requests' <= mem'.step
    <3>1. /\ tries \in Int /\ ClaimedRetry \in Int /\ Requests \in Int
          /\ Retry(mem) \in Int /\ mem.step \in Int /\ mem'.step \in Int
      BY <1>1, <1>3, <2>8
    <3>2. Retry(mem)' \in Int
      BY DEF Retry, One
    <3>3. tries + Retry(mem) + ClaimedRetry + Requests <= mem.step
      BY <1>2
    <3> QED BY <2>1, <2>2, <2>6, <3>1, <3>2, <3>3, Raised
  <2>10. tries' + WrittenRetry + Requests' <= tries + WrittenRetry + Requests
    BY <1>1, <1>3, <2>1, <2>2
  <2> QED BY <1>0, <2>1, <2>5, <2>7, <2>9, <2>10, CountedRound
\* The account was read: what is left over is counted from here.
<1>14. ASSUME tries' = -Leftover, mem'.step = 0, disk' = mem' \/ disk' = disk,
              Requests' = One("retry" \in pending.plans)
                          + One("retry" \in round.plans /\ phase' = "model"),
              PutBack(mem)'
       PROVE  Counted'
  <2> DEFINE p == One("retry" \in pending.plans)
             m == One("retry" \in round.plans /\ phase' = "model")
             e == One(mem'.at["retry"] # 0 \/ disk'.at["retry"] # 0)
  <2>1. Leftover = ClaimedRetry + p + m + e
    BY DEF Leftover, ClaimedRetry
  <2>2. p \in {0, 1} /\ m \in {0, 1} /\ e \in {0, 1}
    BY DEF One
  <2>3. /\ Retry(mem)' <= e /\ Retry(disk)' <= e
        /\ Retry(mem)' \in {0, 1} /\ Retry(disk)' \in {0, 1}
    BY DEF Retry, One
  <2>4. Requests' = p + m
    BY <1>14
  <2> HIDE DEF p, m, e
  <2>5. tries' + Retry(mem)' + ClaimedRetry + Requests' <= mem'.step
    BY <1>3, <1>14, <2>1, <2>2, <2>3, <2>4
  <2>6. disk'.step \in Nat
    BY NumbersNext
  <2>7. tries' + Retry(disk)' + WrittenRetry + Requests' <= disk'.step
    BY <1>3, <1>14, <2>1, <2>2, <2>3, <2>4, <2>6
  <2>8. ClaimedRetry' = ClaimedRetry /\ WrittenRetry' = WrittenRetry
    BY <1>0 DEF ClaimedRetry, WrittenRetry
  <2>9. SumInMemory' /\ SumOnDisk'
    BY <2>5, <2>7, <2>8 DEF SumInMemory, SumOnDisk, ClaimedRetry, WrittenRetry
  <2>10. PutBack(disk)'
    BY <1>0, <1>14 DEF PutBack, Counted
  <2>11. PutBack(claim.before)' /\ RetryOutlives'
    BY <1>0, <1>14 DEF Counted, PutBack, RetryOutlives
  <2> QED BY <1>14, <2>9, <2>10, <2>11 DEF Counted
<1>15. CASE ClearQuotaRetry
  <2>1. /\ mem'.step = 0 /\ mem'.at["retry"] = 0
        /\ disk' = mem' \/ disk' = disk
        /\ tries' = -Leftover
        /\ UNCHANGED <<round, pending>>
        /\ phase' \in {"model", "end"} \/ (phase' = "decide" /\ round.plans = {})
    BY <1>1, <1>4, <1>15, ClearedFields DEF ClearQuotaRetry, Targeted
  <2>2. Requests' = One("retry" \in pending.plans)
                    + One("retry" \in round.plans /\ phase' = "model")
    BY <2>1 DEF Requests, InProgress, One
  <2>3. PutBack(mem)'
    BY <1>0, <1>1, <2>1 DEF PutBack
  <2> QED BY <1>14, <2>1, <2>2, <2>3
<1>16. CASE Interrupt
  <2>1. /\ mem' = Requeued(IF Targeted /\ phase = "decide" THEN Cleared(mem) ELSE mem,
                           round)
        /\ disk' = mem' \/ disk' = disk
        /\ NextRequest /\ phase \notin {"idle", "retry", "end"} /\ stopped
        /\ tries' = IF Targeted /\ phase = "decide" THEN -Leftover ELSE tries
    BY <1>4, <1>16 DEF Interrupt
  <2>2. Requests' = One("retry" \in pending.plans) /\ phase' # "model"
    BY <2>1, NextRequestCounts, NextRequestFacts
  <2>3. round.due \in Nat /\ round.due <= now /\ (round.plans # {} => round.due # 0)
    BY QueueNumbers DEF Queue, Timely
  <2>4. "retry" \in Plan
    BY DEF Plan
  <2>5. CASE Targeted /\ phase = "decide"
    <3>1. /\ mem' = Requeued(Cleared(mem), round)
          /\ Cleared(mem) \in Entry /\ Cleared(mem).step = 0
          /\ Cleared(mem).at["retry"] = 0
      BY <1>1, <2>1, <2>5, ClearedFields
    <3>2. /\ mem'.step = 0
          /\ mem'.at["retry"] = IF "retry" \in round.plans THEN round.due ELSE 0
      BY <1>1, <2>4, <3>1, RequeuedFields
    <3>3. PutBack(mem)'
      BY <1>0, <1>1, <2>3, <3>2 DEF PutBack
    <3>4. Requests' = One("retry" \in pending.plans)
                      + One("retry" \in round.plans /\ phase' = "model")
      BY <2>2 DEF One
    <3> QED BY <1>14, <2>1, <2>5, <3>2, <3>3, <3>4
  <2>6. CASE ~(Targeted /\ phase = "decide")
    <3>1. mem' = Requeued(mem, round) /\ tries' = tries
      BY <2>1, <2>6
    <3>2. /\ mem'.step = mem.step
          /\ mem'.at["retry"] = IF "retry" \in round.plans THEN round.due
                                                         ELSE mem.at["retry"]
      BY <1>1, <2>4, <3>1, RequeuedFields
    <3>3. PutBack(mem)'
      BY <1>0, <1>1, <1>2, <2>3, <3>2 DEF PutBack
    <3>4. Requests = One("retry" \in pending.plans) + One("retry" \in round.plans)
      BY <2>1 DEF Requests, InProgress, One
    <3>5. CASE "retry" \in round.plans
      <4>1. mem'.at["retry"] # 0 /\ Requests' = Requests - 1
        BY <1>3, <2>2, <2>3, <3>2, <3>4, <3>5 DEF One
      <4>2. Retry(mem)' <= Retry(mem) + 1
        BY <1>3
      <4>3. tries' + Retry(mem)' + ClaimedRetry + Requests' <= mem'.step
        BY <1>1, <1>2, <1>3, <3>1, <3>2, <4>1, <4>2
      <4>4. tries' + WrittenRetry + Requests' <= tries + WrittenRetry + Requests
        BY <1>1, <1>3, <3>1, <4>1
      <4> QED BY <1>0, <2>1, <3>3, <4>1, <4>3, <4>4, CountedRound
    <3>6. CASE "retry" \notin round.plans
      <4>1. mem'.at["retry"] = mem.at["retry"] /\ Requests' <= Requests
        BY <2>2, <3>2, <3>4, <3>6 DEF One
      <4> QED BY <1>6, <2>1, <3>1, <3>2, <4>1
    <3> QED BY <3>5, <3>6
  <2> QED BY <2>5, <2>6
<1> QED BY <1>7, <1>8, <1>9, <1>10, <1>11, <1>12, <1>13, <1>15, <1>16, <1>17 DEF Round
LEMMA CountedLoopStep ==
  ASSUME TypeOK, TypeOK', Queue, Counted, ProcessDue
  PROVE  Counted'
<1>0. now' = now
  BY DEF ProcessDue
<1>1. /\ mem.step \in Nat /\ disk.step \in Nat /\ tries \in Int /\ now \in Nat
      /\ mem.at["retry"] \in Nat /\ disk.at["retry"] \in Nat
      /\ claim.before.at["retry"] \in Nat /\ claim.before.step \in Nat
      /\ mem \in Entry /\ claim.before \in Entry /\ claim.request \in Request
  BY CountedNumbers
<1>2. /\ tries + Retry(mem) + ClaimedRetry + Requests <= mem.step
      /\ tries + Retry(disk) + WrittenRetry + Requests <= disk.step
      /\ PutBack(mem) /\ PutBack(disk) /\ PutBack(claim.before) /\ RetryOutlives
  BY DEF Counted, SumInMemory, SumOnDisk, ClaimedRetry, WrittenRetry
<1>3. /\ ClaimedRetry \in {0, 1} /\ WrittenRetry \in {0, 1} /\ WrittenRetry <= ClaimedRetry
      /\ Requests \in {0, 1, 2} /\ Retry(mem) \in {0, 1} /\ Retry(disk) \in {0, 1}
      /\ Requests' \in {0, 1, 2} /\ Retry(mem)' \in {0, 1} /\ Retry(disk)' \in {0, 1}
  BY Counts DEF Requests, One, InProgress, Retry
<1>4. UNCHANGED <<run, pending>> => Requests' = Requests
  BY DEF Requests, InProgress, One, run
<1>5. PutBack(NoClaim.before) /\ PutBack(EmptyEntry)
  BY <1>1, Constants DEF PutBack, EmptyEntry, Plan
\* The claim is given up.
<1>6. ASSUME loop' = "idle", claim' = NoClaim
      PROVE  /\ ClaimedRetry' = 0 /\ WrittenRetry' = 0
             /\ PutBack(claim.before)' /\ RetryOutlives'
  <2>1. ClaimedRetry' = 0 /\ WrittenRetry' = 0
    BY <1>6, Constants DEF ClaimedRetry, WrittenRetry, One
  <2>2. PutBack(claim.before)'
    BY <1>0, <1>5, <1>6 DEF PutBack
  <2>3. RetryOutlives'
    BY <1>6 DEF RetryOutlives
  <2> QED BY <2>1, <2>2, <2>3
<1>7. CASE Claim
  <2> DEFINE S == {p \in Plan : IsDue(p)}
  <2>1. /\ mem' = Consumed(mem, S) /\ loop' = "claimed" /\ loop = "idle"
        /\ UNCHANGED <<disk, failures, run, pending, past>>
        /\ \E p \in S : claim' = [request |-> [plans |-> S, due |-> mem.at[p],
                                              r |-> mem.r],
                                 before  |-> mem]
    BY <1>7 DEF Claim
  <2>2. claim'.request.plans = S /\ claim'.before = mem
    BY <2>1
  <2>3. "retry" \in Plan /\ S \in SUBSET Plan
    BY DEF Plan
  <2>4. "retry" \in S <=> mem.at["retry"] # 0 /\ mem.at["retry"] <= now
    BY <2>3 DEF IsDue
  <2> HIDE DEF S
  <2>5. /\ mem'.step = mem.step
        /\ mem'.at["retry"] = IF "retry" \in S THEN 0 ELSE mem.at["retry"]
    BY <1>1, <2>1, <2>3, ConsumedFields
  <2>6. WrittenRetry' = 0 /\ disk' = disk /\ Requests' = Requests /\ tries' = tries
    BY <1>4, <2>1 DEF WrittenRetry, One, past
  <2>7. Retry(mem)' + ClaimedRetry' <= Retry(mem)
    BY <2>2, <2>4, <2>5 DEF Retry, ClaimedRetry, One
  <2>8. ClaimedRetry' \in {0, 1}
    BY DEF ClaimedRetry, One
  <2>9. tries' + Retry(mem)' + ClaimedRetry' + Requests' <= mem'.step
    BY <1>1, <1>2, <1>3, <2>5, <2>6, <2>7, <2>8
  <2>10. Retry(disk)' = Retry(disk)
    BY <2>6 DEF Retry
  <2>11. tries' + Retry(disk)' + WrittenRetry' + Requests' <= disk'.step
    BY <1>1, <1>2, <1>3, <2>6, <2>10
  <2>12. SumInMemory' /\ SumOnDisk'
    BY <2>9, <2>11 DEF SumInMemory, SumOnDisk, ClaimedRetry, WrittenRetry
  <2>13. PutBack(mem)' /\ PutBack(disk)' /\ PutBack(claim.before)'
    BY <1>0, <1>1, <1>2, <2>2, <2>5, <2>6 DEF PutBack
  <2>14. RetryOutlives'
    BY <1>1, <1>2, <2>2, <2>4, <2>5 DEF RetryOutlives, PutBack
  <2> QED BY <2>12, <2>13, <2>14 DEF Counted
<1>8. CASE ClaimWritten
  <2>1. /\ mem' = mem /\ disk' = mem /\ claim' = claim /\ loop' = "dispatch"
        /\ tries' = tries /\ UNCHANGED <<run, pending>>
    BY <1>8 DEF ClaimWritten, Written
  <2>2. ClaimedRetry' = ClaimedRetry /\ Requests' = Requests
    BY <1>4, <2>1 DEF ClaimedRetry
  <2>3. Retry(mem)' = Retry(mem) /\ mem'.step = mem.step
    BY <2>1 DEF Retry
  <2>4. tries' + Retry(mem)' + ClaimedRetry' + Requests' <= mem'.step
    BY <1>2, <2>1, <2>2, <2>3
  <2>5. SumInMemory'
    BY <2>4 DEF SumInMemory, ClaimedRetry
  <2>6. PutBack(mem)' /\ PutBack(claim.before)'
    BY <1>0, <1>2, <2>1 DEF PutBack
  <2>7. SumOnDisk' /\ PutBack(disk)'
    BY <1>0, <2>1, <2>5, <2>6, CountedOnDisk
  <2>8. RetryOutlives'
    BY <2>1 DEF RetryOutlives
  <2> QED BY <2>5, <2>6, <2>7, <2>8 DEF Counted
<1>9. CASE ClaimNotWritten
  <2>1. /\ mem' = RolledBack(mem, claim.before) /\ loop = "claimed"
        /\ loop' = "idle" /\ claim' = NoClaim
        /\ disk' = disk /\ UNCHANGED <<run, pending>> /\ tries' = tries
    BY <1>9 DEF ClaimNotWritten, NotWritten, past
  <2>2. /\ mem'.step = mem.step
        /\ mem'.at["retry"] = IF mem.step = claim.before.step
                              THEN claim.before.at["retry"] ELSE mem.at["retry"]
    BY <1>1, <2>1, RolledBackFields
  <2>3. ClaimedRetry' = 0 /\ WrittenRetry' = 0 /\ PutBack(claim.before)' /\ RetryOutlives'
    BY <1>6, <2>1
  <2>4. Requests' = Requests
    BY <1>4, <2>1
  <2>5. Retry(mem)' <= Retry(mem) + ClaimedRetry
    <3>1. CASE "retry" \in claim.request.plans
      <4>1. ClaimedRetry = 1
        BY <3>1 DEF ClaimedRetry, One
      <4> QED BY <1>3, <4>1
    <3>2. CASE "retry" \notin claim.request.plans
      <4>1. mem'.at["retry"] # 0 => mem.at["retry"] # 0
        BY <1>1, <1>2, <2>1, <2>2, <3>2 DEF RetryOutlives
      <4>2. Retry(mem)' <= Retry(mem)
        BY <4>1 DEF Retry, One
      <4> QED BY <1>3, <4>2
    <3> QED BY <3>1, <3>2
  <2>6. tries' + Retry(mem)' + ClaimedRetry' + Requests' <= mem'.step
    BY <1>1, <1>2, <1>3, <2>1, <2>2, <2>3, <2>4, <2>5
  <2>7. SumInMemory'
    BY <2>6 DEF SumInMemory, ClaimedRetry
  <2>8. PutBack(mem)'
    BY <1>0, <1>1, <1>2, <2>2 DEF PutBack
  <2>9. tries' + WrittenRetry' + Requests' <= tries + WrittenRetry + Requests
    BY <1>1, <1>3, <2>1, <2>3, <2>4
  <2>10. SumOnDisk' /\ PutBack(disk)'
    BY <1>0, <2>1, <2>7, <2>8, <2>9, CountedOnDisk
  <2> QED BY <2>3, <2>7, <2>8, <2>10 DEF Counted
<1>10. CASE Dispatch
  <2>0. loop = "dispatch" /\ loop' = "idle" /\ claim' = NoClaim /\ tries' = tries
    BY <1>10 DEF Dispatch
  <2>1. ClaimedRetry' = 0 /\ WrittenRetry' = 0 /\ PutBack(claim.before)' /\ RetryOutlives'
    BY <1>6, <2>0
  <2>2. WrittenRetry = ClaimedRetry
    BY <2>0 DEF ClaimedRetry, WrittenRetry
  \* The request goes on to the queue, or is dropped.
  <2>3. ASSUME UNCHANGED <<mem, disk>>, Requests' <= Requests + ClaimedRetry
        PROVE  Counted'
    <3>1. Retry(mem)' = Retry(mem) /\ mem'.step = mem.step
      BY <2>3 DEF Retry
    <3>2. tries' + Retry(mem)' + ClaimedRetry' + Requests' <= mem'.step
      BY <1>1, <1>2, <1>3, <2>0, <2>1, <2>3, <3>1
    <3>3. SumInMemory'
      BY <3>2 DEF SumInMemory, ClaimedRetry
    <3>4. PutBack(mem)'
      BY <1>0, <1>2, <2>3 DEF PutBack
    <3>5. tries' + WrittenRetry' + Requests' <= tries + WrittenRetry + Requests
      BY <1>1, <1>3, <2>0, <2>1, <2>2, <2>3
    <3>6. SumOnDisk' /\ PutBack(disk)'
      BY <1>0, <2>3, <3>3, <3>4, <3>5, CountedOnDisk
    <3> QED BY <2>1, <3>3, <3>4, <3>6 DEF Counted
  <2>4. CASE /\ phase = "idle" /\ pending = NoRequest
             /\ Begin(claim.request) /\ UNCHANGED <<mem, disk, pending>>
    <3>1. Requests' = ClaimedRetry
      BY <2>4, Constants DEF Begin, Requests, InProgress, ClaimedRetry, One
    <3> QED BY <1>3, <2>3, <2>4, <3>1
  <2>5. CASE /\ pending' = IF Duplicate THEN pending ELSE claim.request
             /\ UNCHANGED <<mem, disk, run>>
    <3>1. CASE Duplicate
      <4>1. Requests' = Requests
        BY <1>4, <2>5, <3>1
      <4> QED BY <1>3, <2>3, <2>5, <4>1
    <3>2. CASE ~Duplicate
      <4>1. Requests' <= Requests + ClaimedRetry
        BY <2>5, <3>2 DEF Requests, InProgress, ClaimedRetry, One, run
      <4> QED BY <2>3, <2>5, <4>1
    <3> QED BY <3>1, <3>2
  <2>6. CASE mem' = Requeued(mem, claim.request) /\ WriteTried(mem')
             /\ UNCHANGED <<run, pending>>
    <3>1. "retry" \in Plan
      BY DEF Plan
    <3>2. /\ claim.request.due \in Nat /\ claim.request.due <= now
          /\ (claim.request.plans # {} => claim.request.due # 0)
      BY QueueNumbers DEF Queue, Timely
    <3>3. /\ mem'.step = mem.step
          /\ mem'.at["retry"] = IF "retry" \in claim.request.plans
                                THEN claim.request.due ELSE mem.at["retry"]
      BY <1>1, <2>6, <3>1, RequeuedFields
    <3>4. Retry(mem)' <= Retry(mem) + ClaimedRetry /\ Requests' = Requests
      BY <1>4, <2>6, <3>3 DEF Retry, ClaimedRetry, One
    <3>5. tries' + Retry(mem)' + ClaimedRetry' + Requests' <= mem'.step
      BY <1>1, <1>2, <1>3, <2>0, <2>1, <3>3, <3>4
    <3>6. SumInMemory'
      BY <3>5 DEF SumInMemory, ClaimedRetry
    <3>7. PutBack(mem)'
      BY <1>0, <1>1, <1>2, <3>2, <3>3 DEF PutBack
    <3>8. tries' + WrittenRetry' + Requests' <= tries + WrittenRetry + Requests
      BY <1>1, <1>3, <2>0, <2>1, <3>4
    <3>9. disk' = mem' \/ disk' = disk
      BY <2>6 DEF WriteTried, Written, NotWritten
    <3>10. SumOnDisk' /\ PutBack(disk)'
      BY <1>0, <3>6, <3>7, <3>8, <3>9, CountedOnDisk
    <3> QED BY <2>1, <3>6, <3>7, <3>10 DEF Counted
  <2> QED BY <1>10, <2>4, <2>5, <2>6 DEF Dispatch
<1> QED BY <1>7, <1>8, <1>9, <1>10 DEF ProcessDue

LEMMA CountedOtherStep ==
  ASSUME TypeOK, TypeOK', Queue, Counted,
         \/ UNCHANGED vars \/ Upstream \/ OtherWrite
         \/ Stop \/ RequeuePending \/ Reload \/ CrashAndRestart
  PROVE  Counted'
<1>1. /\ mem.step \in Nat /\ disk.step \in Nat /\ tries \in Int /\ now \in Nat
      /\ mem.at["retry"] \in Nat /\ disk.at["retry"] \in Nat
      /\ claim.before.at["retry"] \in Nat /\ mem \in Entry /\ pending \in Request
  BY CountedNumbers
<1>2. /\ tries + Retry(mem) + ClaimedRetry + Requests <= mem.step
      /\ tries + Retry(disk) + WrittenRetry + Requests <= disk.step
      /\ PutBack(mem) /\ PutBack(disk) /\ PutBack(claim.before) /\ RetryOutlives
  BY DEF Counted, SumInMemory, SumOnDisk, ClaimedRetry, WrittenRetry
<1>3. /\ ClaimedRetry \in {0, 1} /\ WrittenRetry \in {0, 1} /\ WrittenRetry <= ClaimedRetry
      /\ Requests \in {0, 1, 2} /\ Retry(mem) \in {0, 1} /\ Retry(disk) \in {0, 1}
      /\ Requests' \in {0, 1, 2} /\ Retry(mem)' \in {0, 1} /\ Retry(disk)' \in {0, 1}
  BY Counts DEF Requests, One, InProgress, Retry
<1>4. CASE UNCHANGED vars \/ Upstream \/ Stop
  <2>1. /\ UNCHANGED <<mem, disk, run, pending, due, tries>>
        /\ now' = now \/ now' = now + 1
    BY <1>4 DEF vars, past, Upstream, Stop
  <2>2. Requests' = Requests /\ ClaimedRetry' = ClaimedRetry /\ WrittenRetry' = WrittenRetry
    BY <2>1 DEF Requests, InProgress, ClaimedRetry, WrittenRetry, One, run, due
  <2>3. Retry(mem)' = Retry(mem) /\ Retry(disk)' = Retry(disk)
    BY <2>1 DEF Retry
  <2>4. /\ tries' + Retry(mem)' + ClaimedRetry' + Requests' <= mem'.step
        /\ tries' + Retry(disk)' + WrittenRetry' + Requests' <= disk'.step
    BY <1>2, <2>1, <2>2, <2>3
  <2>5. SumInMemory' /\ SumOnDisk'
    BY <2>4 DEF SumInMemory, SumOnDisk, ClaimedRetry, WrittenRetry
  <2>6. PutBack(mem)' /\ PutBack(disk)' /\ PutBack(claim.before)'
    BY <1>1, <1>2, <2>1 DEF PutBack, due
  <2>7. RetryOutlives'
    BY <1>2, <2>1 DEF RetryOutlives, due
  <2> QED BY <2>5, <2>6, <2>7 DEF Counted
<1>5. CASE RequeuePending
  <2>1. /\ mem' = Requeued(mem, pending) /\ WriteTried(mem')
        /\ pending' = NoRequest /\ phase = "idle" /\ loop = "idle"
        /\ UNCHANGED <<now, run, due, tries>>
    BY <1>5 DEF RequeuePending, past
  <2>2. round.plans = {} /\ claim = NoClaim /\ NoRequest.plans = {}
    BY <2>1, Constants DEF Queue
  <2>3. Requests = One("retry" \in pending.plans) /\ Requests' = 0
    BY <2>1, <2>2 DEF Requests, InProgress, One, run
  <2>4. ClaimedRetry' = ClaimedRetry /\ WrittenRetry' = WrittenRetry
    BY <2>1 DEF ClaimedRetry, WrittenRetry, due
  <2>5. "retry" \in Plan
    BY DEF Plan
  <2>6. pending.due \in Nat /\ pending.due <= now /\ (pending.plans # {} => pending.due # 0)
    BY QueueNumbers DEF Queue, Timely
  <2>7. /\ mem'.step = mem.step
        /\ mem'.at["retry"] = IF "retry" \in pending.plans
                              THEN pending.due ELSE mem.at["retry"]
    BY <1>1, <2>1, <2>5, RequeuedFields
  <2>8. Retry(mem)' <= Retry(mem) + Requests
    BY <2>3, <2>7 DEF Retry, One
  <2>9. tries' + Retry(mem)' + ClaimedRetry' + Requests' <= mem'.step
    BY <1>1, <1>2, <1>3, <2>1, <2>3, <2>4, <2>7, <2>8
  <2>10. SumInMemory'
    BY <2>9 DEF SumInMemory, ClaimedRetry
  <2>11. PutBack(mem)' /\ PutBack(claim.before)'
    BY <1>1, <1>2, <2>1, <2>6, <2>7 DEF PutBack, due
  <2>12. tries' + WrittenRetry' + Requests' <= tries + WrittenRetry + Requests
    BY <1>1, <1>3, <2>1, <2>3, <2>4
  <2>13. disk' = mem' \/ disk' = disk
    BY <2>1 DEF WriteTried, Written, NotWritten
  <2>14. SumOnDisk' /\ PutBack(disk)'
    BY <2>1, <2>10, <2>11, <2>12, <2>13, CountedOnDisk
  <2>15. RetryOutlives'
    BY <2>1 DEF RetryOutlives, due
  <2> QED BY <2>10, <2>11, <2>14, <2>15 DEF Counted
<1>6. CASE Reload \/ CrashAndRestart
  <2>1. /\ mem' = disk /\ disk' = disk /\ now' = now /\ tries' = tries
        /\ round' = NoRequest /\ pending' = NoRequest /\ loop' = "idle"
        /\ claim' = NoClaim
    BY <1>6 DEF Reload, CrashAndRestart, Queue, run, due, past
  <2>2. NoRequest.plans = {} /\ NoClaim.request.plans = {} /\ NoClaim.before = EmptyEntry
    BY Constants
  <2>3. Requests' = 0 /\ ClaimedRetry' = 0 /\ WrittenRetry' = 0
    BY <2>1, <2>2 DEF Requests, InProgress, ClaimedRetry, WrittenRetry, One
  <2>4. Retry(mem)' = Retry(disk) /\ Retry(disk)' = Retry(disk)
    BY <2>1 DEF Retry
  <2>5. /\ tries' + Retry(mem)' + ClaimedRetry' + Requests' <= mem'.step
        /\ tries' + Retry(disk)' + WrittenRetry' + Requests' <= disk'.step
    BY <1>1, <1>2, <1>3, <2>1, <2>3, <2>4
  <2>6. SumInMemory' /\ SumOnDisk'
    BY <2>5 DEF SumInMemory, SumOnDisk, ClaimedRetry, WrittenRetry
  <2>7. PutBack(mem)' /\ PutBack(disk)'
    BY <1>2, <2>1 DEF PutBack
  <2>8. PutBack(claim.before)'
    BY <1>1, <2>1, <2>2 DEF PutBack, EmptyEntry, Plan
  <2>9. RetryOutlives'
    BY <2>1 DEF RetryOutlives
  <2> QED BY <2>6, <2>7, <2>8, <2>9 DEF Counted
<1>7. CASE OtherWrite
  <2>1. /\ UNCHANGED <<now, mem, run, pending, due, tries>> /\ disk' = mem'
    BY <1>7 DEF OtherWrite, Written, past
  <2>2. Requests' = Requests /\ ClaimedRetry' = ClaimedRetry /\ Retry(mem)' = Retry(mem)
    BY <2>1 DEF Requests, InProgress, ClaimedRetry, Retry, One, run, due
  <2>3. SumInMemory'
    BY <1>2, <2>1, <2>2 DEF SumInMemory, ClaimedRetry
  <2>4. PutBack(mem)' /\ PutBack(claim.before)' /\ RetryOutlives'
    BY <1>2, <2>1 DEF PutBack, RetryOutlives, due
  <2>5. SumOnDisk' /\ PutBack(disk)'
    BY <2>1, <2>3, <2>4, CountedOnDisk
  <2> QED BY <2>3, <2>4, <2>5 DEF Counted
<1> QED BY <1>4, <1>5, <1>6, <1>7

(* At most MaxRetries retries fail besides those left over when the last   *)
(* query succeeded: each failed, planned or requested one is accounted for *)
(* by a step in memory, and by one in the state file.                      *)
THEOREM RetriesCounted == Spec => []RetriesAreBounded
<1>1. TypeOK /\ TypeOK' /\ Queue /\ Counted /\ [Next]_vars => Counted'
  BY CountedRoundStep, CountedLoopStep, CountedOtherStep DEF Next
<1>2. Init => Counted
  <2> SUFFICES ASSUME Init PROVE Counted
    OBVIOUS
  <2>1. /\ mem = EmptyEntry /\ disk = EmptyEntry /\ claim = NoClaim /\ loop = "idle"
        /\ round = NoRequest /\ pending = NoRequest /\ tries = 0 /\ now = 1
    BY DEF Init
  <2>2. EmptyEntry.at["retry"] = 0 /\ EmptyEntry.step = 0
    BY DEF EmptyEntry, Plan
  <2>3. Retry(mem) = 0 /\ Retry(disk) = 0 /\ Requests = 0
    BY <2>1, <2>2, Constants DEF Retry, Requests, InProgress, One
  <2>4. ClaimedRetry = 0 /\ WrittenRetry = 0
    BY <2>1, Constants DEF ClaimedRetry, WrittenRetry, One
  <2>5. SumInMemory /\ SumOnDisk
    BY <2>1, <2>2, <2>3, <2>4 DEF SumInMemory, SumOnDisk, ClaimedRetry, WrittenRetry
  <2>6. PutBack(mem) /\ PutBack(disk) /\ PutBack(claim.before)
    BY <2>1, <2>2, Constants DEF PutBack
  <2>7. RetryOutlives
    BY <2>1 DEF RetryOutlives
  <2> QED BY <2>5, <2>6, <2>7 DEF Counted
<1>3. TypeOK /\ Counted => RetriesAreBounded
  <2> SUFFICES ASSUME TypeOK, Counted PROVE tries <= MaxRetries
    BY DEF RetriesAreBounded
  <2>1. tries + Retry(mem) + ClaimedRetry + Requests <= mem.step
    BY DEF Counted, SumInMemory, ClaimedRetry
  <2>2. tries \in Int /\ mem.step \in 0..MaxRetries /\ MaxRetries \in Nat
    BY EntryFields, FollowupAssumption DEF TypeOK
  <2>3. /\ Retry(mem) \in {0, 1} /\ ClaimedRetry \in {0, 1} /\ Requests \in {0, 1, 2}
    BY Counts
  <2> QED BY <2>1, <2>2, <2>3
<1> QED BY <1>1, <1>2, <1>3, TypeCorrect, QueueAlways, PTL DEF Spec
-----------------------------------------------------------------------------
(* Which reset points are used up.                                         *)

AheadNext(R) == R > now' \/ (HasRead' /\ R > obs'.checked)
KnownNext(k, R) ==
  /\ R > now' => window'[k] = R
  /\ HasRead' /\ R > obs'.checked => obs'.r[k] = R
RemembersNext(entry, k, used) ==
  /\ entry.at[k] # 0 => entry.r[k] \notin used
  /\ entry.at[k] # 0 /\ entry.r[k] = entry.last[k] => entry.at[k] <= now'
  /\ \A R \in used : AheadNext(R) => entry.r[k] = R /\ entry.last[k] = R

(* What a step does to the clock, the upstream and the observation. *)
LEMMA RoundReads ==
  ASSUME Round
  PROVE  /\ UNCHANGED <<now, window, stopped, loop, claim>>
         /\ \/ HasRead /\ UNCHANGED obs
            \/ Query /\ obs'.checked = now /\ (HasRead' => obs'.r = window)
            \/ ~HasRead'
<1>1. UNCHANGED <<now, window, stopped, loop, claim>>
  BY DEF Round, due
<1>2. CASE StartFull \/ GiveUp
  BY <1>1, <1>2 DEF StartFull, GiveUp, Begin, HasRead
<1>3. CASE Query
  <2>1. obs'.checked = now
    BY <1>3 DEF Query, NoObs
  <2>2. HasRead' => obs'.r = window
    BY <1>3 DEF Query, HasRead
  <2> QED BY <1>1, <1>3, <2>1, <2>2
<1>4. CASE SaveQuota \/ Decide \/ ClearQuotaRetry
  BY <1>1, <1>4 DEF SaveQuota, Decide, ClearQuotaRetry, HasRead
<1>5. CASE SaveQuotaFailure \/ ScheduleQuotaRetry \/ RecordResult
  BY <1>1, <1>5 DEF SaveQuotaFailure, ScheduleQuotaRetry, RecordResult, HasRead
<1>6. CASE EndRound \/ Interrupt
  <2>1. NextRequest
    BY <1>6 DEF EndRound, Interrupt
  <2> QED BY <1>1, <2>1, NextRequestFacts DEF HasRead
<1> QED BY <1>2, <1>3, <1>4, <1>5, <1>6 DEF Round

LEMMA WorldStep ==
  ASSUME TypeOK, Queue, [Next]_vars, NEW k \in Kind
  PROVE  /\ now' \in Nat /\ now <= now'
         /\ \A R \in Nat : /\ AheadNext(R) => Ahead(R)
                           /\ Known(k, R) => KnownNext(k, R)
<1>1. /\ now \in Nat /\ obs.checked \in Nat /\ obs.checked <= now
      /\ window \in [Kind -> Nat]
  BY QueueNumbers DEF Queue, TypeOK, Time
<1>2. CASE Round
  <2>1. UNCHANGED <<now, window>>
    BY <1>2, RoundReads
  <2>2. CASE HasRead /\ UNCHANGED obs
    BY <1>1, <2>1, <2>2 DEF AheadNext, Ahead, Known, KnownNext
  <2>3. CASE obs'.checked = now /\ (HasRead' => obs'.r = window)
    BY <1>1, <2>1, <2>3 DEF AheadNext, Ahead, Known, KnownNext
  <2>4. CASE ~HasRead'
    BY <1>1, <2>1, <2>4 DEF AheadNext, Ahead, Known, KnownNext
  <2> QED BY <1>2, <2>2, <2>3, <2>4, RoundReads
<1>3. ASSUME UNCHANGED <<now, window>>, UNCHANGED <<phase, obs>> \/ phase' \in {"idle", "query"}
      PROVE  /\ now' \in Nat /\ now <= now'
             /\ \A R \in Nat : /\ AheadNext(R) => Ahead(R)
                               /\ Known(k, R) => KnownNext(k, R)
  BY <1>1, <1>3 DEF AheadNext, Ahead, Known, KnownNext, HasRead
<1>4. CASE ProcessDue
  BY <1>3, <1>4 DEF ProcessDue, Claim, ClaimWritten, ClaimNotWritten, Dispatch,
                    Begin, run
<1>5. CASE \/ UNCHANGED vars \/ OtherWrite \/ Stop \/ RequeuePending
           \/ Reload \/ CrashAndRestart
  BY <1>3, <1>5 DEF vars, OtherWrite, Stop, RequeuePending, Reload, CrashAndRestart, run
<1>6. CASE Upstream
  <2>1. UNCHANGED <<phase, obs>>
    BY <1>6 DEF Upstream, run
  <2>2. now' = now \/ now' = now + 1
    BY <1>6 DEF Upstream
  <2>3. ASSUME NEW R \in Nat, R > now', window[k] = R PROVE window'[k] = R
    <3>1. \/ window' = window
          \/ \E j \in Kind, Q \in ResetPoint :
               window[j] = 0 /\ window' = [window EXCEPT ![j] = Q]
          \/ \E j \in Kind : window[j] <= now /\ window' = [window EXCEPT ![j] = 0]
      BY <1>6 DEF Upstream
    <3>2. R # 0 /\ ~(R <= now)
      BY <1>1, <2>2, <2>3
    <3> QED BY <1>1, <2>3, <3>1, <3>2
  <2>4. \A R \in Nat : AheadNext(R) => Ahead(R)
    BY <1>1, <2>1, <2>2 DEF AheadNext, Ahead, HasRead
  <2>5. ASSUME NEW R \in Nat, Known(k, R) PROVE KnownNext(k, R)
    <3>1. R > now' => R > now
      BY <1>1, <2>2
    <3>2. R > now' => window'[k] = R
      BY <2>3, <2>5, <3>1 DEF Known
    <3>3. HasRead' /\ R > obs'.checked => obs'.r[k] = R
      BY <2>1, <2>5 DEF Known, HasRead
    <3> QED BY <3>2, <3>3 DEF KnownNext
  <2> QED BY <1>1, <2>2, <2>4, <2>5
<1> QED BY <1>2, <1>4, <1>5, <1>6 DEF Next

(* An entry whose reset points stay, and whose plan stays, is dropped, or  *)
(* comes back, goes on remembering.                                        *)
LEMMA EntryKept ==
  ASSUME now \in Nat, now' \in Nat, now <= now',
         \A R \in Nat : AheadNext(R) => Ahead(R),
         NEW k \in Kind, NEW e \in Entry, NEW f \in Entry,
         NEW U \in SUBSET Nat, NEW V \in SUBSET U,
         Remembers(e, k, U), f.r[k] = e.r[k], f.last[k] = e.last[k],
         f.at[k] \in {0, e.at[k]} \/ (f.at[k] <= now /\ f.r[k] \notin V)
  PROVE  RemembersNext(f, k, V)
<1>1. e.at[k] \in Nat /\ f.at[k] \in Nat
  BY EntryFields
<1>2. f.at[k] # 0 => f.r[k] \notin V
  BY DEF Remembers
<1>3. f.at[k] # 0 /\ f.r[k] = f.last[k] => f.at[k] <= now'
  BY <1>1 DEF Remembers
<1>4. \A R \in V : AheadNext(R) => f.r[k] = R /\ f.last[k] = R
  BY DEF Remembers
<1> QED BY <1>2, <1>3, <1>4 DEF RemembersNext

(* A plan for a reset point that is to come is not for one that is used    *)
(* up: that one is remembered.                                             *)
LEMMA PlannedKept ==
  ASSUME now \in Nat, now' \in Nat, now <= now',
         NEW k \in Kind, NEW e \in Entry, NEW o \in Obs,
         NEW U \in SUBSET Nat, Remembers(e, k, U),
         o.r[k] > o.checked => Ahead(o.r[k]),
         \A R \in Nat : AheadNext(R) /\ Known(k, R) => Ahead(R) /\ o.r[k] = R,
         \A R \in U : Known(k, R)
  PROVE  /\ RemembersNext(Planned(e, o), k, U)
         /\ Planned(e, o).r[k] = e.r[k] \/ Planned(e, o).r[k] \notin U
         /\ Planned(e, o).r[k] \in {e.r[k], o.r[k]}
<1> DEFINE f == Planned(e, o)
<1>1. /\ f \in Entry /\ f.last = e.last
      /\ New(e, o, k) => f.r[k] = o.r[k] /\ f.at[k] = o.r[k] + Delay
      /\ ~New(e, o, k) => f.r[k] = e.r[k] /\ f.at[k] \in {0, e.at[k]}
  BY PlannedFields
<1> HIDE DEF f
<1>2. f.at[k] \in Nat /\ e.at[k] \in Nat
  BY <1>1, EntryFields
<1>3. CASE New(e, o, k)
  <2>1. o.r[k] # e.last[k] /\ Ahead(o.r[k])
    BY <1>3 DEF New
  <2>2. f.r[k] \notin U
    BY <1>1, <1>3, <2>1 DEF Remembers
  <2>3. ~(f.r[k] = f.last[k])
    BY <1>1, <1>3, <2>1
  <2>4. ASSUME NEW R \in U, AheadNext(R) PROVE FALSE
    <3>1. Ahead(R) /\ o.r[k] = R
      BY <2>4
    <3> QED BY <2>1, <2>2, <1>1, <1>3, <3>1
  <2>5. RemembersNext(f, k, U)
    BY <2>2, <2>3, <2>4 DEF RemembersNext
  <2> QED BY <1>1, <1>3, <2>2, <2>5 DEF f
<1>4. CASE ~New(e, o, k)
  <2>1. f.at[k] # 0 => f.r[k] \notin U
    BY <1>1, <1>4 DEF Remembers
  <2>2. f.at[k] # 0 /\ f.r[k] = f.last[k] => f.at[k] <= now'
    BY <1>1, <1>2, <1>4 DEF Remembers
  <2>3. \A R \in U : AheadNext(R) => f.r[k] = R /\ f.last[k] = R
    BY <1>1, <1>4 DEF Remembers
  <2>4. RemembersNext(f, k, U)
    BY <2>1, <2>2, <2>3 DEF RemembersNext
  <2> QED BY <1>1, <1>4, <2>4 DEF f
<1> QED BY <1>3, <1>4

LEMMA Fewer ==
  ASSUME NEW k, NEW e, NEW U, NEW V \in SUBSET U, RemembersNext(e, k, U)
  PROVE  RemembersNext(e, k, V)
  BY DEF RemembersNext

LEMMA SpentTypes ==
  ASSUME TypeOK, NEW k \in Kind
  PROVE  /\ done[k] \in SUBSET Nat /\ Taken(k) \in SUBSET Nat
         /\ InMemory(k) \in SUBSET Nat /\ OnDisk(k) \in SUBSET Nat
         /\ Reported(k) \in SUBSET Nat /\ Taken(k) \in SUBSET InMemory(k)
         /\ OnDisk(k) \in SUBSET InMemory(k) /\ done[k] \in SUBSET Taken(k)
         /\ InMemory(k) \in SUBSET Reported(k)
         /\ window[k] \in Nat /\ obs.r[k] \in Nat /\ obs.checked \in Nat
         /\ now \in Nat /\ mem.r[k] \in Nat
<1>1. /\ done \in [Kind -> SUBSET Nat] /\ window \in [Kind -> Nat] /\ now \in Nat
      /\ obs \in [checked : Nat, r : [Kind -> Nat]]
  BY DEF TypeOK, Time
<1>2. mem.r[k] \in Nat /\ disk.r[k] \in Nat
  BY EntryFields DEF TypeOK
<1>3. \A request \in Request : request.r[k] \in Nat
  BY DEF Request, Time
<1>4. round \in Request /\ pending \in Request /\ claim.request \in Request
  BY DEF TypeOK
<1>5. round.r[k] \in Nat /\ pending.r[k] \in Nat /\ claim.request.r[k] \in Nat
  BY <1>3, <1>4
<1>6. done[k] \in SUBSET Nat
  BY <1>1
<1>7. Reported(k) \in SUBSET Nat
  BY <1>2, <1>5, <1>6 DEF Reported
<1>8. InMemory(k) \in SUBSET Reported(k)
  BY DEF InMemory, Taken, UsedBy, Reported
<1>9. /\ Taken(k) \in SUBSET InMemory(k) /\ OnDisk(k) \in SUBSET InMemory(k)
      /\ done[k] \in SUBSET Taken(k)
  BY DEF InMemory, Taken, OnDisk
<1> QED BY <1>1, <1>2, <1>6, <1>7, <1>8, <1>9
LEMMA SpentNext ==
  ASSUME NEW k \in Kind,
         \A R \in Reported(k)' : KnownNext(k, R),
         HasRead' => KnownNext(k, obs'.r[k]),
         RemembersNext(mem', k, InMemory(k)'),
         RemembersNext(disk', k, OnDisk(k)'),
         Held(k)',
         claim'.before.r[k] = claim'.request.r[k],
         loop' = "claimed" => Undoable(k)'
  PROVE  SpentAt(k)'
<1>1. (\A R \in Reported(k) : Known(k, R))'
  BY DEF Known, KnownNext
<1>2. (HasRead => Known(k, obs.r[k]))'
  BY DEF Known, KnownNext
<1>3. Remembers(mem, k, InMemory(k))'
  BY DEF Remembers, RemembersNext, Ahead, AheadNext
<1>4. Remembers(disk, k, OnDisk(k))'
  BY DEF Remembers, RemembersNext, Ahead, AheadNext
<1> QED BY <1>1, <1>2, <1>3, <1>4 DEF SpentAt

(* The claim and the state file in a step of the round. *)
LEMMA SpentRound ==
  ASSUME TypeOK, TypeOK', Queue, Round, NEW k \in Kind, SpentAt(k),
         mem'.last[k] = mem.last[k], KnownNext(k, mem'.r[k]),
         RemembersNext(mem', k, InMemory(k)'),
         disk' = mem' \/ disk' = disk,
         Taken(k)' \subseteq Taken(k), done'[k] \subseteq Reported(k),
         round'.r[k] \in Reported(k) \cup {0}, pending'.r[k] \in Reported(k) \cup {0},
         Held(k)'
  PROVE  SpentAt(k)'
<1>1. UNCHANGED <<now, window, stopped, loop, claim>>
  BY RoundReads
<1>2. /\ now' \in Nat /\ now \in Nat /\ now <= now'
      /\ \A R \in Nat : /\ AheadNext(R) => Ahead(R)
                        /\ Known(k, R) => KnownNext(k, R)
  <2>1. [Next]_vars
    BY DEF Next
  <2> QED BY <2>1, WorldStep, SpentTypes
<1>3. Reported(k) \in SUBSET Nat /\ obs.r[k] \in Nat /\ OnDisk(k) \in SUBSET Nat
  BY SpentTypes
<1>4. \A R \in Reported(k) \cup {0} : KnownNext(k, R)
  <2>1. \A R \in Reported(k) : KnownNext(k, R)
    BY <1>2, <1>3 DEF SpentAt
  <2>2. KnownNext(k, 0)
    <3>1. Known(k, 0)
      BY <1>2, SpentTypes DEF Known
    <3> QED BY <1>2, <3>1
  <2> QED BY <2>1, <2>2
<1>5. \A R \in Reported(k)' : KnownNext(k, R)
  <2>1. /\ disk.r[k] \in Reported(k) /\ claim.request.r[k] \in Reported(k)
        /\ disk'.r[k] \in {disk.r[k], mem'.r[k]}
    BY DEF Reported
  <2>2. Reported(k)' \subseteq Reported(k) \cup {0, mem'.r[k]}
    BY <1>1, <2>1 DEF Reported
  <2> QED BY <1>4, <2>2
<1>6. HasRead' => KnownNext(k, obs'.r[k])
  <2>1. CASE HasRead /\ UNCHANGED obs
    BY <1>2, <1>3, <2>1 DEF SpentAt
  <2>2. CASE obs'.checked = now /\ (HasRead' => obs'.r = window)
    BY <1>1, <1>2, <2>2, SpentTypes DEF KnownNext
  <2> QED BY <2>1, <2>2, RoundReads
<1>7. OnDisk(k)' \subseteq OnDisk(k) /\ OnDisk(k)' \subseteq InMemory(k)'
  BY <1>1 DEF OnDisk, InMemory
<1>8. RemembersNext(disk', k, OnDisk(k)')
  <2>1. CASE disk' = mem'
    BY <1>7, <2>1, Fewer
  <2>2. CASE disk' = disk
    <3>1. disk \in Entry /\ disk' \in Entry
      BY DEF TypeOK
    <3>2. Remembers(disk, k, OnDisk(k))
      BY DEF SpentAt
    <3>3. OnDisk(k)' \in SUBSET OnDisk(k)
      BY <1>7
    <3>4. \A R \in Nat : AheadNext(R) => Ahead(R)
      BY <1>2
    <3> HIDE DEF OnDisk
    <3> QED BY <1>2, <1>3, <2>2, <3>1, <3>2, <3>3, <3>4, EntryKept
  <2> QED BY <2>1, <2>2
<1>9. claim'.before.r[k] = claim'.request.r[k]
  BY <1>1 DEF SpentAt
<1>10. loop' = "claimed" => Undoable(k)'
  BY <1>1 DEF SpentAt, Undoable
<1> QED BY <1>5, <1>6, <1>8, <1>9, <1>10, SpentNext

LEMMA SpentRoundStep ==
  ASSUME TypeOK, TypeOK', Queue, Round, NEW k \in Kind, SpentAt(k)
  PROVE  SpentAt(k)'
<1>0. UNCHANGED <<now, window, stopped, loop, claim>>
  BY RoundReads
<1>1. /\ now' \in Nat /\ now \in Nat /\ now <= now'
      /\ \A R \in Nat : AheadNext(R) => Ahead(R)
      /\ \A R \in Nat : Known(k, R) => KnownNext(k, R)
  <2>1. [Next]_vars
    BY DEF Next
  <2> QED BY <2>1, WorldStep, SpentTypes
<1>2. /\ mem \in Entry /\ mem' \in Entry /\ round \in Request /\ obs \in Obs
      /\ pending \in Request
  BY DEF TypeOK, Obs
<1>3. /\ Reported(k) \in SUBSET Nat /\ InMemory(k) \in SUBSET Nat
      /\ Taken(k) \in SUBSET InMemory(k) /\ done[k] \in SUBSET Taken(k)
      /\ InMemory(k) \in SUBSET Reported(k)
      /\ obs.r[k] \in Nat /\ window[k] \in Nat /\ mem.r[k] \in Nat
      /\ obs.checked \in Nat
  BY SpentTypes
<1>4. /\ mem.r[k] \in Reported(k) /\ round.r[k] \in Reported(k)
      /\ pending.r[k] \in Reported(k) /\ done[k] \subseteq Reported(k)
  BY DEF Reported
<1>5. \A R \in Reported(k) : Known(k, R)
  BY DEF SpentAt
<1>6. KnownNext(k, mem.r[k]) /\ Remembers(mem, k, InMemory(k)) /\ Held(k)
  BY <1>1, <1>3, <1>4, <1>5 DEF SpentAt
<1>7. \A entry : WriteTried(entry) => disk' = entry \/ disk' = disk
  BY DEF WriteTried, Written, NotWritten
<1>8. NoRequest.r[k] = 0 /\ NoRequest.plans = {}
  BY Constants DEF NoRequest, FullRound
\* The same requests: the entry keeps its reset points or plans anew.
<1>9. ASSUME UNCHANGED <<round, pending, done>>
      PROVE  Taken(k)' = Taken(k) /\ InMemory(k)' = InMemory(k)
  BY <1>0, <1>9 DEF Taken, InMemory, UsedBy
<1>10. ASSUME UNCHANGED <<round, pending, done>>,
              mem'.r[k] = mem.r[k] \/ mem'.r[k] \notin InMemory(k)
       PROVE  Held(k)'
  <2>1. Taken(k)' = Taken(k) /\ done'[k] = done[k]
    BY <1>9, <1>10
  <2>2. mem'.r[k] = mem.r[k] \/ mem'.r[k] \notin Taken(k)
    BY <1>3, <1>10
  <2>3. mem'.r[k] = mem.r[k] \/ mem'.r[k] \notin done[k]
    BY <1>3, <2>2
  <2> QED BY <1>0, <1>6, <1>10, <2>1, <2>2, <2>3 DEF Held
<1>11. ASSUME UNCHANGED <<round, pending, done>>, disk' = mem' \/ disk' = disk,
              mem'.r[k] = mem.r[k], mem'.last[k] = mem.last[k],
              mem'.at[k] = mem.at[k]
       PROVE  SpentAt(k)'
  <2>1. RemembersNext(mem', k, InMemory(k)')
    <3>1. InMemory(k)' = InMemory(k)
      BY <1>9, <1>11
    <3>2. InMemory(k) \in SUBSET InMemory(k)
      OBVIOUS
    <3>3. RemembersNext(mem', k, InMemory(k))
      BY <1>1, <1>2, <1>3, <1>6, <1>11, <3>2, EntryKept
    <3> QED BY <3>1, <3>3
  <2> QED BY <1>4, <1>6, <1>9, <1>10, <1>11, <2>1, SpentRound
<1>12. ASSUME UNCHANGED <<round, pending, done>>, disk' = mem' \/ disk' = disk,
              NEW o \in Obs, mem' = Planned(mem, o), KnownNext(k, o.r[k]),
              o.r[k] > o.checked => Ahead(o.r[k]),
              \A R \in Nat : AheadNext(R) /\ Known(k, R) => Ahead(R) /\ o.r[k] = R
       PROVE  SpentAt(k)'
  <2>1. \A R \in InMemory(k) : Known(k, R)
    BY <1>3, <1>5
  <2>2. /\ RemembersNext(mem', k, InMemory(k))
        /\ mem'.r[k] = mem.r[k] \/ mem'.r[k] \notin InMemory(k)
        /\ mem'.r[k] \in {mem.r[k], o.r[k]}
    BY <1>1, <1>2, <1>3, <1>6, <1>12, <2>1, PlannedKept
  <2>3. RemembersNext(mem', k, InMemory(k)') /\ KnownNext(k, mem'.r[k])
    BY <1>6, <1>9, <1>12, <2>2
  <2>4. mem'.last[k] = mem.last[k]
    BY <1>2, <1>12, PlannedFields
  <2> QED BY <1>4, <1>9, <1>10, <1>12, <2>2, <2>3, <2>4, SpentRound
<1>13. CASE StartFull
  <2>1. UNCHANGED <<round, pending, done, mem, disk>>
    BY <1>13 DEF StartFull, Begin, Queue, NoRequest, past
  <2> QED BY <1>11, <2>1
<1>14. CASE GiveUp \/ Query \/ Decide
  BY <1>11, <1>14 DEF GiveUp, Query, Decide, past
<1>15. CASE SaveQuotaFailure \/ ScheduleQuotaRetry
  <2>1. mem' = mem \/ mem' = Retried(mem)
    BY <1>15 DEF SaveQuotaFailure, ScheduleQuotaRetry
  <2>2. /\ mem'.r[k] = mem.r[k] /\ mem'.last[k] = mem.last[k]
        /\ mem'.at[k] = mem.at[k]
    BY <1>1, <1>2, <2>1, RetriedFields
  <2>3. UNCHANGED <<round, pending, done>> /\ (disk' = mem' \/ disk' = disk)
    BY <1>7, <1>15 DEF SaveQuotaFailure, ScheduleQuotaRetry, past
  <2> QED BY <1>11, <2>2, <2>3
<1>16. CASE ClearQuotaRetry
  <2>1. /\ mem'.r[k] = mem.r[k] /\ mem'.last[k] = mem.last[k]
        /\ mem'.at[k] = mem.at[k]
    BY <1>2, <1>16, ClearedFields DEF ClearQuotaRetry
  <2> QED BY <1>7, <1>11, <1>16, <2>1 DEF ClearQuotaRetry
<1>17. CASE SaveQuota
  <2>1. /\ mem' = Planned(mem, obs) /\ HasRead /\ UNCHANGED <<round, pending, done, obs>>
        /\ disk' = mem' \/ disk' = disk
    BY <1>17 DEF SaveQuota, HasRead, Written, NotWritten
  <2>2. KnownNext(k, obs.r[k])
    BY <1>1, <1>3, <2>1 DEF SpentAt
  <2>3. obs.r[k] > obs.checked => Ahead(obs.r[k])
    BY <2>1 DEF Ahead
  <2>4. obs.checked <= now
    BY DEF Queue
  <2>5. ASSUME NEW R \in Nat, AheadNext(R), Known(k, R) PROVE Ahead(R) /\ obs.r[k] = R
    <3>1. Ahead(R)
      BY <1>1, <2>5
    <3>2. R > obs.checked
      BY <1>1, <1>3, <2>4, <3>1 DEF Ahead
    <3> QED BY <2>1, <2>5, <3>1, <3>2 DEF Known
  <2> QED BY <1>2, <1>12, <2>1, <2>2, <2>3, <2>5
<1>21. CASE RecordResult /\ UNCHANGED <<obs, mem, owed>>
  BY <1>7, <1>11, <1>21 DEF RecordResult
<1>18. CASE RecordResult /\ ~UNCHANGED <<obs, mem, owed>>
  <2>1. /\ mem' = Planned(mem, obs') /\ HasRead /\ ~HasRead'
        /\ UNCHANGED <<round, pending, done>>
        /\ disk' = mem' \/ disk' = disk
    BY <1>7, <1>18, RecordedObs DEF RecordResult, HasRead
  <2>2. obs' \in Obs /\ obs'.checked = now /\ (obs'.r = window \/ obs'.r = obs.r)
    BY <1>18, RecordedObs
  <2>3. KnownNext(k, obs'.r[k])
    <3>1. CASE obs'.r = window
      BY <1>0, <2>1, <3>1 DEF KnownNext
    <3>2. CASE obs'.r = obs.r
      BY <1>1, <1>3, <2>1, <3>2 DEF SpentAt
    <3> QED BY <2>2, <3>1, <3>2
  <2>4. obs'.r[k] > obs'.checked => Ahead(obs'.r[k])
    BY <2>2 DEF Ahead
  <2>5. obs.checked <= now
    BY DEF Queue
  <2>6. ASSUME NEW R \in Nat, AheadNext(R), Known(k, R) PROVE Ahead(R) /\ obs'.r[k] = R
    <3>1. R > now
      BY <1>0, <2>1, <2>6 DEF AheadNext
    <3>2. window[k] = R /\ obs.r[k] = R
      BY <1>1, <1>3, <2>1, <2>5, <2>6, <3>1 DEF Known
    <3> QED BY <2>2, <3>1, <3>2 DEF Ahead
  <2> QED BY <1>12, <2>1, <2>2, <2>3, <2>4, <2>6
<1>19. CASE EndRound
  <2>1. /\ UNCHANGED <<mem, disk>> /\ NextRequest
        /\ done'[k] = done[k] \cup UsedBy(round, k)
    BY <1>19 DEF EndRound, UsedBy, TypeOK
  <2>2. \/ round' = pending /\ pending' = NoRequest
        \/ round' = NoRequest /\ pending' = pending
    BY <2>1, NextRequestFacts
  <2>3. UsedBy(NoRequest, k) = {}
    BY <1>8 DEF UsedBy
  <2>4. Taken(k)' = Taken(k)
    <3>1. UsedBy(round, k)' \cup UsedBy(pending, k)' = UsedBy(pending, k)
      BY <2>2, <2>3 DEF UsedBy
    <3>2. Taken(k)' = done'[k] \cup UsedBy(round, k)' \cup UsedBy(pending, k)'
      BY DEF Taken
    <3> QED BY <2>1, <3>1, <3>2 DEF Taken
  <2>5. InMemory(k)' = InMemory(k)
    BY <1>0, <2>4 DEF InMemory, UsedBy
  <2>6. InMemory(k) \in SUBSET InMemory(k)
    OBVIOUS
  <2>7. RemembersNext(mem', k, InMemory(k)')
    <3>1. RemembersNext(mem', k, InMemory(k))
      BY <1>1, <1>2, <1>3, <1>6, <2>1, <2>6, EntryKept
    <3> QED BY <2>5, <3>1
  <2>8. k \in round'.plans \cup pending'.plans => mem'.r[k] \notin done'[k]
    <3>1. k \in round'.plans \cup pending'.plans => k \in pending.plans
      BY <1>8, <2>2
    <3>2. k \in pending.plans => round.plans = {}
      BY <1>8 DEF Queue
    <3> QED BY <1>6, <2>1, <3>1, <3>2 DEF Held, UsedBy
  <2>9. Held(k)'
    BY <1>0, <1>6, <2>1, <2>4, <2>8 DEF Held
  <2>10. done'[k] \subseteq Reported(k)
    BY <1>4, <2>1 DEF UsedBy
  <2>11. round'.r[k] \in Reported(k) \cup {0} /\ pending'.r[k] \in Reported(k) \cup {0}
    BY <1>4, <1>8, <2>2
  <2> QED BY <1>6, <2>1, <2>4, <2>7, <2>9, <2>10, <2>11, SpentRound
<1>20. CASE Interrupt
  <2>1. /\ stopped /\ NextRequest /\ done' = done
        /\ disk' = mem' \/ disk' = disk
        /\ mem' = Requeued(mem, round) \/ mem' = Requeued(Cleared(mem), round)
    BY <1>7, <1>20 DEF Interrupt
  <2>2. round' = NoRequest /\ pending' = pending
    BY <2>1, <1>8, NextRequestFacts
  <2>3. k \in Plan
    BY DEF Plan
  <2>4. /\ mem'.r = mem.r /\ mem'.last = mem.last
        /\ mem'.at[k] = IF k \in round.plans THEN round.due ELSE mem.at[k]
    <3>1. CASE mem' = Requeued(mem, round)
      BY <1>2, <2>3, <3>1, RequeuedFields
    <3>2. CASE mem' = Requeued(Cleared(mem), round)
      BY <1>2, <2>3, <3>2, ClearedFields, RequeuedFields
    <3> QED BY <2>1, <3>1, <3>2
  <2>5. UsedBy(NoRequest, k) = {}
    BY <1>8 DEF UsedBy
  <2>6. Taken(k)' = done[k] \cup UsedBy(pending, k)
    BY <2>1, <2>2, <2>5 DEF Taken, UsedBy
  <2>7. Taken(k)' \subseteq Taken(k)
    BY <2>6 DEF Taken
  <2>8. InMemory(k)' = Taken(k)' /\ InMemory(k) = Taken(k)
    BY <1>0, <2>1 DEF InMemory
  <2>9. k \in round.plans => mem.r[k] \notin Taken(k)'
    <3>1. ASSUME k \in round.plans PROVE UsedBy(pending, k) = {}
      BY <1>8, <3>1 DEF Queue, UsedBy
    <3> QED BY <1>6, <2>6, <3>1 DEF Held
  <2>10. round.due <= now
    BY DEF Queue, Timely
  <2>11. RemembersNext(mem', k, Taken(k)')
    <3>1. Taken(k)' \in SUBSET InMemory(k)
      BY <2>7, <2>8
    <3>2. mem'.at[k] \in {0, mem.at[k]}
          \/ (mem'.at[k] <= now /\ mem'.r[k] \notin Taken(k)')
      BY <2>4, <2>9, <2>10
    <3>3. mem'.r[k] = mem.r[k] /\ mem'.last[k] = mem.last[k]
      BY <2>4
    <3> QED BY <1>1, <1>2, <1>3, <1>6, <3>1, <3>2, <3>3, EntryKept
  <2>12. Held(k)'
    <3>1. k \in claim.request.plans => /\ mem.r[k] \notin Taken(k)
                                       /\ claim.request.r[k] \notin Taken(k)
      BY <1>6 DEF Held
    <3>2. k \in round'.plans \cup pending'.plans => k \in pending.plans
      BY <1>8, <2>2
    <3> QED BY <1>0, <1>6, <2>1, <2>4, <2>7, <3>1, <3>2 DEF Held
  <2>13. round'.r[k] \in Reported(k) \cup {0} /\ pending'.r[k] \in Reported(k) \cup {0}
    BY <1>4, <1>8, <2>2
  <2> QED BY <1>4, <1>6, <2>1, <2>4, <2>7, <2>8, <2>11, <2>12, <2>13, SpentRound
<1> QED BY <1>13, <1>14, <1>15, <1>16, <1>17, <1>18, <1>19, <1>20, <1>21 DEF Round
LEMMA SpentLoopStep ==
  ASSUME TypeOK, TypeOK', Queue, ProcessDue, NEW k \in Kind, SpentAt(k)
  PROVE  SpentAt(k)'
<1>0. UNCHANGED <<now, window, stopped>>
  BY DEF ProcessDue
<1>1. /\ now' \in Nat /\ now \in Nat /\ now <= now'
      /\ \A R \in Nat : AheadNext(R) => Ahead(R)
      /\ \A R \in Nat : Known(k, R) => KnownNext(k, R)
  <2>1. [Next]_vars
    BY DEF Next
  <2> QED BY <2>1, WorldStep, SpentTypes
<1>2. /\ mem \in Entry /\ mem' \in Entry /\ disk \in Entry /\ disk' \in Entry
      /\ claim.request \in Request /\ claim.before \in Entry
  BY DEF TypeOK
<1>3. /\ Reported(k) \in SUBSET Nat /\ InMemory(k) \in SUBSET Nat
      /\ OnDisk(k) \in SUBSET Nat
      /\ Taken(k) \in SUBSET InMemory(k) /\ done[k] \in SUBSET Taken(k)
      /\ InMemory(k) \in SUBSET Reported(k)
      /\ obs.r[k] \in Nat /\ mem.r[k] \in Nat
  BY SpentTypes
<1>4. /\ \A R \in Reported(k) : Known(k, R)
      /\ HasRead => Known(k, obs.r[k])
      /\ Remembers(mem, k, InMemory(k)) /\ Remembers(disk, k, OnDisk(k))
      /\ Held(k) /\ claim.before.r[k] = claim.request.r[k]
      /\ loop = "claimed" => Undoable(k)
  BY DEF SpentAt
<1>5. \A R \in Reported(k) \cup {0} : KnownNext(k, R)
  <2>1. Known(k, 0)
    BY <1>1, SpentTypes DEF Known
  <2> QED BY <1>1, <1>3, <1>4, <2>1
<1>6. /\ NoRequest.r[k] = 0 /\ NoRequest.plans = {} /\ UsedBy(NoRequest, k) = {}
      /\ NoClaim.request = NoRequest /\ NoClaim.before.r[k] = 0
  BY Constants DEF NoRequest, FullRound, UsedBy, EmptyEntry
<1>7. k \in Plan
  BY DEF Plan
<1>8. HasRead' => KnownNext(k, obs'.r[k])
  <2>1. UNCHANGED <<phase, obs>> \/ ~HasRead'
    BY DEF ProcessDue, Claim, ClaimWritten, ClaimNotWritten, Dispatch, Begin, run, HasRead
  <2> QED BY <1>1, <1>3, <1>4, <2>1 DEF HasRead
<1>9. UNCHANGED <<run, pending, past>> => Taken(k)' = Taken(k)
  BY DEF run, past, Taken, UsedBy
\* Nothing new is reported by a step that keeps the reset points.
<1>10. ASSUME mem'.r[k] = mem.r[k], disk'.r[k] \in {disk.r[k], mem.r[k]}, done' = done,
              round'.r[k] \in Reported(k) \cup {0},
              pending'.r[k] \in Reported(k) \cup {0},
              claim'.request.r[k] \in Reported(k) \cup {0}
       PROVE  \A R \in Reported(k)' : KnownNext(k, R)
  <2>1. Reported(k)' \subseteq Reported(k) \cup {0}
    BY <1>10 DEF Reported
  <2> QED BY <1>5, <2>1
<1>11. /\ mem.r[k] \in Reported(k) /\ round.r[k] \in Reported(k)
       /\ pending.r[k] \in Reported(k) /\ claim.request.r[k] \in Reported(k)
  BY DEF Reported
<1>12. CASE Claim
  <2> DEFINE S == {p \in Plan : IsDue(p)}
  <2>1. /\ mem' = Consumed(mem, S) /\ loop = "idle" /\ ~stopped /\ loop' = "claimed"
        /\ UNCHANGED <<disk, failures, run, pending, past>>
        /\ \E p \in S : claim' = [request |-> [plans |-> S, due |-> mem.at[p],
                                              r |-> mem.r],
                                 before  |-> mem]
    BY <1>12 DEF Claim
  <2>2. /\ claim'.request.plans = S /\ claim'.request.r = mem.r /\ claim'.before = mem
    BY <2>1
  <2>3. S \in SUBSET Plan /\ (k \in S <=> mem.at[k] # 0 /\ mem.at[k] <= now)
    BY <1>7 DEF IsDue
  <2> HIDE DEF S
  <2>4. /\ mem'.r = mem.r
        /\ mem'.at[k] = IF k \in S THEN 0 ELSE mem.at[k]
        /\ mem'.last[k] = IF k \in S THEN mem.r[k] ELSE mem.last[k]
    BY <1>2, <1>7, <2>1, <2>3, ConsumedFields
  <2>5. Taken(k)' = Taken(k) /\ claim.request.plans = {}
    BY <1>6, <1>9, <2>1 DEF Queue
  <2>6. InMemory(k) = Taken(k) /\ OnDisk(k) = Taken(k) /\ OnDisk(k)' = Taken(k)
    BY <2>1, <2>5 DEF InMemory, OnDisk, UsedBy
  <2>7. InMemory(k)' = IF k \in S THEN Taken(k) \cup {mem.r[k]} ELSE Taken(k)
    BY <1>0, <2>1, <2>2, <2>5 DEF InMemory, UsedBy
  <2>8. k \in S => mem.r[k] \notin Taken(k)
    BY <1>4, <2>3, <2>6 DEF Remembers
  <2>9. RemembersNext(mem', k, InMemory(k)')
    <3>1. CASE k \in S
      <4>1. \A R \in Taken(k) : AheadNext(R) => R = mem.r[k]
        BY <1>1, <1>3, <1>4, <2>6 DEF Remembers
      <4>2. \A R \in InMemory(k)' : AheadNext(R) => mem'.r[k] = R /\ mem'.last[k] = R
        BY <2>4, <2>7, <3>1, <4>1
      <4> QED BY <2>4, <3>1, <4>2 DEF RemembersNext
    <3>2. CASE k \notin S
      <4>1. InMemory(k) \in SUBSET InMemory(k) /\ InMemory(k)' = InMemory(k)
        BY <2>6, <2>7, <3>2
      <4>2. mem'.r[k] = mem.r[k] /\ mem'.last[k] = mem.last[k] /\ mem'.at[k] = mem.at[k]
        BY <2>4, <3>2
      <4>3. RemembersNext(mem', k, InMemory(k))
        BY <1>1, <1>2, <1>3, <1>4, <4>1, <4>2, EntryKept
      <4> QED BY <4>1, <4>3
    <3> QED BY <3>1, <3>2
  <2>10. RemembersNext(disk', k, OnDisk(k)')
    <3>1. OnDisk(k) \in SUBSET OnDisk(k) /\ disk' = disk
      BY <2>1
    <3>2. RemembersNext(disk', k, OnDisk(k))
      BY <1>1, <1>2, <1>3, <1>4, <3>1, EntryKept
    <3> QED BY <2>6, <3>2
  <2>11. Held(k)'
    <3>1. k \in round'.plans \cup pending'.plans => mem'.r[k] \notin done'[k]
      BY <1>4, <2>1, <2>4 DEF Held, run, past
    <3>2. k \in claim'.request.plans => /\ mem'.r[k] \notin Taken(k)'
                                        /\ claim'.request.r[k] \notin Taken(k)'
      BY <2>2, <2>4, <2>5, <2>8
    <3> QED BY <3>1, <3>2 DEF Held
  <2>12. Undoable(k)'
    <3>1. mem.at[k] # 0 /\ mem.r[k] = mem.last[k] => mem.at[k] <= now
      BY <1>4 DEF Remembers
    <3>2. CASE k \in S
      BY <1>0, <2>2, <2>3, <2>4, <3>2 DEF Undoable
    <3>3. CASE k \notin S
      BY <2>2, <2>3, <2>4, <3>1, <3>3 DEF Undoable
    <3> QED BY <3>2, <3>3
  <2>13. \A R \in Reported(k)' : KnownNext(k, R)
    BY <1>10, <1>11, <2>1, <2>2, <2>4 DEF run, past
  <2> QED BY <1>8, <2>2, <2>9, <2>10, <2>11, <2>12, <2>13, SpentNext
<1>13. CASE ClaimWritten
  <2>1. /\ mem' = mem /\ disk' = mem /\ loop' = "dispatch" /\ claim' = claim
        /\ done' = done /\ UNCHANGED <<run, pending>>
    BY <1>13 DEF ClaimWritten, Written
  <2>2. Taken(k)' = Taken(k)
    BY <2>1 DEF run, Taken, UsedBy
  <2>3. InMemory(k)' = InMemory(k) /\ OnDisk(k)' = InMemory(k)
    BY <1>0, <2>1, <2>2 DEF InMemory, OnDisk, UsedBy
  <2>4. InMemory(k) \in SUBSET InMemory(k)
    OBVIOUS
  <2>5. RemembersNext(mem', k, InMemory(k))
    BY <1>1, <1>2, <1>3, <1>4, <2>1, <2>4, EntryKept
  <2>6. Held(k)'
    BY <1>4, <2>1, <2>2 DEF Held, run
  <2>7. \A R \in Reported(k)' : KnownNext(k, R)
    BY <1>10, <1>11, <2>1 DEF run
  <2>8. claim'.before.r[k] = claim'.request.r[k] /\ loop' # "claimed"
    BY <1>4, <2>1
  <2> QED BY <1>8, <2>1, <2>3, <2>5, <2>6, <2>7, <2>8, SpentNext
<1>14. CASE ClaimNotWritten
  <2>1. /\ mem' = RolledBack(mem, claim.before) /\ disk' = disk /\ loop = "claimed"
        /\ loop' = "idle" /\ claim' = NoClaim /\ UNCHANGED <<run, pending, past>>
    BY <1>14 DEF ClaimNotWritten, NotWritten
  <2>2. /\ mem'.r = mem.r
        /\ mem.last[k] = claim.before.r[k] =>
             mem'.at[k] = claim.before.at[k] /\ mem'.last[k] = claim.before.last[k]
        /\ mem.last[k] # claim.before.r[k] =>
             mem'.at[k] = mem.at[k] /\ mem'.last[k] = mem.last[k]
    <3> DEFINE before == claim.before
    <3>1. before \in Entry /\ mem' = RolledBack(mem, before)
      BY <1>2, <2>1
    <3> HIDE DEF before
    <3>2. /\ mem'.r = mem.r
          /\ mem.last[k] = before.r[k] =>
               mem'.at[k] = before.at[k] /\ mem'.last[k] = before.last[k]
          /\ mem.last[k] # before.r[k] =>
               mem'.at[k] = mem.at[k] /\ mem'.last[k] = mem.last[k]
      BY <1>2, <3>1, RolledBackFields
    <3> QED BY <3>2 DEF before
  <2>3. Taken(k)' = Taken(k)
    BY <1>9, <2>1
  <2>4. InMemory(k)' = Taken(k) /\ OnDisk(k)' = Taken(k) /\ OnDisk(k) = Taken(k)
    BY <1>6, <2>1, <2>3 DEF InMemory, OnDisk, UsedBy
  <2>5. RemembersNext(mem', k, Taken(k))
    <3>1. CASE k \in claim.request.plans
      <4>1. mem.r[k] \notin Taken(k) /\ claim.before.at[k] <= now
        BY <1>4, <2>1, <3>1 DEF Held, Undoable
      <4>2. mem.last[k] = claim.before.r[k]
        BY <1>4, <2>1, <3>1 DEF Undoable
      <4>3. mem'.at[k] = claim.before.at[k] /\ mem'.r[k] = mem.r[k]
        BY <2>2, <4>2
      <4>4. \A R \in Taken(k) : ~AheadNext(R)
        BY <1>1, <1>3, <1>4, <4>1 DEF Remembers
      <4> QED BY <1>0, <4>1, <4>3, <4>4 DEF RemembersNext
    <3>2. CASE k \notin claim.request.plans
      <4>1. /\ mem.last[k] = claim.before.last[k]
            /\ claim.before.r[k] = claim.before.last[k] => claim.before.at[k] = 0
        BY <1>4, <2>1, <3>2 DEF Undoable
      <4>2. /\ mem'.r[k] = mem.r[k] /\ mem'.last[k] = mem.last[k]
            /\ mem'.at[k] \in {0, mem.at[k]}
        BY <2>2, <4>1
      <4> QED BY <1>1, <1>2, <1>3, <1>4, <4>2, EntryKept
    <3> QED BY <3>1, <3>2
  <2>6. RemembersNext(disk', k, Taken(k))
    <3>1. Taken(k) \in SUBSET OnDisk(k) /\ disk' = disk
      BY <2>1, <2>4
    <3> QED BY <1>1, <1>2, <1>3, <1>4, <3>1, EntryKept
  <2>7. Held(k)'
    BY <1>4, <1>6, <2>1, <2>2 DEF Held, run, past
  <2>8. \A R \in Reported(k)' : KnownNext(k, R)
    BY <1>6, <1>10, <1>11, <2>1, <2>2 DEF run, past
  <2>9. claim'.before.r[k] = claim'.request.r[k] /\ loop' # "claimed"
    BY <1>6, <2>1
  <2> QED BY <1>8, <2>4, <2>5, <2>6, <2>7, <2>8, <2>9, SpentNext
<1>15. CASE Dispatch
  <2>0. /\ loop = "dispatch" /\ loop' = "idle" /\ claim' = NoClaim /\ done' = done
    BY <1>15 DEF Dispatch
  <2>1. /\ InMemory(k)' = Taken(k)' /\ OnDisk(k)' = Taken(k)'
        /\ OnDisk(k) = InMemory(k)
    BY <1>6, <2>0 DEF InMemory, OnDisk, UsedBy
  <2>2. claim'.before.r[k] = claim'.request.r[k] /\ loop' # "claimed"
    BY <1>6, <2>0
  \* The request goes on to the queue, or is dropped.
  <2>3. ASSUME UNCHANGED <<mem, disk>>, Taken(k)' \in SUBSET InMemory(k),
               round'.r[k] \in Reported(k) \cup {0},
               pending'.r[k] \in Reported(k) \cup {0},
               k \in round'.plans \cup pending'.plans =>
                 k \in round.plans \cup pending.plans \cup claim.request.plans
        PROVE  SpentAt(k)'
    <3>1. RemembersNext(mem', k, Taken(k)') /\ RemembersNext(disk', k, Taken(k)')
      BY <1>1, <1>2, <1>3, <1>4, <2>1, <2>3, EntryKept
    <3>2. Held(k)'
      <4>1. k \in round'.plans \cup pending'.plans => mem.r[k] \notin done[k]
        BY <1>3, <1>4, <2>3 DEF Held
      <4> QED BY <1>6, <2>0, <2>3, <4>1 DEF Held
    <3>3. \A R \in Reported(k)' : KnownNext(k, R)
      BY <1>6, <1>10, <1>11, <2>0, <2>3
    <3> QED BY <1>8, <2>1, <2>2, <3>1, <3>2, <3>3, SpentNext
  <2>4. CASE /\ ~stopped /\ phase = "idle" /\ pending = NoRequest
             /\ Begin(claim.request) /\ UNCHANGED <<mem, disk, pending>>
    <3>1. round' = claim.request /\ pending' = pending
      BY <2>4 DEF Begin
    <3>2. Taken(k)' \in SUBSET InMemory(k)
      BY <1>6, <2>0, <2>4, <3>1 DEF Taken, InMemory, UsedBy
    <3> QED BY <1>11, <2>3, <2>4, <3>1, <3>2
  <2>5. CASE /\ ~stopped /\ UNCHANGED <<mem, disk, run>>
             /\ pending' = IF Duplicate THEN pending ELSE claim.request
    <3>0. round' = round
      BY <2>5 DEF run
    <3>1. CASE Duplicate
      <4>1. Taken(k)' \in SUBSET InMemory(k)
        BY <2>0, <2>5, <3>0, <3>1 DEF Taken, InMemory, UsedBy
      <4> QED BY <1>11, <2>3, <2>5, <3>0, <3>1, <4>1
    <3>2. CASE ~Duplicate
      <4>1. Taken(k)' \in SUBSET InMemory(k)
        BY <1>6, <2>0, <2>5, <3>0, <3>2 DEF Taken, InMemory, UsedBy, Duplicate
      <4> QED BY <1>11, <2>3, <2>5, <3>0, <3>2, <4>1
    <3> QED BY <3>1, <3>2
  <2>6. CASE /\ stopped /\ mem' = Requeued(mem, claim.request) /\ WriteTried(mem')
             /\ UNCHANGED <<run, pending>>
    <3>1. /\ mem'.r = mem.r /\ mem'.last = mem.last
          /\ mem'.at[k] = IF k \in claim.request.plans THEN claim.request.due
                                                       ELSE mem.at[k]
      BY <1>2, <1>7, <2>6, RequeuedFields
    <3>2. Taken(k)' = Taken(k) /\ InMemory(k) = Taken(k)
      BY <2>0, <2>6 DEF Taken, InMemory, UsedBy, run
    <3>3. claim.request.due <= now
      BY DEF Queue, Timely
    <3>4. RemembersNext(mem', k, Taken(k)')
      <4>1. mem'.at[k] \in {0, mem.at[k]}
            \/ (mem'.at[k] <= now /\ mem'.r[k] \notin Taken(k))
        BY <1>4, <3>1, <3>3 DEF Held
      <4>2. Taken(k) \in SUBSET InMemory(k)
        BY <3>2
      <4>3. mem'.r[k] = mem.r[k] /\ mem'.last[k] = mem.last[k]
        BY <3>1
      <4>4. RemembersNext(mem', k, Taken(k))
        BY <1>1, <1>2, <1>3, <1>4, <4>1, <4>2, <4>3, EntryKept
      <4> QED BY <3>2, <4>4
    <3>5. disk' = mem' \/ disk' = disk
      BY <2>6 DEF WriteTried, Written, NotWritten
    <3>6. RemembersNext(disk', k, Taken(k)')
      <4>1. CASE disk' = mem'
        BY <3>4, <4>1
      <4>2. CASE disk' = disk
        <5>1. Taken(k) \in SUBSET OnDisk(k)
          BY <2>1, <3>2
        <5>2. RemembersNext(disk', k, Taken(k))
          BY <1>1, <1>2, <1>3, <1>4, <4>2, <5>1, EntryKept
        <5> QED BY <3>2, <5>2
      <4> QED BY <3>5, <4>1, <4>2
    <3>7. Held(k)'
      BY <1>4, <1>6, <2>0, <2>6, <3>1 DEF Held, run
    <3>8. \A R \in Reported(k)' : KnownNext(k, R)
      BY <1>6, <1>10, <1>11, <2>0, <2>6, <3>1, <3>5 DEF run
    <3> QED BY <1>8, <2>1, <2>2, <3>4, <3>6, <3>7, <3>8, SpentNext
  <2> QED BY <1>15, <2>4, <2>5, <2>6 DEF Dispatch
<1> QED BY <1>12, <1>13, <1>14, <1>15 DEF ProcessDue
LEMMA SpentOtherStep ==
  ASSUME TypeOK, TypeOK', Queue, NEW k \in Kind, SpentAt(k),
         \/ UNCHANGED vars \/ Upstream \/ OtherWrite
         \/ Stop \/ RequeuePending \/ Reload \/ CrashAndRestart
  PROVE  SpentAt(k)'
<1>1. /\ now' \in Nat /\ now \in Nat /\ now <= now'
      /\ \A R \in Nat : AheadNext(R) => Ahead(R)
      /\ \A R \in Nat : Known(k, R) => KnownNext(k, R)
  <2>1. [Next]_vars
    BY DEF Next
  <2> QED BY <2>1, WorldStep, SpentTypes
<1>2. /\ mem \in Entry /\ mem' \in Entry /\ disk \in Entry /\ disk' \in Entry
      /\ pending \in Request
  BY DEF TypeOK
<1>3. /\ Reported(k) \in SUBSET Nat /\ InMemory(k) \in SUBSET Nat
      /\ OnDisk(k) \in SUBSET Nat /\ OnDisk(k) \in SUBSET InMemory(k)
      /\ Taken(k) \in SUBSET InMemory(k) /\ done[k] \in SUBSET Taken(k)
      /\ obs.r[k] \in Nat
  BY SpentTypes
<1>4. /\ \A R \in Reported(k) : Known(k, R)
      /\ HasRead => Known(k, obs.r[k])
      /\ Remembers(mem, k, InMemory(k)) /\ Remembers(disk, k, OnDisk(k))
      /\ Held(k) /\ claim.before.r[k] = claim.request.r[k]
      /\ loop = "claimed" => Undoable(k)
  BY DEF SpentAt
<1>5. \A R \in Reported(k) \cup {0} : KnownNext(k, R)
  <2>1. Known(k, 0)
    BY <1>1, SpentTypes DEF Known
  <2> QED BY <1>1, <1>3, <1>4, <2>1
<1>6. /\ NoRequest.r[k] = 0 /\ NoRequest.plans = {} /\ UsedBy(NoRequest, k) = {}
      /\ NoClaim.request = NoRequest /\ NoClaim.before.r[k] = 0
  BY Constants DEF NoRequest, FullRound, UsedBy, EmptyEntry
<1>7. UNCHANGED <<phase, obs>> => (HasRead' => KnownNext(k, obs'.r[k]))
  BY <1>1, <1>3, <1>4 DEF HasRead
<1>8. CASE UNCHANGED vars \/ Upstream \/ Stop
  <2>1. /\ UNCHANGED <<mem, disk, run, pending, due, done>>
        /\ stopped' = stopped \/ stopped' = TRUE
    BY <1>8 DEF vars, Upstream, Stop, past
  <2>2. Taken(k)' = Taken(k)
    BY <2>1 DEF Taken, UsedBy, run
  <2>3. InMemory(k)' \in SUBSET InMemory(k) /\ OnDisk(k)' \in SUBSET OnDisk(k)
    <3>1. CASE stopped' = stopped
      BY <2>1, <2>2, <3>1 DEF InMemory, OnDisk, UsedBy, due
    <3>2. CASE stopped' = TRUE
      BY <2>1, <2>2, <3>2 DEF InMemory, OnDisk, due
    <3> QED BY <2>1, <3>1, <3>2
  <2>4. RemembersNext(mem', k, InMemory(k)')
    BY <1>1, <1>2, <1>3, <1>4, <2>1, <2>3, EntryKept
  <2>5. RemembersNext(disk', k, OnDisk(k)')
    BY <1>1, <1>2, <1>3, <1>4, <2>1, <2>3, EntryKept
  <2>6. Held(k)'
    BY <1>4, <2>1, <2>2 DEF Held, run, due
  <2>7. \A R \in Reported(k)' : KnownNext(k, R)
    BY <1>5, <2>1 DEF Reported, run, due
  <2>8. HasRead' => KnownNext(k, obs'.r[k])
    BY <1>7, <2>1 DEF run
  <2>9. claim'.before.r[k] = claim'.request.r[k]
    BY <1>4, <2>1 DEF due
  <2>10. loop' = "claimed" => Undoable(k)'
    <3>1. claim'.before.at[k] \in Nat
      BY EntryFields DEF TypeOK
    <3> QED BY <1>1, <1>4, <2>1, <3>1 DEF Undoable, due
  <2> QED BY <2>4, <2>5, <2>6, <2>7, <2>8, <2>9, <2>10, SpentNext
<1>9. CASE RequeuePending
  <2>1. /\ mem' = Requeued(mem, pending) /\ WriteTried(mem') /\ pending' = NoRequest
        /\ stopped /\ phase = "idle" /\ loop = "idle"
        /\ UNCHANGED <<stopped, run, due, done>>
    BY <1>9 DEF RequeuePending, past
  <2>2. round = NoRequest /\ claim = NoClaim
    BY <2>1 DEF Queue
  <2>3. /\ round' = round /\ claim' = claim /\ loop' = loop /\ phase' = phase
        /\ obs' = obs
    BY <2>1 DEF run, due
  <2>4. /\ Taken(k)' = done[k] /\ InMemory(k)' = done[k] /\ OnDisk(k)' = done[k]
        /\ OnDisk(k) = Taken(k)
    BY <1>6, <2>1, <2>2, <2>3 DEF Taken, InMemory, OnDisk, UsedBy
  <2>5. k \in Plan
    BY DEF Plan
  <2>6. /\ mem'.r = mem.r /\ mem'.last = mem.last
        /\ mem'.at[k] = IF k \in pending.plans THEN pending.due ELSE mem.at[k]
    BY <1>2, <2>1, <2>5, RequeuedFields
  <2>7. RemembersNext(mem', k, done[k])
    <3>1. mem'.at[k] \in {0, mem.at[k]}
          \/ (mem'.at[k] <= now /\ mem'.r[k] \notin done[k])
      BY <1>4, <2>6 DEF Held, Queue, Timely
    <3>2. done[k] \in SUBSET InMemory(k)
      BY <1>3
    <3>3. mem'.r[k] = mem.r[k] /\ mem'.last[k] = mem.last[k]
      BY <2>6
    <3> QED BY <1>1, <1>2, <1>3, <1>4, <3>1, <3>2, <3>3, EntryKept
  <2>8. disk' = mem' \/ disk' = disk
    BY <2>1 DEF WriteTried, Written, NotWritten
  <2>9. RemembersNext(disk', k, done[k])
    <3>1. CASE disk' = mem'
      BY <2>7, <3>1
    <3>2. CASE disk' = disk
      <4>1. done[k] \in SUBSET OnDisk(k)
        BY <1>3, <2>4
      <4> QED BY <1>1, <1>2, <1>3, <1>4, <3>2, <4>1, EntryKept
    <3> QED BY <2>8, <3>1, <3>2
  <2>10. Held(k)'
    BY <1>6, <2>1, <2>2, <2>3 DEF Held
  <2>11. \A R \in Reported(k)' : KnownNext(k, R)
    <3>1. Reported(k)' \subseteq Reported(k) \cup {0}
      BY <1>6, <2>1, <2>2, <2>3, <2>6, <2>8 DEF Reported
    <3> QED BY <1>5, <3>1
  <2>12. HasRead' => KnownNext(k, obs'.r[k])
    BY <1>7, <2>3
  <2>13. claim'.before.r[k] = claim'.request.r[k] /\ loop' # "claimed"
    BY <1>4, <2>1, <2>3
  <2> QED BY <2>4, <2>7, <2>9, <2>10, <2>11, <2>12, <2>13, SpentNext
<1>10. CASE Reload \/ CrashAndRestart
  <2>1. /\ mem' = disk /\ disk' = disk /\ done' = done /\ loop' = "idle"
        /\ round' = NoRequest /\ pending' = NoRequest /\ claim' = NoClaim
        /\ phase' = "idle"
    BY <1>10 DEF Reload, CrashAndRestart, Queue, run, due, past
  <2>2. /\ Taken(k)' = done[k] /\ InMemory(k)' = done[k] /\ OnDisk(k)' = done[k]
    BY <1>6, <2>1 DEF Taken, InMemory, OnDisk, UsedBy
  <2>3. done[k] \in SUBSET OnDisk(k)
    BY <1>3 DEF OnDisk
  <2>4. RemembersNext(disk, k, done[k])
    <3>1. disk.at[k] \in {0, disk.at[k]} /\ disk.r[k] = disk.r[k]
      OBVIOUS
    <3> QED BY <1>1, <1>2, <1>3, <1>4, <2>3, <3>1, EntryKept
  <2>5. Held(k)'
    BY <1>6, <2>1 DEF Held
  <2>6. \A R \in Reported(k)' : KnownNext(k, R)
    <3>1. Reported(k)' \subseteq Reported(k) \cup {0}
      BY <1>6, <2>1 DEF Reported
    <3> QED BY <1>5, <3>1
  <2>7. ~HasRead'
    BY <2>1 DEF HasRead
  <2>8. claim'.before.r[k] = claim'.request.r[k] /\ loop' # "claimed"
    BY <1>6, <2>1
  <2> QED BY <2>1, <2>2, <2>4, <2>5, <2>6, <2>7, <2>8, SpentNext
<1>11. CASE OtherWrite
  <2>1. /\ mem' = mem /\ disk' = mem
        /\ UNCHANGED <<stopped, run, pending, due, done>>
    BY <1>11 DEF OtherWrite, Written, past
  <2>2. /\ Taken(k)' = Taken(k) /\ InMemory(k)' = InMemory(k) /\ OnDisk(k)' = OnDisk(k)
    BY <2>1 DEF Taken, InMemory, OnDisk, UsedBy, run, due
  <2>3. InMemory(k) \in SUBSET InMemory(k)
    OBVIOUS
  <2>4. RemembersNext(mem', k, InMemory(k)) /\ RemembersNext(disk', k, OnDisk(k))
    BY <1>1, <1>2, <1>3, <1>4, <2>1, <2>3, EntryKept
  <2>5. Held(k)'
    BY <1>4, <2>1, <2>2 DEF Held, run, due
  <2>6. \A R \in Reported(k)' : KnownNext(k, R)
    <3>1. Reported(k)' \subseteq Reported(k)
      BY <2>1 DEF Reported, run, due
    <3> QED BY <1>5, <3>1
  <2>7. HasRead' => KnownNext(k, obs'.r[k])
    BY <1>7, <2>1 DEF run
  <2>8. /\ claim'.before.r[k] = claim'.request.r[k]
        /\ loop' = "claimed" => Undoable(k)'
    <3>1. UNCHANGED <<loop, claim>> /\ now' = now
      BY <1>11, <2>1 DEF OtherWrite, due
    <3> QED BY <1>4, <2>1, <3>1 DEF Undoable
  <2> QED BY <2>2, <2>4, <2>5, <2>6, <2>7, <2>8, SpentNext
<1> QED BY <1>8, <1>9, <1>10, <1>11

(* No reset point is followed up again once a follow-up of it ran to its   *)
(* end, whatever crashes, stops, fails to be written or arrives late: what *)
(* is done, runs, waits or is claimed is neither planned in memory nor in  *)
(* the state file, and both remember it as long as an observation in hand, *)
(* or one to come, may report it as still ahead.                           *)
THEOREM Once == Spec => []OneFollowupPerReset
<1>1. TypeOK /\ TypeOK' /\ Queue /\ Spent /\ [Next]_vars => Spent'
  <2> SUFFICES ASSUME TypeOK, TypeOK', Queue, Spent, [Next]_vars, NEW k \in Kind
               PROVE  SpentAt(k)'
    BY DEF Spent
  <2>1. SpentAt(k)
    BY DEF Spent
  <2> QED BY <2>1, SpentRoundStep, SpentLoopStep, SpentOtherStep DEF Next
<1>2. Init => Spent
  <2> SUFFICES ASSUME Init, NEW k \in Kind PROVE SpentAt(k)
    BY DEF Spent
  <2>1. /\ now = 1 /\ mem = EmptyEntry /\ disk = EmptyEntry /\ phase = "idle"
        /\ round = NoRequest /\ pending = NoRequest /\ loop = "idle"
        /\ claim = NoClaim
    BY DEF Init
  <2>2. done[k] = {}
    BY DEF Init
  <2>3. /\ NoRequest.r[k] = 0 /\ NoRequest.plans = {} /\ UsedBy(NoRequest, k) = {}
        /\ NoClaim.request = NoRequest /\ NoClaim.before.r[k] = 0
        /\ EmptyEntry.r[k] = 0 /\ EmptyEntry.at[k] = 0
    BY Constants DEF NoRequest, FullRound, UsedBy, EmptyEntry, Plan
  <2>4. Taken(k) = {} /\ InMemory(k) = {} /\ OnDisk(k) = {}
    BY <2>1, <2>2, <2>3 DEF Taken, InMemory, OnDisk
  <2>5. ~HasRead
    BY <2>1 DEF HasRead
  <2>6. Reported(k) = {0}
    BY <2>1, <2>2, <2>3 DEF Reported
  <2>7. \A R \in Reported(k) : Known(k, R)
    BY <2>1, <2>5, <2>6 DEF Known
  <2>8. Remembers(mem, k, InMemory(k)) /\ Remembers(disk, k, OnDisk(k))
    BY <2>1, <2>3, <2>4 DEF Remembers
  <2>9. Held(k)
    BY <2>1, <2>3 DEF Held
  <2> QED BY <2>1, <2>3, <2>5, <2>7, <2>8, <2>9 DEF SpentAt
<1>3. TypeOK /\ Spent => OneFollowupPerReset
  <2> SUFFICES ASSUME TypeOK, Spent, NEW k \in claim.request.plans \cap Kind
               PROVE  claim.request.r[k] \notin done[k]
    BY DEF OneFollowupPerReset
  <2>1. Held(k)
    BY DEF Spent, SpentAt
  <2> QED BY <2>1, SpentTypes DEF Held
<1> QED BY <1>1, <1>2, <1>3, TypeCorrect, QueueAlways, PTL DEF Spec
=============================================================================
