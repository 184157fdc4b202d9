---------------------------- MODULE Notifications ---------------------------
(***************************************************************************)
(* The Bark notifications (notifications.go): every round is counted in    *)
(* the digest window in which it is finalised, a failure raises one alert  *)
(* per window at most, failures of the quiet hours wait in a queue, and    *)
(* the digest of a window is sent with bounded retries.  What is sent is   *)
(* reserved in the state file first; a send whose outcome is not known     *)
(* after a crash is given up.                                              *)
(*                                                                         *)
(* recordNotifications (called at the end of a round) and                  *)
(* processNotifications (called by the scheduler loop) hold notificationMu *)
(* throughout; `step` is where the holder is, and between its steps the    *)
(* process may die and other writers may save the state.  `mem` is         *)
(* r.state.Notifications and `disk` its copy in the state file.  The text  *)
(* of the messages, their counts but the rounds, and the display of past   *)
(* results (LastDigest..., LastQuiet...) are left out.                     *)
(*                                                                         *)
(* Time is counted in ticks, DayLength of them a day, in cfg.Location; the *)
(* clock does not move while notificationMu is held.  The plugin may be    *)
(* off for any time: nothing obliges the loop to run at every tick.        *)
(***************************************************************************)
EXTENDS Integers, FiniteSets

CONSTANTS Account,      \* the fingerprints of the accounts
          DayLength,    \* ticks of a day
          DigestTime,   \* values cfg.DigestTime may be given
          FirstDigest,  \* the value of cfg.DigestTime at the start
          QuietStart, QuietEnd,  \* cfg.QuietStart, cfg.QuietEnd
          Threshold,    \* cfg.UnknownFailureStreak
          MaxTries,     \* tries for a digest (3)
          RetryInterval,\* digestRetryInterval
          KeepTime,     \* windows that ended longer ago are dropped (7 days)
          MaxTime,      \* bound: the clock stops here
          MaxRounds,    \* bound: rounds
          MaxFailures,  \* bound: writes of the state file that fail
          MaxCrashes,   \* bound: crashes of the process
          MaxReloads    \* bound: reconfigurations

ASSUME NotificationsAssumption ==
  /\ DayLength \in Nat \ {0}
  /\ {QuietStart, QuietEnd, FirstDigest} \cup DigestTime \subseteq 0..(DayLength - 1)
  /\ QuietStart # QuietEnd
  /\ {Threshold, MaxTries, RetryInterval} \subseteq Nat \ {0}
  /\ {KeepTime, MaxTime, MaxRounds, MaxFailures, MaxCrashes, MaxReloads} \subseteq Nat
  /\ DayLength <= KeepTime

VARIABLES
  now,         \* the clock
  digestTime,  \* cfg.DigestTime
  mem,         \* r.state.Notifications
  disk,        \* its copy in the state file
  step,        \* where the holder of notificationMu is
  job,         \* the notices it is sending
  alerted,     \* the alerts handed to Bark, with their windows (history)
  sends,       \* sends[e]: times the digest of e was handed to Bark (history)
  delivered,   \* the digests Bark accepted (history)
  rounds, failures, crashes, reloads  \* the counters of the bounds

sent   == <<alerted, sends, delivered>>
bounds == <<rounds, crashes, reloads>>
vars   == <<now, digestTime, mem, disk, step, job, sent, failures, bounds>>

Category == {"request_failed", "quota_unknown"}
Key      == Account \X Category
Notice   == [key : Key, due : Nat, end : Nat]

(* Of a digestWindow: Runs, the keys of Failures, Attempts, NextAttemptAt, *)
(* and whether Result is "sending".                                        *)
Window == [runs : Nat, alerts : SUBSET Key, tries : 0..MaxTries,
           nextTry : Nat, sending : BOOLEAN]
EmptyWindow == [runs |-> 0, alerts |-> {}, tries |-> 0, nextTry |-> 0,
                sending |-> FALSE]

-----------------------------------------------------------------------------
(* Calendar. *)
Midnight(t) == t - (t % DayLength)

(* digestEnd: the first digest boundary after t. *)
DigestEnd(t) ==
  LET e == Midnight(t) + digestTime IN IF t < e THEN e ELSE e + DayLength

(* Whether t is in the quiet hours, and quietUntil: when they end. *)
Quiet(t) ==
  LET h == t % DayLength IN
  IF QuietEnd < QuietStart THEN h < QuietEnd \/ h >= QuietStart
                           ELSE QuietStart <= h /\ h < QuietEnd

QuietUntil(t) ==
  LET e == Midnight(t) + QuietEnd IN IF t < e THEN e ELSE e + DayLength

-----------------------------------------------------------------------------
(* persistState *)
Written(state) == disk' = state /\ UNCHANGED failures
NotWritten == failures < MaxFailures /\ failures' = failures + 1 /\ UNCHANGED disk
WriteTried(state) == Written(state) \/ NotWritten

(* window: the window that ends at e, empty if it is not there yet. *)
WindowOf(n, e) == IF e \in DOMAIN n.windows THEN n.windows[e] ELSE EmptyWindow
WithWindow(n, e, w) ==
  [n EXCEPT !.windows = [f \in DOMAIN n.windows \cup {e} |->
                           IF f = e THEN w ELSE n.windows[f]]]

(* Mutant of PrunedBefore: the window that ends at the cutoff goes as well. *)
PrunedUpTo(n, cutoff) ==
  LET kept == {e \in DOMAIN n.windows : e > cutoff}
  IN [n EXCEPT !.windows = [e \in kept |-> n.windows[e]],
               !.pending = {p \in n.pending : p.end \in kept}]

(* pruneWindowsBefore: with a window go the notices queued in it. *)
PrunedBefore(n, cutoff) ==
  LET kept == {e \in DOMAIN n.windows : e >= cutoff}
  IN [n EXCEPT !.windows = [e \in kept |-> n.windows[e]],
               !.pending = {p \in n.pending : p.end \in kept}]

(* finishDigestLocked: the next boundary is a day after this one, or the   *)
(* next one to come if that is over too.                                   *)
Finished(n) ==
  LET next == Midnight(n.next) + DayLength + digestTime
      to   == IF next <= now THEN DigestEnd(now) ELSE next
  IN PrunedBefore([n EXCEPT !.next = to], to)

-----------------------------------------------------------------------------
Init ==
  /\ now = 0
  /\ digestTime = FirstDigest
  /\ mem = [next |-> DigestEnd(0), windows |-> [e \in {} |-> EmptyWindow],
            streak |-> [a \in Account |-> 0], pending |-> {}]
  /\ disk = mem
  /\ step = "free" /\ job = {}
  /\ alerted = {} /\ delivered = {}
  /\ sends = [e \in 0..(MaxTime + 2 * DayLength) |-> 0]
  /\ rounds = 0 /\ failures = 0 /\ crashes = 0 /\ reloads = 0

Tick ==
  /\ step = "free" /\ now < MaxTime
  /\ now' = now + 1
  /\ UNCHANGED <<digestTime, mem, disk, step, job, sent, failures, bounds>>

-----------------------------------------------------------------------------
(* recordNotifications.                                                    *)

(* What the round made of an account; a targeted round, or one that was    *)
(* cut short, has nothing of some.                                         *)
Outcome == {"absent", "answered", "failed", "unknown"}

(* A round that may prewarm, a read-only refresh of the quotas, and a      *)
(* manual round with notify, whose feedback is sent at once.               *)
Mode == {"prewarm", "refresh", "feedback"}

StreakAfter(a, outcome) ==
  CASE outcome[a] = "absent"  -> mem.streak[a]
    [] outcome[a] = "unknown" -> mem.streak[a] + 1
    [] OTHER -> 0

(* failureCategory: what the accounts of the round are to be alerted for. *)
FailureKeys(outcome) ==
  {k \in Key :
     \/ k[2] = "request_failed" /\ outcome[k[1]] = "failed"
     \/ k[2] = "quota_unknown" /\ outcome[k[1]] = "unknown"
          /\ StreakAfter(k[1], outcome) >= Threshold}

(* Mutant of NewAlerts: an alert is not counted before it has been sent. *)
NewUnlessQueued(w, keys) == keys \ (w.alerts \ {p.key : p \in mem.pending})

(* One alert for an account and category in a window. *)
NewAlerts(w, keys) == keys \ w.alerts

(* A round is finalised: it is counted unless it is a refresh, its new     *)
(* failures are claimed for the window, and queued or taken in hand; a     *)
(* manual feedback uses up the allowance without an alert.                 *)
RecordRound(outcome, mode) ==
  /\ step = "free" /\ rounds < MaxRounds
  /\ mode = "refresh" => \A a \in Account : outcome[a] # "failed"
  /\ LET end  == DigestEnd(now)
         kept == PrunedBefore(mem, now - KeepTime)
         w    == WindowOf(kept, end)
         new  == NewAlerts(w, FailureKeys(outcome))
         made == {[key |-> k, due |-> QuietUntil(now), end |-> end] : k \in new}
         n    == WithWindow(kept, end,
                   [w EXCEPT !.runs = IF mode = "refresh" THEN @ ELSE @ + 1,
                             !.alerts = @ \cup new])
     IN /\ mem' = [n EXCEPT
                     !.streak  = [a \in Account |-> StreakAfter(a, outcome)],
                     !.pending = IF Quiet(now) /\ mode # "feedback"
                                 THEN @ \cup made ELSE @]
        /\ job' = IF Quiet(now) \/ mode = "feedback" THEN {} ELSE made
  /\ step' = "record"
  /\ rounds' = rounds + 1
  /\ UNCHANGED <<now, digestTime, disk, sent, failures, crashes, reloads>>

(* What is to be sent is on disk first.  When the write fails nothing is   *)
(* sent, and the alert stays claimed.                                      *)
RoundWritten ==
  /\ step = "record"
  /\ \/ Written(mem) /\ step' = (IF job = {} THEN "free" ELSE "alert")
        /\ UNCHANGED job
     \/ NotWritten /\ step' = "free" /\ job' = {}
  /\ UNCHANGED <<now, digestTime, mem, sent, bounds>>

-----------------------------------------------------------------------------
(* processNotifications.                                                   *)

(* The queue, once the quiet hours are over.  Other passes go on to the    *)
(* digest at once.                                                         *)
DueNotices == {p \in mem.pending : p.due <= now /\ ~Quiet(now)}

FlushQueue ==
  /\ step = "free" /\ DueNotices # {}
  /\ job' = DueNotices
  /\ mem' = [mem EXCEPT !.pending = @ \ DueNotices]
  /\ step' = "flush"
  /\ UNCHANGED <<now, digestTime, disk, sent, failures, bounds>>

QueueWritten ==
  /\ step = "flush" /\ Written(mem)
  /\ step' = "alert"
  /\ UNCHANGED <<now, digestTime, mem, job, sent, bounds>>

(* The notices go back to the queue. *)
QueueNotWritten ==
  /\ step = "flush" /\ NotWritten
  /\ mem' = [mem EXCEPT !.pending = @ \cup job]
  /\ step' = "free" /\ job' = {}
  /\ UNCHANGED <<now, digestTime, sent, bounds>>

(* sendNotification with the notices in hand, delivered or not. *)
SendAlert ==
  /\ step = "alert"
  /\ alerted' = alerted \cup {<<p.key, p.end>> : p \in job}
  /\ step' = "result"
  /\ UNCHANGED <<now, digestTime, mem, disk, job, sends, delivered, failures,
                 bounds>>

(* The result is recorded; a pass of the loop goes on to the digest, which *)
(* it may also find at its next tick.                                      *)
AlertRecorded ==
  /\ step = "result"
  /\ WriteTried(mem)
  /\ step' = "free" /\ job' = {}
  /\ UNCHANGED <<now, digestTime, mem, sent, bounds>>

(* Mutant of MayTry: a digest may be tried once more. *)
MayTryOnceMore(w) == w.tries <= MaxTries

MayTry(w) == w.tries < MaxTries

(* The digest that is due is reserved. *)
StartDigest ==
  /\ step = "free" /\ now >= mem.next /\ DueNotices = {}
  /\ LET w == WindowOf(mem, mem.next) IN
       /\ ~w.sending /\ w.nextTry <= now /\ MayTry(w)
       /\ mem' = WithWindow(mem, mem.next,
                   [w EXCEPT !.tries = @ + 1, !.sending = TRUE,
                             !.nextTry = now + RetryInterval])
  /\ step' = "digest"
  /\ UNCHANGED <<now, digestTime, disk, job, sent, failures, bounds>>

(* Mutant of GiveUpDigest: an uncertain send is tried again. *)
RetryUncertainDigest ==
  /\ step = "free" /\ now >= mem.next /\ DueNotices = {}
  /\ LET w == WindowOf(mem, mem.next) IN
       /\ w.sending
       /\ mem' = WithWindow(mem, mem.next, [w EXCEPT !.sending = FALSE])
  /\ WriteTried(mem')
  /\ UNCHANGED <<now, digestTime, step, job, sent, bounds>>

(* A send left without an outcome by a crash, or no try left. *)
GiveUpDigest ==
  /\ step = "free" /\ now >= mem.next /\ DueNotices = {}
  /\ LET w == WindowOf(mem, mem.next) IN
       w.sending \/ (w.nextTry <= now /\ ~MayTry(w))
  /\ mem' = Finished(mem)
  /\ WriteTried(mem')
  /\ UNCHANGED <<now, digestTime, step, job, sent, bounds>>

DigestWritten ==
  /\ step = "digest"
  /\ \/ Written(mem) /\ step' = "digestSend" /\ UNCHANGED mem
     \/ /\ NotWritten /\ step' = "free"
        /\ mem' = [mem EXCEPT !.windows[mem.next].sending = FALSE]
  /\ UNCHANGED <<now, digestTime, job, sent, bounds>>

SendDigest ==
  /\ step = "digestSend"
  /\ sends' = [sends EXCEPT ![mem.next] = @ + 1]
  /\ \/ delivered' = delivered \cup {mem.next} /\ step' = "accepted"
     \/ UNCHANGED delivered /\ step' = "rejected"
  /\ UNCHANGED <<now, digestTime, mem, disk, job, alerted, failures, bounds>>

(* A digest that was accepted, or rejected for the last time, is over. *)
DigestRecorded ==
  /\ step \in {"accepted", "rejected"}
  /\ LET n == [mem EXCEPT !.windows[mem.next].sending = FALSE] IN
       mem' = IF step = "accepted" \/ ~MayTry(n.windows[n.next])
              THEN Finished(n) ELSE n
  /\ WriteTried(mem')
  /\ step' = "free"
  /\ UNCHANGED <<now, digestTime, job, sent, bounds>>

-----------------------------------------------------------------------------
(* The state file is also written by everything else. *)
OtherWrite ==
  /\ disk # mem /\ Written(mem)
  /\ UNCHANGED <<now, digestTime, mem, step, job, sent, bounds>>

(* configure, once the rounds and the loop are over. *)
Reconfigure ==
  /\ step = "free" /\ reloads < MaxReloads
  /\ reloads' = reloads + 1
  /\ mem' = disk
  /\ digestTime' \in DigestTime
  /\ UNCHANGED <<now, disk, step, job, sent, failures, rounds, crashes>>

CrashAndRestart ==
  /\ crashes < MaxCrashes
  /\ crashes' = crashes + 1
  /\ mem' = disk
  /\ step' = "free" /\ job' = {}
  /\ UNCHANGED <<now, digestTime, disk, sent, failures, rounds, reloads>>

Next ==
  \/ Tick
  \/ \E outcome \in [Account -> Outcome], mode \in Mode :
       RecordRound(outcome, mode)
  \/ RoundWritten
  \/ FlushQueue \/ QueueWritten \/ QueueNotWritten
  \/ SendAlert \/ AlertRecorded
  \/ StartDigest \/ GiveUpDigest \/ DigestWritten \/ SendDigest \/ DigestRecorded
  \/ OtherWrite \/ Reconfigure \/ CrashAndRestart

Spec == Init /\ [][Next]_vars

-----------------------------------------------------------------------------
StateOK(n) ==
  /\ n.next \in Nat
  /\ \A e \in DOMAIN n.windows : e \in Nat /\ n.windows[e] \in Window
  /\ n.streak \in [Account -> Nat]
  /\ n.pending \in SUBSET Notice
  /\ \A p \in n.pending : p.end \in DOMAIN n.windows

TypeOK ==
  /\ now \in Nat /\ digestTime \in 0..(DayLength - 1)
  /\ StateOK(mem) /\ StateOK(disk)
  /\ step \in {"free", "record", "flush", "alert", "result", "digest",
               "digestSend", "accepted", "rejected"}
  /\ job \in SUBSET Notice
  /\ alerted \subseteq Key \X Nat /\ delivered \subseteq Nat
  /\ sends \in [DOMAIN sends -> Nat]
  /\ {rounds, failures, crashes, reloads} \subseteq Nat

(* An account and category are alerted at most once per digest window,     *)
(* delivered or not, across quiet hours, failed writes, restarts and       *)
(* crashes (README: at most one attempt in each window).                   *)
AlertedOncePerWindow ==
  step = "alert" => \A p \in job : <<p.key, p.end>> \notin alerted

(* A digest that Bark accepted is not sent again, even when the process    *)
(* died before it recorded the answer, and one that is rejected is sent    *)
(* MaxTries times at most (README: three tries; an uncertain delivery is   *)
(* given up, to avoid a duplicate).  The promise ends KeepTime after the   *)
(* digest was due: then the next round drops its window with the record of *)
(* the tries, and if no pass of the loop came in between it is sent anew.  *)
DigestDeliveredOnce ==
  step = "digestSend" /\ now <= mem.next + KeepTime =>
    mem.next \notin delivered /\ sends[mem.next] < MaxTries

(* A failure queued in the quiet hours leaves the queue to be sent, or     *)
(* because its digest window has been over for a while (README: failures   *)
(* of the quiet hours are kept and sent together when these end; the queue *)
(* of windows that expired while the plugin was off is cleared).  Nothing  *)
(* is said of a crash or a reload: the queue is then what the state file   *)
(* has, and a notice whose write failed, or that somebody else's write     *)
(* took out of the file before its flush failed, is lost there.            *)
QueuedFailuresAreSent ==
  [][crashes' = crashes /\ reloads' = reloads =>
       \A p \in mem.pending \ mem'.pending : p \in job' \/ p.end < now]_vars

(* A window in which rounds were counted is dropped by its own digest,     *)
(* unless a digest is late by a day (README: every round belongs to one    *)
(* digest; after several days off only the window that is due is sent).    *)
(* As above, a crash or a reload may lose a round that was not written.    *)
RoundsAreReported ==
  [][crashes' = crashes /\ reloads' = reloads =>
       \A e \in DOMAIN mem.windows \ DOMAIN mem'.windows :
         \/ mem.windows[e].runs = 0
         \/ e = mem.next
         \/ mem.next + DayLength <= now \/ e + DayLength <= now]_vars
=============================================================================
