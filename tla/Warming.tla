------------------------------ MODULE Warming -------------------------------
(***************************************************************************)
(* The model-call path of a prewarm round: the account loop of executeRun, *)
(* the retries and the fallback of executeAccountWithGuard, the durable    *)
(* reservation of reserveAttempt, and what a failed write, a stop, a       *)
(* reload and a crash do to them (runtime.go).                             *)
(*                                                                         *)
(* The state of the program is `mem` (r.state.Accounts) and `disk` (the    *)
(* state file), which persistState replaces as a whole by a rename.  Of an *)
(* accountWindow the call path reads and writes AttemptTimes (`attempts`)  *)
(* and LastPrewarmAt (`last`).  Rounds are serialised (Lifecycle shows     *)
(* it), so one round is in progress at a time and its local variables are  *)
(* pc .. entry below.                                                      *)
(*                                                                         *)
(* Time is an integer clock; the host's clock is assumed not to go back.   *)
(* Two reservations of the program never carry the same nanosecond: here a *)
(* reservation carries a serial number n beside its time.  Its third field *)
(* is the serial number of the first reservation of the same prewarm; it   *)
(* is read by the properties only, as are called and settled.              *)
(***************************************************************************)
EXTENDS Integers, FiniteSets

CONSTANTS Account,      \* the fingerprints of the accounts the host lists
          NoAccount,    \* no account in hand
          Limit,        \* attempts per rolling window (5 in the code)
          Window,       \* the rolling window (24 hours)
          Cooldown,     \* least time between two prewarms (5 hours)
          RetryCount,   \* cfg.RetryCount
          ModelCount,   \* 1, or 2 when the fallback model differs
          MaxTime,      \* bound: the clock stops here
          MaxSerial     \* bound: reservations made in a behaviour

ASSUME WarmingAssumption ==
  /\ NoAccount \notin Account
  /\ Limit \in Nat /\ Window \in Nat /\ Cooldown \in Nat
  /\ RetryCount \in Nat /\ ModelCount \in Nat \ {0}
  /\ MaxTime \in Nat /\ MaxSerial \in Nat

VARIABLES
  now,      \* the clock
  mem,      \* r.state.Accounts
  disk,     \* the accounts of the state file
  stopped,  \* stopCh has been closed by quiesce
  pc,       \* where the round is
  todo,     \* accounts the round has not looked at
  acct,     \* the account in hand
  model,    \* index of the model being tried
  attempt,  \* index of the attempt with that model
  made,     \* result.Attempts
  entry,    \* the reservation in hand
  serial,   \* serial number of the next reservation
  called,   \* called[a]: reservations of a whose call has been sent
  settled   \* prewarms that got an answer after which nothing may be sent

acctVars  == <<todo, acct>>
tryVars   == <<model, attempt, made, entry>>
ghosts    == <<called, settled>>
vars      == <<now, mem, disk, stopped, pc, todo, acct, model, attempt, made,
               entry, serial, called, settled>>

(* The zero time.Time of LastPrewarmAt. *)
Never == -1

Reservation == [n : Nat, at : Nat, first : Nat]
NoEntry     == [n |-> 0, at |-> 0, first |-> 0]

AccountWindow == [attempts : SUBSET Reservation, last : Nat \cup {Never}]

PcValues == {"idle", "account", "confirm", "reserve", "write", "paid",
             "sent", "backoff", "awake", "record"}

-----------------------------------------------------------------------------
(* recentAttempts: the attempts less than a window old. *)
Live(S) == {e \in S : e.at + Window > now}

(* Mutant of RecentAttempts: an attempt is forgotten one tick early. *)
LiveOffByOne(S) == {e \in S : e.at + Window > now + 1}

RecentAttempts(S) == Live(S)

(* warmLimitReason returns "": neither rolling_24h_limit nor               *)
(* recent_prewarm_attempt.                                                 *)
MayWarm(a) ==
  /\ Cardinality(RecentAttempts(mem[a].attempts)) < Limit
  /\ mem[a].last = Never \/ now >= mem[a].last + Cooldown

(* persistState: the state file is replaced by the state in memory, or the *)
(* write fails and the file is as it was.                                  *)
WriteOK(state)    == disk' = state
WriteTried(state) == disk' \in {disk, state}

(* The variables of the account in hand go out of scope. *)
PrewarmOver ==
  /\ acct' = NoAccount
  /\ model' = 1 /\ attempt' = 0 /\ made' = 0
  /\ entry' = NoEntry

-----------------------------------------------------------------------------
Init ==
  /\ now = 0
  /\ mem = [a \in Account |-> [attempts |-> {}, last |-> Never]]
  /\ disk = mem
  /\ stopped = FALSE
  /\ pc = "idle"
  /\ todo = {}
  /\ acct = NoAccount
  /\ model = 1 /\ attempt = 0 /\ made = 0
  /\ entry = NoEntry
  /\ serial = 1
  /\ called = [a \in Account |-> {}]
  /\ settled = {}

(* startRunJob and the part of executeRun up to the account loop: a round  *)
(* over all the accounts or over a target.  The gate is closed while       *)
(* stopped.                                                                *)
StartRound(T) ==
  /\ pc = "idle" /\ ~stopped /\ T # {}
  /\ todo' = T
  /\ pc' = "account"
  /\ UNCHANGED <<now, mem, disk, stopped, acct, tryVars, serial, ghosts>>

(* An account that is not warmed in this round: its query failed, its      *)
(* quota or the limits refuse it, or it is read-only, not allowed, observe *)
(* or dry run.  saveQuota, saveQuotaFailure and clearQuotaRetry write.     *)
SkipAccount(a) ==
  /\ pc = "account" /\ ~stopped /\ a \in todo
  /\ todo' = todo \ {a}
  /\ WriteTried(mem)
  /\ UNCHANGED <<now, mem, stopped, pc, acct, tryVars, serial, ghosts>>

(* The first observation was saved and the limits allow the account: the   *)
(* idle confirmation begins, and takes time.                               *)
Candidate(a) ==
  /\ pc = "account" /\ ~stopped /\ a \in todo
  /\ MayWarm(a)
  /\ WriteOK(mem)
  /\ todo' = todo \ {a}
  /\ acct' = a
  /\ pc' = "confirm"
  /\ UNCHANGED <<now, mem, stopped, tryVars, serial, ghosts>>

(* The idle window is confirmed and the limits, asked again, still allow   *)
(* the account: executeAccountWithGuard is called.                         *)
Confirmed ==
  /\ pc = "confirm" /\ ~stopped
  /\ MayWarm(acct)
  /\ WriteOK(mem)
  /\ pc' = "reserve"
  /\ model' = 1 /\ attempt' = 0 /\ made' = 0
  /\ entry' = [NoEntry EXCEPT !.first = serial]
  /\ UNCHANGED <<now, mem, stopped, acctVars, serial, ghosts>>

(* Mutant: the skipped account falls through to the model call. *)
NotConfirmedFallsThrough ==
  /\ pc = "confirm" /\ ~stopped
  /\ pc' = "reserve"
  /\ WriteTried(mem)
  /\ PrewarmOver
  /\ UNCHANGED <<now, mem, stopped, todo, serial, ghosts>>

(* The idle window is not confirmed, an observation could not be fetched   *)
(* or saved, or the limits refuse the account now.                         *)
NotConfirmed ==
  /\ pc = "confirm" /\ ~stopped
  /\ pc' = "account"
  /\ WriteTried(mem)
  /\ PrewarmOver
  /\ UNCHANGED <<now, mem, stopped, todo, serial, ghosts>>

-----------------------------------------------------------------------------
(* Mutants of the two definitions below: the cool-down starts only with    *)
(* recordAccountResult; the limit check is off by one.                     *)
ReservedWithoutCooldown(w, e) ==
  [attempts |-> RecentAttempts(w.attempts) \cup {e}, last |-> w.last]
HasRoomForOneMore(a) ==
  Cardinality(RecentAttempts(mem[a].attempts)) <= Limit

(* reserveAttempt, in memory: forget the old attempts, refuse at the       *)
(* limit, append one.  LastPrewarmAt moves with the reservation.           *)
Reserved(w, e) == [attempts |-> RecentAttempts(w.attempts) \cup {e},
                   last     |-> e.at]

HasRoom(a) == Cardinality(RecentAttempts(mem[a].attempts)) < Limit

Reserve ==
  /\ pc = "reserve" /\ ~stopped
  /\ serial < MaxSerial
  /\ HasRoom(acct)
  /\ entry' = [entry EXCEPT !.n = serial, !.at = now]
  /\ mem' = [mem EXCEPT ![acct] = Reserved(@, entry')]
  /\ serial' = serial + 1
  /\ pc' = "write"
  /\ UNCHANGED <<now, disk, stopped, acctVars, model, attempt, made, ghosts>>

(* The stop checks before a reservation, and a reservation refused. *)
RefuseReservation ==
  /\ pc = "reserve"
  /\ stopped \/ ~HasRoom(acct)
  /\ pc' = "record"
  /\ UNCHANGED <<now, mem, disk, stopped, acctVars, tryVars, serial, ghosts>>

(* reserveAttempt, the write.  When it fails no call is sent, but the      *)
(* attempt stays counted in memory.                                        *)
ReservationWritten ==
  /\ pc = "write"
  /\ WriteOK(mem)
  /\ made' = made + 1
  /\ pc' = "paid"
  /\ UNCHANGED <<now, mem, stopped, acctVars, model, attempt, entry, serial,
                 ghosts>>

(* Mutant: the error of persistState is not looked at.                     *)
IgnoreWriteError ==
  /\ pc = "write"
  /\ made' = made + 1
  /\ pc' = "paid"
  /\ UNCHANGED <<now, mem, disk, stopped, acctVars, model, attempt, entry,
                 serial, ghosts>>

ReservationWriteFailed ==
  /\ pc = "write"
  /\ pc' = "record"
  /\ UNCHANGED <<now, mem, disk, stopped, acctVars, tryVars, serial, ghosts>>

(* callHost(host.model.execute) *)
Send ==
  /\ pc = "paid" /\ ~stopped
  /\ called' = [called EXCEPT ![acct] = @ \cup {entry}]
  /\ pc' = "sent"
  /\ UNCHANGED <<now, mem, disk, stopped, acctVars, tryVars, serial, settled>>

(* "A persisted reservation is kept even if shutdown wins this race." *)
StopAfterReservation ==
  /\ pc = "paid" /\ stopped
  /\ pc' = "record"
  /\ UNCHANGED <<now, mem, disk, stopped, acctVars, tryVars, serial, ghosts>>

(* The answers executeAccountWithGuard tells apart: a status that is safe  *)
(* to retry, an explicit refusal of the model, an answer that ends the     *)
(* prewarm (success, another status, an undecodable body), and a callback  *)
(* that failed without a status, which may have reached the upstream.      *)
Answers == {"retryable", "unsupported", "final", "uncertain"}

(* Mutants of MayRetry: an uncertain callback is retried like a gateway    *)
(* timeout; the last attempt with a model is retried once more.            *)
RetryUncertain(answer) ==
  answer \in {"retryable", "uncertain"} /\ attempt < RetryCount
RetryOnceMore(answer) == answer = "retryable" /\ attempt <= RetryCount

MayRetry(answer)    == answer = "retryable" /\ attempt < RetryCount
MayFallBack(answer) == answer = "unsupported" /\ model < ModelCount

Answer(answer) ==
  /\ pc = "sent"
  /\ settled' = IF answer \in {"final", "uncertain"}
                THEN settled \cup {entry.first} ELSE settled
  /\ \/ /\ MayRetry(answer)
        /\ pc' = "backoff"
        /\ UNCHANGED <<model, attempt>>
     \/ /\ MayFallBack(answer)
        /\ model' = model + 1 /\ attempt' = 0
        /\ pc' = "reserve"
     \/ /\ ~MayRetry(answer) /\ ~MayFallBack(answer)
        /\ pc' = "record"
        /\ UNCHANGED <<model, attempt>>
  /\ UNCHANGED <<now, mem, disk, stopped, acctVars, made, entry, serial,
                 called>>

(* waitForRun between two attempts.  The timer of the wait fires at a time  *)
(* of its own: no fairness is assumed of it.                               *)
TimerFires ==
  /\ pc = "backoff"
  /\ pc' = "awake"
  /\ UNCHANGED <<now, mem, disk, stopped, acctVars, tryVars, serial, ghosts>>

(* Mutant of Backoff: a plain sleep, over only when the timer has fired.   *)
BackoffSleeps ==
  /\ pc = "awake"
  /\ IF stopped THEN pc' = "record" /\ UNCHANGED attempt
                ELSE pc' = "reserve" /\ attempt' = attempt + 1
  /\ UNCHANGED <<now, mem, disk, stopped, acctVars, model, made, entry,
                 serial, ghosts>>

(* The select of waitForRun returns: the timer has fired or stopCh is      *)
(* closed, and stopCh is looked at again.                                  *)
Backoff ==
  /\ pc = "awake" \/ (pc = "backoff" /\ stopped)
  /\ IF stopped THEN pc' = "record" /\ UNCHANGED attempt
                ELSE pc' = "reserve" /\ attempt' = attempt + 1
  /\ UNCHANGED <<now, mem, disk, stopped, acctVars, model, made, entry,
                 serial, ghosts>>

(* recordAccountResult, called when an attempt was made. *)
Record ==
  /\ pc = "record"
  /\ mem' = IF made > 0 THEN [mem EXCEPT ![acct].last = now] ELSE mem
  /\ WriteTried(mem')
  /\ pc' = "account"
  /\ PrewarmOver
  /\ UNCHANGED <<now, stopped, todo, serial, ghosts>>

(* The end of executeRun: the accounts are done, or a stop check in the    *)
(* account loop or in a wait of the idle confirmation interrupts it.       *)
(* appendRun writes.                                                       *)
FinishRound ==
  /\ \/ pc = "account" /\ (todo = {} \/ stopped)
     \/ pc = "confirm" /\ stopped
  /\ pc' = "idle"
  /\ todo' = {}
  /\ WriteTried(mem)
  /\ PrewarmOver
  /\ UNCHANGED <<now, mem, stopped, serial, ghosts>>

-----------------------------------------------------------------------------
(* The scheduler loop, the notifications, the cron callbacks and the       *)
(* account-display refresh also write the whole state.                     *)
OtherWrite ==
  /\ disk # mem
  /\ WriteOK(mem)
  /\ UNCHANGED <<now, mem, stopped, pc, acctVars, tryVars, serial, ghosts>>

(* quiesce closes stopCh; once the round is over configure reloads. *)
Stop ==
  /\ ~stopped
  /\ stopped' = TRUE
  /\ UNCHANGED <<now, mem, disk, pc, acctVars, tryVars, serial, ghosts>>

Reload ==
  /\ stopped /\ pc = "idle"
  /\ mem' = disk
  /\ stopped' = FALSE
  /\ UNCHANGED <<now, disk, pc, acctVars, tryVars, serial, ghosts>>

(* The process dies anywhere and a new one loads the state file. *)
CrashAndRestart ==
  /\ mem' = disk
  /\ pc' = "idle" /\ todo' = {} /\ stopped' = FALSE
  /\ PrewarmOver
  /\ UNCHANGED <<now, disk, serial, ghosts>>

Tick ==
  /\ now < MaxTime
  /\ now' = now + 1
  /\ UNCHANGED <<mem, disk, stopped, pc, acctVars, tryVars, serial, ghosts>>

-----------------------------------------------------------------------------
Prewarm ==
  \/ Confirmed \/ NotConfirmed \/ Reserve \/ RefuseReservation
  \/ ReservationWritten \/ ReservationWriteFailed
  \/ Send \/ StopAfterReservation
  \/ \E answer \in Answers : Answer(answer)
  \/ Backoff \/ Record

Round ==
  \/ \E a \in Account : SkipAccount(a) \/ Candidate(a)
  \/ Prewarm
  \/ FinishRound

Next ==
  \/ \E T \in SUBSET Account : StartRound(T)
  \/ Round \/ TimerFires
  \/ OtherWrite \/ Stop \/ Reload \/ CrashAndRestart \/ Tick

Spec == Init /\ [][Next]_vars

(* The goroutine of the round is scheduled and callHost returns.  No timer *)
(* of a back-off has to fire: TimerFires is not a step of Round.           *)
FairSpec == Spec /\ WF_vars(Round)

-----------------------------------------------------------------------------
TypeOK ==
  /\ now \in Nat
  /\ mem \in [Account -> AccountWindow]
  /\ disk \in [Account -> AccountWindow]
  /\ stopped \in BOOLEAN
  /\ pc \in PcValues
  /\ todo \in SUBSET Account
  /\ acct \in Account \cup {NoAccount}
  /\ pc \notin {"idle", "account"} => acct \in Account
  /\ model \in Nat /\ attempt \in Nat /\ made \in Nat
  /\ entry \in Reservation
  /\ serial \in Nat
  /\ called \in [Account -> SUBSET Reservation]
  /\ settled \in SUBSET Nat

(* No crash, reload or failed write forgets a call: the reservation of     *)
(* every call sent less than a window ago is in the state file             *)
(* (reserveAttempt: "Persist the reservation before sending a model        *)
(* request").                                                              *)
CallsArePrepaid == \A a \in Account : Live(called[a]) \subseteq disk[a].attempts

(* Counting across crashes, restarts and reloads, an account never has     *)
(* more than Limit calls paid for in the last window (README: 24 hours, at *)
(* most five model calls).                                                 *)
RollingLimit == \A a \in Account : Cardinality(Live(called[a])) <= Limit

(* Two calls of an account that belong to different prewarms are at least  *)
(* a cool-down apart, even when the process died between the first of them *)
(* and the record of its result (warmLimitReason recent_prewarm_attempt).  *)
PrewarmsAreSpaced ==
  \A a \in Account : \A c, d \in called[a] :
    c.first # d.first => \/ c.at + Cooldown <= d.at
                         \/ d.at + Cooldown <= c.at

(* An answer that ended a prewarm, or a callback that may have been        *)
(* charged without an answer, is never followed by another call of the     *)
(* same prewarm ("An uncertain callback may have consumed quota: never     *)
(* retry or fall back").                                                   *)
NothingAfterFinalAnswer ==
  [][\A a \in Account : \A e \in called'[a] \ called[a] :
       e.first \notin settled]_vars

(* However its attempts fail, a prewarm sends at most RetryCount + 1 calls *)
(* for each model it may use: neither the retries nor the fallback start a *)
(* round of their own (the loops of executeAccountWithGuard).              *)
CallsOf(a, f) == {e \in called[a] : e.first = f}
CallsPerPrewarm ==
  \A a \in Account : \A c \in called[a] :
    Cardinality(CallsOf(a, c.first)) <= ModelCount * (RetryCount + 1)

(* What the calls promise whatever happens to the process (CallBudget). *)
Budget == INSTANCE CallBudget
            WITH ledger <- [a \in Account |-> disk[a].attempts]
ImplementsBudget == Budget!Spec

(* Closing stopCh ends the round, whatever it was waiting for, without a   *)
(* back-off having to run out: quiesce, which waits for the round, returns *)
(* (waitForRun selects on stopCh).                                         *)
StopEndsRound == stopped ~> (pc = "idle")
=============================================================================
