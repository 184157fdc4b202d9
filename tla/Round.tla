------------------------------- MODULE Round --------------------------------
(***************************************************************************)
(* One round of executeRun (runtime.go) from the inventory of the accounts *)
(* to the record of the run: the concurrent first queries                  *)
(* (initial_quota.go), the confirmation that a window is idle              *)
(* (idle_confirmation.go, quota_fetch.go), the spacing of the model calls, *)
(* and what the round reports.                                             *)
(*                                                                         *)
(* An idle five-hour window is reported with a reset point that moves with *)
(* the time of the answer, a window in use with a fixed one; users may     *)
(* open a window at any time.  A reset point is represented by the time    *)
(* five hours before it: the time of the answer, or the time the window    *)
(* was opened.  The upstream and the plugin have one clock; an answer is   *)
(* under way for a while.                                                  *)
(*                                                                         *)
(* Warming models the reservations and attempts of a call, Followup what   *)
(* the queries plan, Lifecycle the queue around the round.                 *)
(***************************************************************************)
EXTENDS Naturals, FiniteSets, FiniteSetsExt

CONSTANTS Account,     \* accounts, in the order of their IDs
          Shared,      \* accounts that somebody may use during the round
          Expected,    \* ExpectedAccountCount, 0 if not set
          MaxFetches,  \* capacity of the semaphore (3)
          Spacing,     \* AccountSpacing
          MaxAge,      \* maxInitialQuotaAge (10 s)
          ConfirmWait, \* the wait between the two observations (3 s)
          Tolerance,   \* by which the reset point may lag behind (2 s)
          MinDelta,    \* least and greatest distance of the observations
          MaxDelta,    \*   (2 s, 30 s)
          Slack,       \* how far an answer may be off (60 s)
          MaxTime      \* bound: the clock stops here

ASSUME RoundAssumption ==
  /\ Account \subseteq Nat \ {0} /\ IsFiniteSet(Account)
  /\ Shared \subseteq Account
  /\ {Expected, Spacing, MaxTime} \subseteq Nat
  /\ MaxFetches \in Nat \ {0}
  /\ {Tolerance, MinDelta, ConfirmWait, MaxAge, MaxDelta, Slack} \subseteq Nat
  /\ MinDelta <= ConfirmWait /\ Tolerance < ConfirmWait
  /\ MaxAge + ConfirmWait < MaxDelta

VARIABLES
  now,          \* the clock
  opened,       \* opened[a]: when the window of a was opened, 0 if it is idle
  stopped,      \* stopCh is closed
  trigger,      \* request.Trigger
  readOnly,     \* request.ReadOnly: a refresh of the quotas
  pc,           \* where executeRun is
  found,        \* the accounts discovered
  fetch,        \* fetch[a]: the query of a that is under way
  answer,       \* answer[a]: what it brings
  acct,         \* the account in hand, 0 if none
  first,        \* the first observation of it
  deadline,     \* the end of the wait
  checkedAge,   \* when the age of the first observation was looked at
  lastModelFinishedAt,
  outcome,      \* outcome[a]: the entry of a in record.Accounts
  error,        \* record.ErrorCode
  success,      \* record.Success
  putBack,      \* the claim of the request is open again in r.state
  writeFailed,  \* stateWriteFailures grew
  dirty         \* the state file lags behind the state in memory

clocks  == <<now, opened>>
request == <<trigger, readOnly>>
queries == <<fetch, answer>>
account == <<acct, first, deadline, checkedAge>>
report  == <<error, success, putBack>>
writes  == <<writeFailed, dirty>>
vars == <<clocks, stopped, request, pc, found, queries, account,
          lastModelFinishedAt, outcome, report, writes>>

(* quotaObservation: when the answer was read, the reset point, whether it *)
(* is zero percent used, allowed and within the weekly limit; and whether  *)
(* the window was idle then, which only the properties know.  While the    *)
(* answer is under way `checked` is the time it was made.                  *)
Observation == [checked : Nat, reset : Nat, candidate : BOOLEAN,
                idle : BOOLEAN, ok : BOOLEAN]
NoAnswer == [checked |-> 0, reset |-> 0, candidate |-> FALSE, idle |-> FALSE,
             ok |-> FALSE]

(* A slot ("schedule" or "quota_refresh"), a reset_followup, which has a    *)
(* target, or a manual request.                                            *)
Triggers == {"slot", "followup", "manual"}

-----------------------------------------------------------------------------
(* confirmedIdle *)
Remaining(o) == o.checked - o.reset <= Slack

ConfirmedIdle(o1, o2) ==
  /\ o1.candidate /\ o2.candidate
  /\ o2.checked >= o1.checked + MinDelta /\ o2.checked <= o1.checked + MaxDelta
  /\ Remaining(o1) /\ Remaining(o2)
  /\ o2.reset + Tolerance >= o1.reset + (o2.checked - o1.checked)

(* persistState: every failure counts. *)
Written    == dirty' = FALSE /\ UNCHANGED writeFailed
NotWritten == dirty' = TRUE /\ writeFailed' = TRUE
WriteTried == Written \/ NotWritten

-----------------------------------------------------------------------------
Init ==
  /\ now = 1 /\ opened = [a \in Account |-> 0]
  /\ stopped = FALSE
  /\ trigger \in Triggers
  /\ readOnly \in BOOLEAN /\ (readOnly => trigger = "slot")
  /\ pc = "start" /\ found = {}
  /\ fetch = [a \in Account |-> "none"]
  /\ answer = [a \in Account |-> NoAnswer]
  /\ acct = 0 /\ first = NoAnswer
  /\ deadline = 0 /\ checkedAge = 0 /\ lastModelFinishedAt = 0
  /\ outcome = [a \in Account |-> "none"]
  /\ error = "" /\ success = FALSE /\ putBack = FALSE
  /\ writeFailed = FALSE /\ dirty = FALSE

-----------------------------------------------------------------------------
(* The world around the round.                                             *)

(* Time passes while something is waited for: what a step of the round     *)
(* takes adds to the wait before or after it.                              *)
Waiting == \/ pc \in {"spacing", "confirm", "calling"}
           \/ \E a \in found : fetch[a] \in {"asked", "answered"}

Tick == /\ now < MaxTime /\ Waiting
        /\ now' = now + 1
        /\ UNCHANGED <<opened, stopped, request, pc, found, queries, account,
                       lastModelFinishedAt, outcome, report, writes>>

UserOpens == \E a \in Shared :
  /\ opened[a] = 0 /\ Waiting
  /\ opened' = [opened EXCEPT ![a] = now]
  /\ UNCHANGED <<now, stopped, request, pc, found, queries, account,
                 lastModelFinishedAt, outcome, report, writes>>

(* quiesce *)
Stop == /\ ~stopped /\ pc # "done"
        /\ stopped' = TRUE
        /\ UNCHANGED <<clocks, request, pc, found, queries, account,
                       lastModelFinishedAt, outcome, report, writes>>

(* A write fails that nothing else here depends on: a claim of the         *)
(* scheduler, or the delayed retry of a query.  The first failure of the   *)
(* round is enough.                                                        *)
OtherWrite == /\ pc # "done" /\ ~writeFailed
              /\ NotWritten
              /\ UNCHANGED <<clocks, stopped, request, pc, found, queries,
                             account, lastModelFinishedAt, outcome, report>>

(* fetchUsage: the upstream answers, the answer arrives or is rejected; or *)
(* there is none.                                                          *)
AnswerMade(a) ==
  /\ fetch[a] = "asked"
  /\ \E candidate \in BOOLEAN :
       answer' = [answer EXCEPT ![a] =
                    [checked |-> now,
                     reset |-> IF opened[a] = 0 THEN now ELSE opened[a],
                     candidate |-> candidate, idle |-> opened[a] = 0,
                     ok |-> TRUE]]
  /\ fetch' = [fetch EXCEPT ![a] = "answered"]

AnswerRead(a) ==
  /\ fetch[a] = "answered"
  /\ answer' = [answer EXCEPT ![a] = IF now - answer[a].checked <= Slack
                                     THEN [@ EXCEPT !.checked = now]
                                     ELSE NoAnswer]
  /\ fetch' = [fetch EXCEPT ![a] = "done"]

NoAnswerRead(a) ==
  /\ fetch[a] = "asked"
  /\ answer' = [answer EXCEPT ![a] = NoAnswer]
  /\ fetch' = [fetch EXCEPT ![a] = "done"]

FetchUsage ==
  /\ \E a \in Account : AnswerMade(a) \/ AnswerRead(a) \/ NoAnswerRead(a)
  /\ UNCHANGED <<clocks, stopped, request, pc, found, account,
                 lastModelFinishedAt, outcome, report, writes>>

-----------------------------------------------------------------------------
(* fetchInitialUsagesUntil: a goroutine for each account.                  *)

Holding(a) == fetch[a] \in {"holding", "asked", "answered"}

(* Mutant of Acquire: no semaphore. *)
AcquireAlways(a) ==
  /\ fetch[a] = "waiting"
  /\ fetch' = [fetch EXCEPT ![a] = "holding"]

(* The select takes the semaphore or sees the stop. *)
Acquire(a) ==
  /\ fetch[a] = "waiting"
  /\ Cardinality({b \in Account : Holding(b)}) < MaxFetches
  /\ fetch' = [fetch EXCEPT ![a] = "holding"]

(* Mutant of AskFirst: the stop is not looked at again. *)
AskFirstAnyway(a) ==
  /\ fetch[a] = "holding"
  /\ fetch' = [fetch EXCEPT ![a] = "asked"]

AskFirst(a) ==
  /\ fetch[a] = "holding" /\ ~stopped
  /\ fetch' = [fetch EXCEPT ![a] = "asked"]

GiveUp(a) ==
  /\ fetch[a] \in {"waiting", "holding"} /\ stopped
  /\ fetch' = [fetch EXCEPT ![a] = "done"]

FirstQueries ==
  /\ pc = "fetch"
  /\ \E a \in found : Acquire(a) \/ AskFirst(a) \/ GiveUp(a)
  /\ UNCHANGED <<clocks, stopped, request, pc, found, answer, account,
                 lastModelFinishedAt, outcome, report, writes>>

-----------------------------------------------------------------------------
(* executeRun.                                                             *)

Interrupted == error' = "interrupted" /\ pc' = "finish"

Start ==
  /\ pc = "start"
  /\ IF stopped THEN Interrupted ELSE pc' = "inventory" /\ UNCHANGED error
  /\ UNCHANGED <<found, queries, account, lastModelFinishedAt, outcome,
                 success, putBack, writes>>

(* listCodexAuths, abortForAccountCount and the choice of the target. *)
Inventory ==
  /\ pc = "inventory"
  /\ \/ \E listed \in SUBSET Account :
          \E selected \in IF trigger = "followup"
                         THEN {listed \cap {a} : a \in Account} ELSE {listed} :
             IF selected # {} /\ Expected \in {0, Cardinality(listed)}
             THEN /\ found' = selected
                  /\ fetch' = [a \in Account |-> IF a \in selected
                                                 THEN "waiting" ELSE "none"]
                  /\ pc' = "fetch" /\ UNCHANGED error
             ELSE error' = "unavailable" /\ pc' = "finish" /\ UNCHANGED <<found, fetch>>
     \/ error' = "unavailable" /\ pc' = "finish" /\ UNCHANGED <<found, fetch>>
  /\ UNCHANGED <<answer, account, lastModelFinishedAt, outcome, success,
                 putBack, writes>>

FetchesDone ==
  /\ pc = "fetch" /\ \A a \in found : fetch[a] = "done"
  /\ IF stopped THEN Interrupted ELSE pc' = "next" /\ UNCHANGED error
  /\ UNCHANGED <<found, queries, account, lastModelFinishedAt, outcome,
                 success, putBack, writes>>

(* The account in hand gets its entry in record.Accounts. *)
Counted(result) ==
  /\ outcome' = [outcome EXCEPT ![acct] = result]
  /\ pc' = "next"

Left == {a \in found : outcome[a] = "none"}

(* The next account; the end of the loop. *)
NextAccount ==
  /\ pc = "next"
  /\ IF Left = {}
     THEN /\ pc' = "finish"
          /\ error' = IF \E a \in found : outcome[a] \in {"failed", "cut"}
                      THEN "failed" ELSE error
          /\ acct' = 0 /\ first' = NoAnswer
          /\ UNCHANGED answer
     ELSE IF stopped
     THEN Interrupted /\ UNCHANGED <<acct, first, answer>>
     ELSE LET a == Min(Left) IN
          /\ acct' = a /\ first' = answer[a]
          /\ answer' = [answer EXCEPT ![a] = NoAnswer]
          /\ pc' = "check" /\ UNCHANGED error
  /\ deadline' = 0 /\ checkedAge' = 0
  /\ UNCHANGED <<fetch, found, lastModelFinishedAt, outcome, success,
                 putBack, writes>>

TurnAt == IF lastModelFinishedAt = 0 THEN now ELSE lastModelFinishedAt + Spacing

(* The first observation is saved.  The account is left alone if the round *)
(* only reads, for a limit of the account (warmLimitReason) or as not      *)
(* selected; otherwise it waits for its turn.                              *)
CheckAccount ==
  /\ pc = "check"
  /\ \/ ~first.ok /\ WriteTried /\ Counted("failed") /\ UNCHANGED deadline
     \/ first.ok /\ NotWritten /\ Counted("failed") /\ UNCHANGED deadline
     \/ /\ first.ok /\ Written
        /\ \/ Counted("skipped") /\ UNCHANGED deadline
           \/ /\ ~readOnly /\ first.candidate
              /\ deadline' = TurnAt
              /\ pc' = "spacing" /\ UNCHANGED outcome
  /\ UNCHANGED <<found, queries, acct, first, checkedAge,
                 lastModelFinishedAt, report>>

(* Mutant of WaitStopped: the stop is looked at when the time is over. *)
WaitSleeps ==
  /\ pc \in {"spacing", "confirm"} /\ stopped /\ now >= deadline
  /\ Interrupted
  /\ UNCHANGED <<found, queries, account, lastModelFinishedAt, outcome,
                 success, putBack, writes>>

(* waitForRun *)
WaitStopped ==
  /\ pc \in {"spacing", "confirm"} /\ stopped
  /\ Interrupted
  /\ UNCHANGED <<found, queries, account, lastModelFinishedAt, outcome,
                 success, putBack, writes>>

Waited(p) == pc = p /\ ~stopped /\ now >= deadline

AskAgain == fetch' = [fetch EXCEPT ![acct] = "asked"]

(* Mutant of ConfirmDeadline: the least distance of the two is waited.     *)
ConfirmAfterMinDelta == now + MinDelta

ConfirmDeadline == now + ConfirmWait

(* Mutant of TooOld: the first observation is always fresh enough. *)
NeverTooOld == FALSE

TooOld == now - first.checked > MaxAge

SpacingOver ==
  /\ Waited("spacing")
  /\ checkedAge' = now
  /\ IF TooOld
     THEN pc' = "refresh" /\ AskAgain /\ UNCHANGED deadline
     ELSE pc' = "confirm" /\ deadline' = ConfirmDeadline /\ UNCHANGED fetch
  /\ UNCHANGED <<found, answer, acct, first, lastModelFinishedAt,
                 outcome, report, writes>>

Refreshed ==
  /\ pc = "refresh" /\ fetch[acct] = "done"
  /\ answer' = [answer EXCEPT ![acct] = NoAnswer]
  /\ first' = IF answer[acct].ok THEN answer[acct] ELSE first
  /\ \/ ~answer[acct].ok /\ WriteTried /\ Counted("failed") /\ UNCHANGED deadline
     \/ answer[acct].ok /\ NotWritten /\ Counted("failed") /\ UNCHANGED deadline
     \/ /\ answer[acct].ok /\ Written
        /\ IF answer[acct].candidate
           THEN pc' = "confirm" /\ deadline' = ConfirmDeadline /\ UNCHANGED outcome
           ELSE Counted("skipped") /\ UNCHANGED deadline
  /\ UNCHANGED <<found, fetch, acct, checkedAge, lastModelFinishedAt,
                 report>>

ConfirmOver ==
  /\ Waited("confirm")
  /\ AskAgain
  /\ pc' = "second"
  /\ UNCHANGED <<found, answer, account, lastModelFinishedAt, outcome, report,
                 writes>>

Judge ==
  /\ pc = "second" /\ fetch[acct] = "done"
  /\ answer' = [answer EXCEPT ![acct] = NoAnswer]
  /\ \/ ~answer[acct].ok /\ WriteTried /\ Counted("failed")
     \/ answer[acct].ok /\ NotWritten /\ Counted("failed")
     \/ /\ answer[acct].ok /\ Written
        /\ IF ConfirmedIdle(first, answer[acct])
           THEN pc' = "confirmed" /\ UNCHANGED outcome
           ELSE Counted("skipped")
  /\ UNCHANGED <<found, fetch, acct, first, deadline, checkedAge,
                 lastModelFinishedAt, report>>

(* The account is left alone for a limit after all (warmLimitReason), or   *)
(* as the round observes only or is a dry run; or it is called.            *)
Confirmed ==
  /\ pc = "confirmed"
  /\ \/ Counted("skipped") /\ UNCHANGED error
     \/ stopped /\ Interrupted /\ UNCHANGED outcome
     \/ ~stopped /\ pc' = "call" /\ UNCHANGED <<outcome, error>>
  /\ UNCHANGED <<found, queries, account, lastModelFinishedAt, success,
                 putBack, writes>>

(* executeAccountWithGuard: no reservation, at the limit or as its write   *)
(* fails or as a stop comes first.                                         *)
CallRefused ==
  /\ pc = "call"
  /\ \/ Counted("failed") /\ UNCHANGED error /\ (NotWritten \/ UNCHANGED writes)
     \/ /\ stopped /\ Interrupted /\ UNCHANGED writes
        /\ outcome' = [outcome EXCEPT ![acct] = "cut"]
  /\ UNCHANGED <<found, queries, account, lastModelFinishedAt, success,
                 putBack>>

(* A reservation is written, and attempts follow unless a stop comes in    *)
(* between.  The window they open is looked at by later rounds.            *)
CallBegins ==
  /\ pc = "call"
  /\ Written
  /\ pc' = "calling"
  /\ UNCHANGED <<found, queries, account, lastModelFinishedAt, outcome, report>>

(* recordAccountResult writes whatever came of it. *)
CallEnds ==
  /\ pc = "calling"
  /\ lastModelFinishedAt' = now
  /\ \/ Counted("succeeded") /\ UNCHANGED error
     \/ Counted("failed") /\ UNCHANGED error
     \/ /\ stopped /\ Interrupted
        /\ outcome' = [outcome EXCEPT ![acct] = "cut"]
  /\ WriteTried
  /\ UNCHANGED <<found, queries, account, success, putBack>>

-----------------------------------------------------------------------------
(* The deferred part: the record is completed and reported.                *)

(* Mutant of Reported: a failed write hides that the round was cut short. *)
ReportedWriteFirst == IF writeFailed THEN "state_write_failed" ELSE error

Reported == IF writeFailed /\ error # "interrupted" THEN "state_write_failed"
            ELSE error

(* requeueInterrupted has a case for a slot, whose StartedAt it clears, and *)
(* for a follow-up, which gets its time back; a manual request is gone.    *)
MayPutBack == trigger # "manual"

Finish ==
  /\ pc = "finish"
  /\ error' = Reported
  /\ success' = (error' = "" /\ found # {}
                 /\ \A a \in found : outcome[a] \in {"succeeded", "skipped"})
  /\ putBack' = (error' = "interrupted" /\ MayPutBack)
  /\ dirty' = (dirty \/ putBack')
  /\ pc' = IF putBack' THEN "requeue" ELSE "notify"
  /\ UNCHANGED <<found, queries, account, lastModelFinishedAt, outcome,
                 writeFailed>>

(* requeueInterrupted, the write; a failure is logged only.                *)
SaveRequeue ==
  /\ pc = "requeue"
  /\ WriteTried
  /\ pc' = "notify"
  /\ UNCHANGED <<found, queries, account, lastModelFinishedAt, outcome, report>>

RecordNotifications ==
  /\ pc = "notify"
  /\ WriteTried \/ UNCHANGED writes
  /\ pc' = "append"
  /\ UNCHANGED <<found, queries, account, lastModelFinishedAt, outcome, report>>

(* Mutant of AppendFailed: the record keeps what it says. *)
AppendFailedUnnoticed == UNCHANGED <<error, success>>

AppendFailed == error' = "state_write_failed" /\ success' = FALSE

AppendRun ==
  /\ pc = "append"
  /\ \/ Written /\ UNCHANGED <<error, success>>
     \/ NotWritten /\ AppendFailed
  /\ pc' = "done"
  /\ UNCHANGED <<found, queries, account, lastModelFinishedAt, outcome,
                 putBack>>

Step ==
  /\ \/ Start \/ Inventory \/ FetchesDone \/ NextAccount \/ CheckAccount
     \/ WaitStopped \/ SpacingOver \/ Refreshed \/ ConfirmOver \/ Judge
     \/ Confirmed \/ CallRefused \/ CallBegins \/ CallEnds
     \/ Finish \/ SaveRequeue \/ RecordNotifications \/ AppendRun
  /\ UNCHANGED <<clocks, stopped, request>>

Work == Step \/ FirstQueries \/ FetchUsage

Next == Work \/ Tick \/ UserOpens \/ Stop \/ OtherWrite

Spec == Init /\ [][Next]_vars

(* Goroutines that can run do, and the host's callbacks return. *)
FairSpec == Spec /\ WF_vars(Work)

-----------------------------------------------------------------------------
(* The account in hand has no entry in the record yet. *)
InHand == pc \in {"check", "spacing", "refresh", "confirm", "second",
                  "confirmed", "call", "calling"}

TypeOK ==
  /\ now \in Nat /\ opened \in [Account -> Nat]
  /\ stopped \in BOOLEAN
  /\ trigger \in Triggers /\ readOnly \in BOOLEAN
  /\ pc \in {"start", "inventory", "fetch", "next", "check", "spacing",
             "refresh", "confirm", "second", "confirmed", "call", "calling",
             "finish", "requeue", "notify", "append", "done"}
  /\ found \subseteq Account
  /\ fetch \in [Account -> {"none", "waiting", "holding", "asked", "answered",
                            "done"}]
  /\ answer \in [Account -> Observation]
  /\ acct \in found \cup {0}
  /\ InHand => outcome[acct] = "none"
  /\ first \in Observation
  /\ {deadline, checkedAge, lastModelFinishedAt} \subseteq Nat
  /\ Cardinality({a \in Account : Holding(a)}) <= MaxFetches
  /\ outcome \in [Account -> {"none", "skipped", "failed", "succeeded", "cut"}]
  /\ error \in {"", "unavailable", "interrupted", "failed",
                "state_write_failed"}
  /\ {success, putBack, writeFailed, dirty} \subseteq BOOLEAN

(* No query begins after a stop, although goroutines wait for the semaphore *)
(* when it comes and the select may still give it to them.                 *)
NoQueryAfterStop ==
  [][stopped => \A a \in Account : fetch'[a] = "asked" => fetch[a] = "asked"]_vars

(* A window that was in use when the first answer was made is never taken  *)
(* for an idle one, however late the answers and the turn of the account   *)
(* are: who prewarms it then would waste a call (README: two observations  *)
(* with a moving reset point).                                             *)
ConfirmedWasIdle ==
  pc = "confirmed" => first.idle

(* An idle account is confirmed when its second answer is on its way not   *)
(* much longer than the first and comes within MaxDelta - MaxAge of the    *)
(* look at the age of the first: a long wait for its turn does not make    *)
(* the pair useless.                                                       *)
Prompt(o) == /\ o.checked - checkedAge <= MaxDelta - MaxAge
             /\ o.checked - o.reset <= first.checked - first.reset + Tolerance

IdleIsConfirmed ==
  [][(/\ pc = "second" /\ pc' # "second"
      /\ first.candidate /\ answer[acct].candidate
      /\ first.idle /\ answer[acct].idle /\ Prompt(answer[acct]))
     => pc' = "confirmed" \/ outcome'[acct] = "failed"]_vars

(* A round of the scheduler that a stop cut short, so that an account has   *)
(* no entry or an interrupted one, leaves its claim open for another round *)
(* whatever other writes fail: it is open in memory, and in the state file *)
(* too unless the record reports a failed write.  No other round is        *)
(* repeated (requeueInterrupted: "Put it back").                           *)
CutShort == \/ \E a \in found : outcome[a] \in {"none", "cut"}
            \/ found = {} /\ error = "interrupted"

CutShortIsPutBack ==
  pc = "done" =>
    /\ CutShort /\ trigger # "manual" =>
         putBack /\ (~dirty \/ error = "state_write_failed")
    /\ putBack => found = {} \/ CutShort

(* A round that reports success has an entry without a failure for every   *)
(* account it found, and the state it left behind is in the state file.    *)
SuccessIsHonest ==
  pc = "done" /\ success =>
    /\ ~dirty /\ ~putBack
    /\ found # {} /\ \A a \in found : outcome[a] \in {"succeeded", "skipped"}

(* A stop ends the round: no wait outlasts it and no query is waited for   *)
(* that is not answered (quiesce waits for the round).                     *)
StopEndsRound == []<>(stopped => pc = "done")
=============================================================================
