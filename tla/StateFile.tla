----------------------------- MODULE StateFile ------------------------------
(***************************************************************************)
(* Who writes the state file and who reads it: persistState with its       *)
(* mutex, the display of account names (account_display.go) that is        *)
(* switched by the management interface and refreshed by every round, and  *)
(* configure's choice of the file (runtime.go), while operators delete or  *)
(* damage files, writes fail and the process dies.                         *)
(*                                                                         *)
(* Of the state only what the properties are about is kept: the calls in   *)
(* AttemptTimes and in the history of the rounds, of one account, whether  *)
(* there is any other state that configure must not lose, and whether      *)
(* account names are displayed; they are stored only while they are.       *)
(* The host calls the management interface and starts rounds after a       *)
(* configure that succeeded.  The gate, the queue and the waits of quiesce *)
(* are in Lifecycle.                                                       *)
(***************************************************************************)
EXTENDS Naturals, FiniteSets

CONSTANTS Path,        \* state files
          DefaultPath, \* of defaultPluginConfig
          MaxCalls,    \* bound: model calls
          MaxDamages,  \* bound: files deleted or damaged
          MaxFailures, \* bound: writes that fail
          MaxCrashes   \* bound: deaths of the process

ASSUME StateFileAssumption ==
  /\ DefaultPath \in Path
  /\ {MaxCalls, MaxDamages, MaxFailures, MaxCrashes} \subseteq Nat

VARIABLES
  file,       \* file[p]: the state file: "ok", "missing" or "corrupt", and
              \*          what is in it
  mem,        \* r.state
  path,       \* r.cfg.StatePath
  registered, \* a configure of this process succeeded
  closed,     \* r.closed
  op,         \* the operation that holds lifecycleMu
  thread,     \* the round and the scheduler loop: where they are
  snapshot,   \* snapshot[w]: the clone that w writes
  persistMu,  \* its holder
  displayMu,  \* its holder
  paid,       \* paid[p]: the calls made while p was installed
  confirmed,  \* confirmed[p]: the setting last confirmed to the user
  damaged,    \* the files damaged since they were written
  calls, damages, failures, crashes  \* counters of the bounds

mutexes == <<persistMu, displayMu>>
ghosts  == <<paid, confirmed, damaged>>
bounds  == <<calls, damages, crashes>>
vars == <<file, mem, path, registered, closed, op, thread, snapshot, mutexes,
          ghosts, bounds, failures>>

Call == 0..MaxCalls   \* 0 is a call made by version 0.4
(* What else there may be as long as there is no call: planned slots,      *)
(* which a failed write takes back, and the rest: windows of accounts,     *)
(* records of rounds, marks of days and the cursor of the digest.          *)
Other == {"slots", "rest"}

State == [attempts : SUBSET Call, history : SUBSET Call, other : SUBSET Other,
          display : BOOLEAN]
NewState == [attempts |-> {}, history |-> {}, other |-> {}, display |-> FALSE]
V04File  == [is |-> "ok", state |-> [NewState EXCEPT !.history = {0}]]
NoFile(why) == [is |-> why, state |-> NewState]

Missing(p) == file[p].is = "missing"
Corrupt(p) == file[p].is = "corrupt"
Legible(p) == file[p].is = "ok"

Worker == {"round", "loop"}
NoOp == [kind |-> "none", pc |-> "idle", target |-> DefaultPath,
         enabled |-> FALSE, had |-> FALSE, open |-> FALSE, since |-> 0]

-----------------------------------------------------------------------------
(* hadState: something would be lost. *)
HadState == mem.attempts # {} \/ mem.history # {} \/ mem.other # {}

(* The state with something new in it; once there is a call this is not    *)
(* followed any more, as the call is state enough.                         *)
Grown(s, new) ==
  IF s.attempts \cup s.history = {} THEN [s EXCEPT !.other = @ \cup new] ELSE s

(* readState: an account without attempts gets those of its history (files *)
(* of version 0.4 have no attempts).                                       *)
Imported(s) ==
  IF s.attempts = {} THEN [s EXCEPT !.attempts = s.history] ELSE s

Read(p) == Imported(file[p].state)

(* writeState: a temporary file takes the place of the old one, or fails.  *)
Written(s) ==
  /\ file' = [file EXCEPT ![path] = [is |-> "ok", state |-> s]]
  /\ damaged' = damaged \ {path}
  /\ UNCHANGED failures

NotWritten ==
  /\ failures < MaxFailures
  /\ failures' = failures + 1
  /\ UNCHANGED <<file, damaged>>

Init ==
  /\ file \in [Path -> {NoFile("missing"), V04File}]
  /\ mem = NewState /\ path = DefaultPath
  /\ registered = FALSE /\ closed = FALSE
  /\ op = NoOp
  /\ thread = [w \in Worker |-> "idle"]
  /\ snapshot = [w \in Worker |-> NewState]
  /\ persistMu = "free" /\ displayMu = "free"
  /\ paid = [p \in Path |-> IF Missing(p) THEN {} ELSE {0}]
  /\ confirmed = [p \in Path |-> FALSE]
  /\ damaged = {}
  /\ calls = 0 /\ damages = 0 /\ failures = 0 /\ crashes = 0

-----------------------------------------------------------------------------
(* Mutant of Clone: persistState without its mutex. *)
CloneUnlocked(w, from, to) ==
  /\ thread[w] = from
  /\ persistMu' = w
  /\ snapshot' = [snapshot EXCEPT ![w] = mem]
  /\ thread' = [thread EXCEPT ![w] = to]
  /\ UNCHANGED <<file, mem, displayMu, ghosts, calls, failures>>

(* persistState: the clone is taken and written under persistMu. *)
Clone(w, from, to) ==
  /\ thread[w] = from
  /\ persistMu = "free" /\ persistMu' = w
  /\ snapshot' = [snapshot EXCEPT ![w] = mem]
  /\ thread' = [thread EXCEPT ![w] = to]
  /\ UNCHANGED <<file, mem, displayMu, ghosts, calls, failures>>

Release(w, to) ==
  /\ persistMu' = "free"
  /\ snapshot' = [snapshot EXCEPT ![w] = NewState]
  /\ thread' = [thread EXCEPT ![w] = to]

Goes(w, from, to) ==
  /\ thread[w] = from
  /\ thread' = [thread EXCEPT ![w] = to]

(* The scheduler loop and the cron callbacks write at any time, something  *)
(* new or not: a slot is planned, or the first digest is.  A planned slot  *)
(* that is not written is taken back (planSlot).                           *)
LoopChanges ==
  /\ ~closed /\ registered
  /\ Goes("loop", "idle", "clone")
  /\ \E o \in Other : mem' = Grown(mem, {o}) /\ mem' # mem
  /\ UNCHANGED <<file, snapshot, mutexes, ghosts, calls, failures>>

LoopWrites ==
  /\ thread["loop"] = "write"
  /\ \/ Written(snapshot["loop"]) /\ UNCHANGED mem
     \/ NotWritten /\ mem' \in {mem, [mem EXCEPT !.other = @ \ {"slots"}]}
  /\ Release("loop", "idle")
  /\ UNCHANGED <<displayMu, paid, confirmed, calls>>

LoopPersists ==
  \/ LoopChanges \/ Clone("loop", "clone", "write")
  \/ ~closed /\ registered /\ Clone("loop", "idle", "write")
  \/ LoopWrites

RoundBegins ==
  /\ ~closed /\ registered
  /\ Goes("round", "idle", "refresh")
  /\ UNCHANGED <<file, mem, snapshot, mutexes, ghosts, calls, failures>>

(* Mutant of RefreshBegins: the setting is read before the mutex is taken. *)
RefreshBeginsUnlocked ==
  /\ IF thread["round"] = "refresh"
     THEN /\ Goes("round", "refresh", IF mem.display THEN "lock" ELSE "query")
          /\ UNCHANGED displayMu
     ELSE /\ displayMu = "free" /\ displayMu' = "round"
          /\ Goes("round", "lock", "load")
  /\ UNCHANGED <<file, mem, snapshot, persistMu, ghosts, calls, failures>>

(* refreshAccountDisplay: if names are displayed they are loaded again.    *)
RefreshBegins ==
  /\ thread["round"] = "refresh" /\ displayMu = "free"
  /\ IF mem.display
     THEN displayMu' = "round" /\ Goes("round", "refresh", "load")
     ELSE UNCHANGED displayMu /\ Goes("round", "refresh", "query")
  /\ UNCHANGED <<file, mem, snapshot, persistMu, ghosts, calls, failures>>

(* Mutant of LoadFails: the mutex is kept. *)
LoadFailsLocked ==
  /\ Goes("round", "load", "query")
  /\ UNCHANGED <<file, mem, snapshot, mutexes, ghosts, calls, failures>>

LoadFails ==
  /\ Goes("round", "load", "query")
  /\ displayMu' = "free"
  /\ UNCHANGED <<file, mem, snapshot, persistMu, ghosts, calls, failures>>

(* saveAccountDisplay holds every mutex; a failed write takes it back.     *)
SaveDisplay(enabled) ==
  /\ persistMu = "free"
  /\ LET next == [mem EXCEPT !.display = enabled]
     IN \/ Written(next) /\ mem' = next
        \/ NotWritten /\ UNCHANGED mem

RefreshSaved ==
  /\ Goes("round", "load", "query")
  /\ SaveDisplay(TRUE)
  /\ displayMu' = "free"
  /\ UNCHANGED <<snapshot, persistMu, paid, confirmed, calls>>

(* saveQuota and saveQuotaFailure: an account gets its window.  This write *)
(* is one step; those of the loop, the reservation and the record are two. *)
SaveQuota ==
  /\ Goes("round", "query", "reserve")
  /\ persistMu = "free"
  /\ mem' = Grown(mem, {"rest"})
  /\ Written(mem') \/ NotWritten
  /\ UNCHANGED <<snapshot, mutexes, paid, confirmed, calls>>

(* reserveAttempt. *)
Reserve ==
  /\ ~closed /\ calls < MaxCalls
  /\ Goes("round", "reserve", "clone")
  /\ calls' = calls + 1
  /\ mem' = [mem EXCEPT !.attempts = @ \cup {calls + 1}, !.other = {}]
  /\ UNCHANGED <<file, snapshot, mutexes, ghosts, failures>>

WriteReservation ==
  /\ thread["round"] = "write"
  /\ \/ Written(snapshot["round"]) /\ Release("round", "send")
     \/ NotWritten /\ Release("round", "append")
  /\ UNCHANGED <<mem, displayMu, paid, confirmed, calls>>

Send ==
  /\ Goes("round", "send", "append")
  /\ paid' = [paid EXCEPT ![path] = @ \cup {calls}]
  /\ UNCHANGED <<file, mem, snapshot, mutexes, confirmed, damaged, calls, failures>>

(* The record of every round joins the history, calls or not.              *)
AppendRun ==
  /\ thread["round"] \in {"query", "reserve", "append"}
  /\ Goes("round", thread["round"], "cloneRun")
  /\ mem' = IF thread["round"] = "append"
            THEN [mem EXCEPT !.history = @ \cup {calls}]
            ELSE Grown(mem, {"rest"})
  /\ UNCHANGED <<file, snapshot, mutexes, ghosts, calls, failures>>

WriteRun ==
  /\ thread["round"] = "writeRun"
  /\ Written(snapshot["round"]) \/ NotWritten
  /\ Release("round", "idle")
  /\ UNCHANGED <<mem, displayMu, paid, confirmed, calls>>

Work ==
  /\ \/ LoopPersists
     \/ RoundBegins \/ RefreshBegins \/ LoadFails \/ RefreshSaved
     \/ SaveQuota
     \/ Reserve \/ Clone("round", "clone", "write") \/ WriteReservation \/ Send
     \/ AppendRun \/ Clone("round", "cloneRun", "writeRun") \/ WriteRun
  /\ UNCHANGED <<path, registered, closed, op, damages, crashes>>

-----------------------------------------------------------------------------
(* setAccountDisplay, for the management interface. *)
SetBegins ==
  /\ op = NoOp /\ registered /\ displayMu = "free"
  /\ \E enabled \in BOOLEAN :
       op' = [NoOp EXCEPT !.kind = "display", !.pc = "save", !.enabled = enabled]
  /\ displayMu' = "op"
  /\ UNCHANGED <<file, mem, path, registered, closed, thread, snapshot,
                 persistMu, ghosts, bounds, failures>>

SetReturns == op' = NoOp /\ displayMu' = "free"

SetSaved ==
  /\ op.kind = "display"
  /\ SetReturns
  /\ \/ /\ SaveDisplay(op.enabled)
        /\ confirmed' = IF file' # file
                        THEN [confirmed EXCEPT ![path] = op.enabled] ELSE confirmed
     \/ op.enabled /\ UNCHANGED <<file, mem, confirmed, damaged, failures>>
  /\ UNCHANGED <<path, registered, closed, thread, snapshot, persistMu, paid,
                 bounds>>

-----------------------------------------------------------------------------
(* configure and quiesceOnly. *)

Idle == \A w \in Worker : thread[w] = "idle"

Returns == op' = NoOp

ConfigureBegins ==
  /\ op = NoOp
  /\ \E target \in Path :
       op' = [NoOp EXCEPT !.kind = "configure", !.target = target,
                          !.pc = IF target # path THEN "validate" ELSE "quiesce",
                          !.had = HadState, !.open = ~closed,
                          !.since = damages]
  /\ UNCHANGED <<file, mem, path, registered, closed>>

QuiesceBegins ==
  /\ op = NoOp
  /\ op' = [NoOp EXCEPT !.kind = "quiesce", !.pc = "quiesce"]
  /\ UNCHANGED <<file, mem, path, registered, closed>>

(* Mutant of Validate: the old scheduler is stopped first. *)
ValidateStopped ==
  /\ op.pc = "validate"
  /\ op' = [op EXCEPT !.pc = "quiesce"]
  /\ UNCHANGED <<file, mem, path, registered, closed>>

(* Another file is looked at before the healthy scheduler is stopped. *)
Unusable(p, had) == Corrupt(p) \/ (Missing(p) /\ had)

Validate ==
  /\ op.pc = "validate"
  /\ op' = [op EXCEPT !.pc = IF ~Unusable(op.target, op.had) THEN "quiesce"
                             ELSE IF Corrupt(path) THEN "close" ELSE "refused"]
  /\ UNCHANGED <<file, mem, path, registered, closed>>

Quiesce ==
  /\ op.pc \in {"quiesce", "close"}
  /\ closed' = TRUE
  /\ op' = [op EXCEPT !.pc = IF op.pc = "close" THEN "drained"
                             ELSE IF op.kind = "quiesce" THEN "drained" ELSE "read"]
  /\ UNCHANGED <<file, mem, path, registered>>

(* The rounds are over; the file is read again.                            *)
Refuse ==
  /\ op.pc = "read" /\ Idle
  /\ Unusable(op.target, HadState)
  /\ op' = [op EXCEPT !.pc = "refused"]
  /\ UNCHANGED <<file, mem, path, registered, closed>>

Return ==
  /\ op.pc = "refused" \/ (op.pc = "drained" /\ Idle)
  /\ Returns
  /\ UNCHANGED <<file, mem, path, registered, closed>>

Control ==
  /\ \/ ConfigureBegins \/ QuiesceBegins \/ Validate \/ Quiesce \/ Refuse \/ Return
  /\ UNCHANGED <<thread, snapshot, mutexes, ghosts, bounds, failures>>

(* Mutant of Usable: a missing file is a new one. *)
UsableIfNotCorrupt == ~Corrupt(op.target)

Usable == ~Unusable(op.target, HadState)

(* What an operator destroyed is forgotten with the memory that held it.   *)
(* The refusal of a missing file protects the history of the calls, not    *)
(* the setting.                                                            *)
Install ==
  /\ op.pc = "read" /\ Idle
  /\ Usable
  /\ mem' = Read(op.target)
  /\ path' = op.target
  /\ registered' = TRUE /\ closed' = FALSE
  /\ Returns
  /\ paid' = IF path \in damaged /\ op.target # path
             THEN [paid EXCEPT ![path] = {}] ELSE paid
  /\ confirmed' = IF path \in damaged
                  THEN [confirmed EXCEPT ![path] = FALSE] ELSE confirmed
  /\ UNCHANGED <<file, thread, snapshot, mutexes, damaged, bounds, failures>>

-----------------------------------------------------------------------------
(* An operator deletes or damages a file; if it is not the one installed   *)
(* nobody remembers what was in it.                                        *)
Damage ==
  /\ damages < MaxDamages /\ damages' = damages + 1
  /\ \E p \in Path, what \in {"missing", "corrupt"} :
       /\ file[p].is # what /\ ~(Missing(p) /\ what = "corrupt")
       /\ file' = [file EXCEPT ![p] = NoFile(what)]
       /\ damaged' = damaged \cup {p}
       /\ IF p # path \/ ~registered
          THEN /\ paid' = [paid EXCEPT ![p] = {}]
               /\ confirmed' = [confirmed EXCEPT ![p] = FALSE]
          ELSE UNCHANGED <<paid, confirmed>>
  /\ UNCHANGED <<mem, path, registered, closed, op, thread, snapshot, mutexes,
                 calls, failures, crashes>>

CrashAndRestart ==
  /\ crashes < MaxCrashes /\ crashes' = crashes + 1
  /\ mem' = NewState /\ path' = DefaultPath
  /\ registered' = FALSE /\ closed' = FALSE
  /\ op' = NoOp
  /\ thread' = [w \in Worker |-> "idle"]
  /\ snapshot' = [w \in Worker |-> NewState]
  /\ persistMu' = "free" /\ displayMu' = "free"
  /\ paid' = [p \in Path |-> IF p \in damaged THEN {} ELSE paid[p]]
  /\ confirmed' = [p \in Path |-> IF p \in damaged THEN FALSE ELSE confirmed[p]]
  /\ UNCHANGED <<file, damaged, calls, damages, failures>>

Next ==
  \/ Work
  \/ SetBegins \/ SetSaved
  \/ Control \/ Install
  \/ Damage \/ CrashAndRestart

Spec == Init /\ [][Next]_vars

-----------------------------------------------------------------------------
TypeOK ==
  /\ file \in [Path -> [is : {"ok", "missing", "corrupt"}, state : State]]
  /\ mem \in State
  /\ path \in Path
  /\ {registered, closed} \subseteq BOOLEAN
  /\ op.kind \in {"none", "display", "configure", "quiesce"}
  /\ op.target \in Path
  /\ thread \in [Worker -> {"idle", "refresh", "load", "query", "reserve",
                            "clone", "write", "send", "append", "cloneRun",
                            "writeRun"}]
  /\ snapshot \in [Worker -> State]
  /\ persistMu \in Worker \cup {"free"}
  /\ displayMu \in {"free", "round", "op"}
  /\ paid \in [Path -> SUBSET Call]
  /\ confirmed \in [Path -> BOOLEAN]
  /\ damaged \subseteq Path
  /\ \A w \in Worker : persistMu = w <=> thread[w] \in {"write", "writeRun"}
  /\ displayMu = "round" <=> thread["round"] = "load"
  /\ displayMu = "op" <=> op.kind = "display"

(* A call that was made is in the file that was installed when it was      *)
(* made, whoever else writes it, until somebody destroys the file: the     *)
(* restart that follows a crash at any moment counts it.                   *)
CallsAreStored ==
  \A p \in Path \ damaged : paid[p] \subseteq Read(p).attempts

(* And while the plugin is configured the call is in its memory: no        *)
(* sequence of reconfigurations, refused or not, makes it forget a call    *)
(* that it knew although the file is gone (README: a missing or damaged    *)
(* state file is refused instead of starting from nothing).                *)
CallsAreRemembered == registered => paid[path] \subseteq mem.attempts

(* The setting confirmed to the user is the one in force and in the file:  *)
(* a refresh under way when the names are switched off does not bring them *)
(* back, and a save that fails changes nothing.                            *)
DisplayAsConfirmed ==
  registered /\ displayMu = "free" =>
    /\ mem.display = confirmed[path]
    /\ path \notin damaged /\ Legible(path) => file[path].state.display = confirmed[path]

(* A configure that is refused because of the file it was to change to     *)
(* leaves the plugin running as it was (the comment in configure: validate *)
(* a different target before stopping the healthy old scheduler).  Two     *)
(* cases are excepted: a file was destroyed meanwhile, or the new file is  *)
(* missing and the first state of the process, be it a slot or a record,   *)
(* came about after the first look at hadState.                            *)
HealthyKeepsRunning ==
  /\ op.pc = "refused" /\ op.target # path /\ op.open
  /\ ~Corrupt(path) /\ damages = op.since
  /\ op.had \/ ~HadState \/ ~Missing(op.target)
  => ~closed
=============================================================================
