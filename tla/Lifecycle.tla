----------------------------- MODULE Lifecycle ------------------------------
(***************************************************************************)
(* The life of the plugin around its rounds (runtime.go, scheduler.go):    *)
(* configure, quiesce, shutdown and the account-display setting under      *)
(* lifecycleMu, the admission gate and the queue of startRunJob and        *)
(* runQueue, the scheduler loop that claims due slots, the three planners  *)
(* of slots, and the interrupted work that is put back.                    *)
(*                                                                         *)
(* A slot stands for one entry of r.state.Slots, of either trigger         *)
(* (schedule, quota_refresh); of its fields only StartedAt is decided on   *)
(* here, so a slot is absent, planned or started.  `slots` is r.state in   *)
(* memory and `file` the state file.  Which planned slots are due is left  *)
(* open: the conditions of processDue on the clock may select any of them. *)
(* What a round does inside executeRun is the subject of Warming; here it  *)
(* runs, and ends by itself or interrupted.                                *)
(*                                                                         *)
(* Every atomic step is a critical section of r.mu, one write of the file  *)
(* (persistMu) or one wait; between them anything may interleave.  The     *)
(* variables a process never changes are framed once, where its actions    *)
(* are gathered.                                                           *)
(***************************************************************************)
EXTENDS Naturals, Sequences, FiniteSets

CONSTANTS Slot,         \* keys of r.state.Slots
          NoSlot,       \* the Slot field of a manual request
          Worker,       \* goroutines that may execute runQueue
          MaxOps,       \* bound: lifecycle operations
          MaxManual,    \* bound: manual requests
          MaxFailures,  \* bound: writes of the state file that fail
          MaxCrashes    \* bound: crashes of the process

ASSUME LifecycleAssumption ==
  /\ NoSlot \notin Slot
  /\ {MaxOps, MaxManual, MaxFailures, MaxCrashes} \subseteq Nat

VARIABLES
  terminal,    \* r.terminal
  closed,      \* r.closed
  stopped,     \* r.stopCh is closed
  generation,  \* r.generation
  cfg,         \* the configuration installed, as a version number
  running,     \* r.running
  current,     \* r.currentRequest
  pending,     \* r.pending
  worker,      \* worker[w]: where a goroutine of runQueue is, its request
  slots,       \* r.state.Slots: "absent", "planned" or "started"
  file,        \* the slots of the state file
  op,          \* the operation that holds lifecycleMu
  step,        \* where it is
  snapshot,    \* quiesce's copy of the pending requests
  sched,       \* r.scheduler # nil
  schedStop,   \* the stopCh of the scheduler is closed
  loop,        \* where the goroutine of the scheduler loop is
  claims,      \* the slots processDue claimed and still has to dispatch
  cron,        \* the cron runner is started
  planning,    \* planning[p]: the slot planner p added and has to write
  caller,      \* a management request between its two critical sections
  rounds,      \* rounds[s]: rounds of s that ran to their end (history)
  manuals, failures, crashes, ops    \* the counters of the bounds

gate      == <<terminal, closed, stopped, generation, cfg>>
queue     == <<running, current, pending, worker>>
store     == <<slots, file, failures>>
operation == <<op, step, snapshot>>
scheduler == <<sched, schedStop, loop, claims, cron, planning>>
bounds    == <<manuals, crashes, ops>>
vars == <<gate, queue, store, operation, scheduler, caller, rounds, bounds>>

Planner == {"cron", "loop", "bootstrap"}

Request == [trigger : {"manual", "slot"}, slot : Slot \cup {NoSlot},
            gen : Nat, cfg : Nat]
NoRequest == [trigger |-> "manual", slot |-> NoSlot, gen |-> 0, cfg |-> 0]

(* A request of the scheduler carries no generation. *)
SlotRequest(s) == [trigger |-> "slot", slot |-> s, gen |-> 0, cfg |-> cfg]

Idle == [pc |-> "off", req |-> NoRequest]

-----------------------------------------------------------------------------
(* persistState, which may fail MaxFailures times. *)
Written == file' = slots /\ UNCHANGED <<slots, failures>>
NotWritten ==
  /\ failures < MaxFailures
  /\ failures' = failures + 1
  /\ UNCHANGED file
WriteTried == Written \/ (NotWritten /\ UNCHANGED slots)

(* requeueInterrupted, in memory: a claimed slot is planned again.  The    *)
(* mutant keeps the claim.                                                 *)
KeepClaim(request) == slots

Requeued(request) ==
  IF request.slot # NoSlot /\ slots[request.slot] = "started"
  THEN [slots EXCEPT ![request.slot] = "planned"] ELSE slots

-----------------------------------------------------------------------------
Init ==
  /\ terminal = FALSE /\ closed = FALSE /\ stopped = FALSE
  /\ generation = 1 /\ cfg = 0
  /\ running = FALSE /\ current = NoRequest /\ pending = <<>>
  /\ worker = [w \in Worker |-> Idle]
  /\ slots = [s \in Slot |-> "absent"] /\ file = slots
  /\ op = "none" /\ step = "none" /\ snapshot = <<>>
  /\ sched = FALSE /\ schedStop = FALSE /\ loop = "off" /\ claims = {}
  /\ cron = FALSE /\ planning = [p \in Planner |-> NoSlot]
  /\ caller = NoRequest
  /\ rounds = [s \in Slot |-> 0]
  /\ manuals = 0 /\ failures = 0 /\ crashes = 0 /\ ops = 0

-----------------------------------------------------------------------------
(* Admission: startRunJob.                                                 *)

(* "plugin is shutting down"; the mutant does not compare generations. *)
RefusedWhenClosed(request) == closed

Refused(request) ==
  closed \/ (request.gen # 0 /\ request.gen # generation)

SameRun(q, r) == q.trigger = r.trigger /\ q.slot = r.slot

Duplicate(request) ==
  \/ SameRun(current, request)
  \/ \E i \in DOMAIN pending : SameRun(pending[i], request)

StartGoroutine(request) ==
  /\ running' = TRUE
  /\ current' = request
  /\ \E w \in Worker :
       /\ worker[w].pc = "off"
       /\ worker' = [worker EXCEPT ![w] = [pc |-> "run", req |-> request]]
  /\ UNCHANGED pending

(* Mutant of Admit: running is not looked at. *)
AdmitAlways(request) == ~Refused(request) /\ StartGoroutine(request)

(* The request is dropped as a duplicate, queued, or given a goroutine. *)
Admit(request) ==
  /\ ~Refused(request)
  /\ IF running
     THEN /\ request.trigger # "manual"
          /\ pending' = IF Duplicate(request) THEN pending
                        ELSE Append(pending, request)
          /\ UNCHANGED <<running, current, worker>>
     ELSE StartGoroutine(request)

(* startNamedRunWithNotify reads the jobs and the generation, and only     *)
(* then calls startRunJob: the plugin may be reconfigured in between.      *)
ManualRead ==
  /\ caller = NoRequest /\ manuals < MaxManual
  /\ caller' = [NoRequest EXCEPT !.gen = generation, !.cfg = cfg]
  /\ manuals' = manuals + 1
  /\ UNCHANGED queue

ManualStart ==
  /\ caller # NoRequest
  /\ Admit(caller)
  /\ caller' = NoRequest
  /\ UNCHANGED manuals

(* errAlreadyRunning, or the plugin is shutting down. *)
ManualRefused ==
  /\ caller # NoRequest
  /\ running \/ Refused(caller)
  /\ caller' = NoRequest
  /\ UNCHANGED <<queue, manuals>>

Manual ==
  /\ ManualRead \/ ManualStart \/ ManualRefused
  /\ UNCHANGED <<gate, store, operation, scheduler, rounds, crashes, ops>>

-----------------------------------------------------------------------------
(* The goroutine of runQueue.                                              *)

WorkerAt(w, pc) ==
  /\ worker' = [worker EXCEPT ![w].pc = pc]
  /\ UNCHANGED <<running, current, pending>>

(* executeRun ends by itself. *)
RoundEnds(w) ==
  /\ worker[w].pc = "run"
  /\ WorkerAt(w, "record")
  /\ rounds' = [s \in Slot |->
                  rounds[s] + IF s = worker[w].req.slot THEN 1 ELSE 0]
  /\ UNCHANGED store

(* executeRun sees stopCh closed: the claim goes back, in memory. *)
RoundInterrupted(w) ==
  /\ worker[w].pc = "run" /\ stopped
  /\ slots' = Requeued(worker[w].req)
  /\ WorkerAt(w, "requeue")
  /\ UNCHANGED <<file, failures, rounds>>

(* The write of requeueInterrupted, then that of appendRun. *)
RunWritten(w) ==
  /\ \/ worker[w].pc = "requeue" /\ WorkerAt(w, "record")
     \/ worker[w].pc = "record" /\ WorkerAt(w, "next")
  /\ WriteTried
  /\ UNCHANGED rounds

(* A round also writes the state while it runs (saveQuota ...). *)
RunWrites(w) ==
  /\ worker[w].pc = "run" /\ file # slots
  /\ Written
  /\ UNCHANGED <<queue, rounds>>

(* The next pending request, or the end of the goroutine. *)
NextRun(w) ==
  /\ worker[w].pc = "next"
  /\ IF pending = <<>> \/ closed
     THEN /\ pending' = <<>>
          /\ running' = FALSE
          /\ current' = NoRequest
          /\ worker' = [worker EXCEPT ![w] = Idle]
     ELSE /\ pending' = Tail(pending)
          /\ current' = Head(pending)
          /\ worker' = [worker EXCEPT ![w] = [pc |-> "run", req |-> Head(pending)]]
          /\ UNCHANGED running
  /\ UNCHANGED <<store, rounds>>

RunQueue(w) ==
  /\ RoundEnds(w) \/ RoundInterrupted(w) \/ RunWritten(w) \/ NextRun(w)
  /\ UNCHANGED <<gate, operation, scheduler, caller, bounds>>

RoundWrites(w) ==
  RunWrites(w) /\ UNCHANGED <<gate, operation, scheduler, caller, bounds>>

-----------------------------------------------------------------------------
(* The scheduler loop: processDue.                                         *)

(* The due slots are claimed in memory. *)
Claim(S) ==
  /\ loop = "idle" /\ ~schedStop
  /\ ~closed /\ sched
  /\ S # {} /\ \A s \in S : slots[s] = "planned"
  /\ slots' = [s \in Slot |-> IF s \in S THEN "started" ELSE slots[s]]
  /\ claims' = S
  /\ loop' = "claimed"
  /\ UNCHANGED <<file, failures, queue>>

(* The claims are durable before anything runs. *)
ClaimWritten ==
  /\ loop = "claimed" /\ Written
  /\ loop' = "dispatch"
  /\ UNCHANGED <<claims, queue>>

(* The write failed: the slots it claimed are planned again. *)
ClaimRolledBack ==
  /\ loop = "claimed" /\ NotWritten
  /\ slots' = [s \in Slot |-> IF s \in claims THEN "planned" ELSE slots[s]]
  /\ claims' = {}
  /\ loop' = "idle"
  /\ UNCHANGED queue

Dispatch(s) ==
  /\ loop = "dispatch" /\ s \in claims
  /\ Admit(SlotRequest(s))
  /\ claims' = claims \ {s}
  /\ UNCHANGED <<loop, store>>

(* startRunJob refused: the claim goes back, in memory and then on disk. *)
DispatchRefused(s) ==
  /\ loop = "dispatch" /\ s \in claims
  /\ Refused(SlotRequest(s))
  /\ slots' = Requeued(SlotRequest(s))
  /\ claims' = claims \ {s}
  /\ loop' = "requeue"
  /\ UNCHANGED <<file, failures, queue>>

RefusalWritten ==
  /\ loop = "requeue" /\ WriteTried
  /\ loop' = "dispatch"
  /\ UNCHANGED <<claims, queue>>

(* All dispatched: plan the next slots, then wait for the next tick. *)
DispatchDone ==
  /\ \/ loop = "dispatch" /\ claims = {} /\ loop' = "plan"
     \/ loop = "plan" /\ planning["loop"] = NoSlot /\ loop' = "idle"
  /\ UNCHANGED <<claims, store, queue>>

LoopStops ==
  /\ loop = "idle" /\ schedStop
  /\ loop' = "off"
  /\ UNCHANGED <<claims, store, queue>>

LoopFrame == UNCHANGED <<gate, operation, sched, schedStop, cron, planning,
                         caller, rounds, bounds>>

Tick == LoopFrame /\ \E S \in SUBSET Slot : Claim(S)

Pass ==
  /\ LoopFrame
  /\ \/ ClaimWritten \/ ClaimRolledBack
     \/ \E s \in Slot : Dispatch(s) \/ DispatchRefused(s)
     \/ RefusalWritten \/ DispatchDone \/ LoopStops

-----------------------------------------------------------------------------
(* planSlot, called by a cron callback, by the loop and by bootstrap.      *)

MayPlan(p) == \/ p = "cron" /\ cron
              \/ p = "loop" /\ loop = "plan"
              \/ p = "bootstrap" /\ step = "bootstrap"

AddSlot(p, s) ==
  /\ MayPlan(p) /\ planning[p] = NoSlot
  /\ ~schedStop /\ ~closed /\ sched
  /\ slots[s] = "absent"
  /\ slots' = [slots EXCEPT ![s] = "planned"]
  /\ planning' = [planning EXCEPT ![p] = s]
  /\ UNCHANGED <<file, failures>>

SlotWritten(p) ==
  /\ planning[p] # NoSlot /\ Written
  /\ planning' = [planning EXCEPT ![p] = NoSlot]

(* Mutants of Unplanned: the slot is deleted though it was claimed since;  *)
(* it is overwritten by a zero slot instead of being deleted.              *)
UnplannedAlways(s) == "absent"
ZeroSlot(s)        == IF slots[s] = "planned" THEN "zero" ELSE slots[s]

(* A slot whose write failed is deleted, unless it was claimed since. *)
Unplanned(s) == IF slots[s] = "planned" THEN "absent" ELSE slots[s]

SlotWriteFailed(p) ==
  /\ planning[p] # NoSlot /\ NotWritten
  /\ slots' = [slots EXCEPT ![planning[p]] = Unplanned(planning[p])]
  /\ planning' = [planning EXCEPT ![p] = NoSlot]

PlanFrame == UNCHANGED <<gate, queue, operation, sched, schedStop, loop,
                         claims, cron, caller, rounds, bounds>>

Plan(p)     == PlanFrame /\ \E s \in Slot : AddSlot(p, s)
PlanDone(p) == PlanFrame /\ (SlotWritten(p) \/ SlotWriteFailed(p))

-----------------------------------------------------------------------------
(* The operations under lifecycleMu.                                       *)

(* After shutdown configure and setAccountDisplay refuse. *)
MayBegin(name) == name \in {"configure", "display"} => ~terminal

Begin(name) ==
  /\ op = "none" /\ ops < MaxOps
  /\ MayBegin(name)
  /\ op' = name
  /\ step' = IF name = "display" THEN "display" ELSE "quiesce"
  /\ terminal' = (terminal \/ name = "shutdown")
  /\ ops' = ops + 1
  /\ UNCHANGED <<closed, stopped, generation, cfg, queue, store, snapshot,
                 scheduler, caller, rounds, manuals, crashes>>

Return == op' = "none" /\ step' = "none" /\ UNCHANGED snapshot
StepTo(s) == step' = s /\ UNCHANGED <<op, snapshot>>

(* setAccountDisplay: saveAccountDisplay writes the whole state. *)
DisplaySaved ==
  /\ step = "display" /\ WriteTried
  /\ Return
  /\ UNCHANGED <<gate, queue, scheduler>>

TakePending == pending

(* quiesce, its critical section: the gate closes before the producers are *)
(* stopped.                                                                *)
CloseGate ==
  /\ step = "quiesce"
  /\ stopped' = TRUE /\ closed' = TRUE
  /\ generation' = generation + 1
  /\ snapshot' = TakePending
  /\ pending' = <<>>
  /\ sched' = FALSE
  /\ step' = "cron"
  /\ UNCHANGED <<terminal, cfg, running, current, worker, store, op, schedStop,
                 loop, claims, cron, planning>>

(* Mutant of StopScheduler: the loop is not told to stop. *)
StopCronOnly ==
  /\ step = "cron" /\ planning["cron"] = NoSlot
  /\ cron' = FALSE
  /\ StepTo("loop")
  /\ UNCHANGED <<gate, queue, store, sched, schedStop, loop, claims, planning>>

(* <-c.Stop().Done(), then scheduler.stop() closes its stopCh. *)
StopScheduler ==
  /\ step = "cron" /\ planning["cron"] = NoSlot
  /\ cron' = FALSE /\ schedStop' = TRUE
  /\ StepTo("loop")
  /\ UNCHANGED <<gate, queue, store, sched, loop, claims, planning>>

(* Mutant of RunsAreDone: runWG is not waited for. *)
RunsNotAwaited == TRUE

(* scheduler.stop() waits for doneCh, quiesce for runWG. *)
LoopIsDone == loop = "off"
RunsAreDone == \A w \in Worker : worker[w].pc = "off"

Await ==
  /\ \/ step = "loop" /\ LoopIsDone /\ StepTo("runs")
     \/ step = "runs" /\ RunsAreDone /\ StepTo("requeue")
  /\ UNCHANGED <<gate, queue, store, scheduler>>

(* The requests that were pending are put back, one write each. *)
RequeuePending ==
  /\ step = "requeue" /\ snapshot # <<>>
  /\ slots' = Requeued(Head(snapshot))
  /\ snapshot' = Tail(snapshot)
  /\ step' = "requeueWrite"
  /\ UNCHANGED <<gate, queue, file, failures, op, scheduler>>

PendingWritten ==
  /\ step = "requeueWrite" /\ WriteTried
  /\ StepTo("requeue")
  /\ UNCHANGED <<gate, queue, scheduler>>

(* configure loads the state and opens the gate ... *)
Load ==
  /\ step = "requeue" /\ snapshot = <<>> /\ op = "configure"
  /\ cfg' = cfg + 1
  /\ slots' = file
  /\ closed' = FALSE /\ stopped' = FALSE
  /\ StepTo("install")
  /\ UNCHANGED <<terminal, generation, queue, file, failures, scheduler>>

(* ... and, for an automatic configuration, makes a scheduler, plans its   *)
(* first slots and starts the loop and the cron runner.                    *)
InstallScheduler ==
  /\ step = "install"
  /\ sched' = TRUE /\ schedStop' = FALSE
  /\ StepTo("bootstrap")
  /\ UNCHANGED <<gate, queue, store, loop, claims, cron, planning>>

StartScheduler ==
  /\ step = "bootstrap" /\ planning["bootstrap"] = NoSlot
  /\ loop' = "idle" /\ cron' = TRUE
  /\ Return
  /\ UNCHANGED <<gate, queue, store, sched, schedStop, claims, planning>>

(* The operation returns: quiesce is over, or configure could not load the *)
(* state file and leaves the plugin closed, or needs no scheduler.         *)
OperationDone ==
  /\ step = "install" \/ (step = "requeue" /\ snapshot = <<>>)
  /\ Return
  /\ UNCHANGED <<gate, queue, store, scheduler>>

Operate ==
  /\ \/ DisplaySaved \/ CloseGate \/ StopScheduler \/ Await
     \/ RequeuePending \/ PendingWritten \/ Load
     \/ InstallScheduler \/ StartScheduler \/ OperationDone
  /\ UNCHANGED <<caller, rounds, bounds>>

-----------------------------------------------------------------------------
(* The process dies; the new one is about to load the file and install a   *)
(* configuration.                                                          *)
CrashAndRestart ==
  /\ crashes < MaxCrashes
  /\ crashes' = crashes + 1
  /\ terminal' = FALSE /\ closed' = TRUE /\ stopped' = TRUE
  /\ generation' = 2 /\ cfg' = 0
  /\ running' = FALSE /\ current' = NoRequest /\ pending' = <<>>
  /\ worker' = [w \in Worker |-> Idle]
  /\ slots' = file
  /\ op' = "configure" /\ step' = "requeue" /\ snapshot' = <<>>
  /\ sched' = FALSE /\ schedStop' = TRUE /\ loop' = "off" /\ claims' = {}
  /\ cron' = FALSE /\ planning' = [p \in Planner |-> NoSlot]
  /\ caller' = NoRequest
  /\ UNCHANGED <<file, failures, rounds, manuals, ops>>

Next ==
  \/ Manual
  \/ \E w \in Worker : RunQueue(w) \/ RoundWrites(w)
  \/ Tick \/ Pass
  \/ \E p \in Planner : Plan(p) \/ PlanDone(p)
  \/ \E name \in {"configure", "quiesce", "shutdown", "display"} : Begin(name)
  \/ Operate
  \/ CrashAndRestart

Spec == Init /\ [][Next]_vars

(* The goroutines are scheduled, the waits of a round are timers or select *)
(* on stopCh, writes and host calls return.  Nobody is obliged to plan, to *)
(* claim, to call or to reconfigure; what has begun goes on.               *)
Fairness ==
  /\ \A w \in Worker : WF_vars(RunQueue(w))
  /\ WF_vars(Pass)
  /\ \A p \in Planner : WF_vars(PlanDone(p))
  /\ WF_vars(Operate)

FairSpec == Spec /\ Fairness

-----------------------------------------------------------------------------
TypeOK ==
  /\ {terminal, closed, stopped, running, sched, schedStop, cron} \subseteq BOOLEAN
  /\ generation \in Nat /\ cfg \in Nat
  /\ current \in Request /\ caller \in Request
  /\ pending \in Seq(Request) /\ snapshot \in Seq(Request)
  /\ {slots, file} \subseteq [Slot -> {"absent", "planned", "started"}]
  /\ op \in {"none", "configure", "quiesce", "shutdown", "display"}
  /\ step \in {"none", "quiesce", "cron", "loop", "runs", "requeue",
               "requeueWrite", "install", "bootstrap", "display"}
  /\ loop \in {"off", "idle", "claimed", "dispatch", "requeue", "plan"}
  /\ claims \subseteq Slot
  /\ planning \in [Planner -> Slot \cup {NoSlot}]
  /\ worker \in [Worker -> [pc : {"off", "run", "requeue", "record", "next"},
                            req : Request]]
  /\ rounds \in [Slot -> Nat]
  /\ {manuals, failures, crashes, ops} \subseteq Nat

Active == {w \in Worker : worker[w].pc # "off"}

(* Nothing of the plugin runs or is about to write. *)
Quiet == /\ Active = {} /\ ~running /\ pending = <<>>
         /\ loop = "off" /\ ~cron /\ claims = {}
         /\ \A p \in Planner : planning[p] = NoSlot

(* Rounds are serialised: there is one runQueue goroutine exactly when     *)
(* running is set, its request is currentRequest while it runs, and        *)
(* nothing is left pending that no goroutine would take (startRunJob,      *)
(* runQueue).                                                              *)
OneRoundAtATime ==
  /\ Cardinality(Active) = IF running THEN 1 ELSE 0
  /\ \A w \in Active : worker[w].req = current
  /\ ~running => pending = <<>>

(* quiesce and shutdown return, and configure replaces the configuration   *)
(* and the state, only when every producer and every round is over (the    *)
(* comment of quiesce: "It waits for every accepted run before state can   *)
(* be reloaded or the host API unloaded").                                 *)
QuietWhenQuiesced ==
  (closed /\ (op \in {"none", "display"} \/ step \in {"requeue", "requeueWrite"}))
    => Quiet

(* A round runs with a job of the configuration that is installed.  The    *)
(* generation refuses a manual request whose job was looked up before a    *)
(* reconfiguration closed the gate; one whose job was looked up while the  *)
(* old rounds drained already carries the new generation, and is the only  *)
(* one that can be admitted with a job of the old configuration.           *)
NoStaleJob ==
  \A w \in Worker : worker[w].pc = "run" /\ ~stopped =>
    \/ worker[w].req.cfg = cfg
    \/ worker[w].req.gen = generation

(* The slots on disk and the rounds that end keep the promise of           *)
(* SlotLedger, whatever is claimed, rolled back, put back, written by      *)
(* somebody else's save, or lost in a crash.                               *)
Ledger == INSTANCE SlotLedger

ImplementsLedger == Ledger!Spec

(* Every lifecycle operation returns: quiesce waits for the cron runner,   *)
(* the loop and the rounds while it holds lifecycleMu, and none of them    *)
(* waits for it.                                                           *)
OperationsReturn == op # "none" ~> op = "none"

(* While no write fails and the process does not crash, a claimed slot     *)
(* gets its round or is given back: no stop, at any moment between its     *)
(* claim, its dispatch, the queue and its round, makes the claim vanish    *)
(* (README: interrupted slots are put back).                               *)
ClaimsAreServed ==
  \A s \in Slot : slots[s] = "started" ~> (rounds[s] > 0 \/ slots[s] # "started")
=============================================================================
