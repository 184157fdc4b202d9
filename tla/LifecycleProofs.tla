--------------------------- MODULE LifecycleProofs --------------------------
(***************************************************************************)
(* Proofs about Lifecycle for every set of slots and of goroutines and for *)
(* every bound on operations, manual requests, failed writes and crashes.  *)
(*                                                                         *)
(* The inductive invariant has four layers, each proved from those before: *)
(* the types; where the operation under lifecycleMu is and what it has     *)
(* stopped already (Stages); the queue and its goroutine (Serial, Fresh);  *)
(* and who holds a claimed slot (Custody).                                 *)
(***************************************************************************)
EXTENDS Lifecycle, SequenceTheorems, FiniteSetTheorems, TLAPS

-----------------------------------------------------------------------------
(* Stages: what is over when the operation has come to a step.             *)

Draining == {"cron", "loop", "runs", "requeue", "requeueWrite"}
Opening  == {"install", "bootstrap"}

(* Which step belongs to which operation. *)
StepOfOperation ==
  /\ op = "none" <=> step = "none"
  /\ op = "display" <=> step = "display"
  /\ step \in Opening => op = "configure"

(* The gate: closed with stopCh, and nothing waits behind a closed one. *)
GateClosed ==
  /\ closed <=> stopped
  /\ closed => pending = <<>> /\ ~sched
  /\ step \in Draining => closed
  /\ step \in Opening => ~closed
  /\ snapshot # <<>> => step \in Draining

(* The scheduler: its loop and the planners. *)
LoopIsAt ==
  /\ claims # {} => loop \in {"claimed", "dispatch", "requeue"}
  /\ planning["loop"] # NoSlot => loop = "plan"
  /\ planning["bootstrap"] # NoSlot => step = "bootstrap"
  /\ step \in {"loop", "runs", "requeue", "requeueWrite"} =>
       schedStop /\ ~cron /\ planning["cron"] = NoSlot
  /\ step \in {"runs", "requeue", "requeueWrite"} => loop = "off"
  /\ step \in Opening =>
       loop = "off" /\ ~cron /\ planning["cron"] = NoSlot

(* One goroutine of runQueue exactly when running is set. *)
Serial ==
  /\ running => \E w \in Worker : Active = {w}
  /\ ~running => Active = {} /\ pending = <<>>
  /\ \A w \in Active : worker[w].req = current
  /\ step \in {"requeue", "requeueWrite"} => ~running

Stages == StepOfOperation /\ GateClosed /\ LoopIsAt

(* The old configuration and generation of a request in the queue. *)
Current(request) == request.cfg = cfg \/ request.gen = generation

Fresh ==
  /\ generation > 0
  /\ caller # NoRequest => caller.gen # 0
  /\ \A i \in DOMAIN pending : Current(pending[i])
  /\ \A w \in Worker : worker[w].pc = "run" /\ ~stopped => Current(worker[w].req)

-----------------------------------------------------------------------------
(* Custody: a claimed slot is with one holder until its round has ended.   *)

Requests(q, s) == \E i \in DOMAIN q : q[i].slot = s
Executed(s) == \E w \in Worker : worker[w].pc = "run" /\ worker[w].req.slot = s

(* Its claim is on disk and no round of it has ended. *)
Durable(s) == slots[s] = "started" /\ file[s] = "started" /\ rounds[s] = 0

HeldBy(s) ==
  /\ s \in claims =>
       /\ slots[s] = "started" /\ rounds[s] = 0
       /\ loop # "claimed" => file[s] = "started"
       /\ ~Executed(s) /\ ~Requests(pending, s) /\ ~Requests(snapshot, s)
  /\ Executed(s) => Durable(s) /\ ~Requests(pending, s) /\ ~Requests(snapshot, s)
  /\ Requests(pending, s) => Durable(s)
  /\ Requests(snapshot, s) => Durable(s)
  /\ rounds[s] # 0 => rounds[s] = 1 /\ slots[s] = "started" /\ file[s] = "started"

(* A queue of requests of the scheduler, each for another slot. *)
SlotQueue(q) ==
  /\ \A i \in DOMAIN q : q[i].slot \in Slot
  /\ \A i, j \in DOMAIN q : q[i].slot = q[j].slot => i = j

Custody == /\ SlotQueue(pending) /\ SlotQueue(snapshot)
           /\ caller.trigger = "manual" /\ caller.slot = NoSlot
           /\ \A s \in Slot : HeldBy(s)

-----------------------------------------------------------------------------
(* Types.                                                                  *)

(* The types of the queue, of the slots, and of everything else. *)
QueueTypes ==
  /\ running \in BOOLEAN /\ current \in Request /\ pending \in Seq(Request)
  /\ worker \in [Worker -> [pc : {"off", "run", "requeue", "record", "next"},
                            req : Request]]
StoreTypes ==
  /\ {slots, file} \subseteq [Slot -> {"absent", "planned", "started"}]
  /\ failures \in Nat
OtherTypes ==
  /\ {terminal, closed, stopped, sched, schedStop, cron} \subseteq BOOLEAN
  /\ generation \in Nat /\ cfg \in Nat
  /\ caller \in Request /\ snapshot \in Seq(Request)
  /\ op \in {"none", "configure", "quiesce", "shutdown", "display"}
  /\ step \in {"none", "quiesce", "cron", "loop", "runs", "requeue",
               "requeueWrite", "install", "bootstrap", "display"}
  /\ loop \in {"off", "idle", "claimed", "dispatch", "requeue", "plan"}
  /\ claims \subseteq Slot
  /\ planning \in [Planner -> Slot \cup {NoSlot}]
  /\ rounds \in [Slot -> Nat]
  /\ {manuals, crashes, ops} \subseteq Nat

LEMMA TypeParts == TypeOK => QueueTypes /\ StoreTypes /\ OtherTypes
  BY DEF TypeOK, QueueTypes, StoreTypes, OtherTypes

LEMMA PartsType == QueueTypes' /\ StoreTypes' /\ OtherTypes' => TypeOK'
  BY DEF TypeOK, QueueTypes, StoreTypes, OtherTypes

(* What the writes, the requeue and the admission do to the types. *)
LEMMA WriteTypes ==
  ASSUME TypeOK, WriteTried
  PROVE  StoreTypes'
  BY DEF TypeOK, StoreTypes, WriteTried, Written, NotWritten

LEMMA RequeueTypes ==
  ASSUME TypeOK, NEW request \in Request
  PROVE  Requeued(request) \in [Slot -> {"absent", "planned", "started"}]
  BY LifecycleAssumption DEF TypeOK, Requeued, Request

LEMMA AdmitTypes ==
  ASSUME TypeOK, NEW request \in Request, Admit(request)
  PROVE  QueueTypes'
<1>0. /\ current \in Request /\ pending \in Seq(Request)
      /\ worker \in [Worker -> [pc : {"off", "run", "requeue", "record", "next"},
                                req : Request]]
  BY DEF TypeOK
<1>1. CASE running
  <2>1. UNCHANGED <<running, current, worker>>
    BY <1>1 DEF Admit
  <2>2. pending' = pending \/ pending' = Append(pending, request)
    BY <1>1 DEF Admit
  <2>3. Append(pending, request) \in Seq(Request)
    BY <1>0
  <2> QED
    BY <1>0, <1>1, <2>1, <2>2, <2>3 DEF QueueTypes
<1>2. CASE ~running
  <2>1. running' = TRUE /\ current' = request /\ pending' = pending
    BY <1>2 DEF Admit, StartGoroutine
  <2>2. PICK w \in Worker : worker' = [worker EXCEPT ![w] = [pc |-> "run",
                                                             req |-> request]]
    BY <1>2 DEF Admit, StartGoroutine
  <2> QED
    BY <1>0, <2>1, <2>2 DEF QueueTypes
<1> QED
  BY <1>1, <1>2

LEMMA InitTypes == Init => TypeOK
<1> SUFFICES ASSUME Init PROVE TypeOK
  OBVIOUS
<1>1. NoRequest \in Request
  BY DEF Request, NoRequest
<1>2. /\ pending = <<>> /\ snapshot = <<>> /\ current = NoRequest
      /\ caller = NoRequest
      /\ worker = [w \in Worker |-> Idle]
  BY DEF Init
<1>3. /\ current \in Request /\ caller \in Request
      /\ pending \in Seq(Request) /\ snapshot \in Seq(Request)
      /\ worker \in [Worker -> [pc : {"off", "run", "requeue", "record", "next"},
                                req : Request]]
  BY <1>1, <1>2 DEF Idle
<1>4. /\ {slots, file} \subseteq [Slot -> {"absent", "planned", "started"}]
      /\ planning \in [Planner -> Slot \cup {NoSlot}]
      /\ rounds \in [Slot -> Nat] /\ claims \subseteq Slot
  BY DEF Init
<1>5. {terminal, closed, stopped, running, sched, schedStop, cron} \subseteq BOOLEAN
  BY DEF Init
<1>6. /\ generation \in Nat /\ cfg \in Nat
      /\ {manuals, failures, crashes, ops} \subseteq Nat
  BY DEF Init
<1>7. op = "none" /\ step = "none" /\ loop = "off"
  BY DEF Init
<1> QED
  BY <1>3, <1>4, <1>5, <1>6, <1>7 DEF TypeOK

LEMMA TypeStep == TypeOK /\ [Next]_vars => TypeOK'
<1> SUFFICES ASSUME TypeOK, [Next]_vars PROVE TypeOK'
  OBVIOUS
<1> USE LifecycleAssumption
<1>0. NoRequest \in Request /\ \A s \in Slot : SlotRequest(s) \in Request
  BY DEF TypeOK, Request, NoRequest, SlotRequest
<1>p. QueueTypes /\ StoreTypes /\ OtherTypes
  BY TypeParts
<1>q. UNCHANGED queue => QueueTypes'
  BY <1>p DEF QueueTypes, queue
<1>s. UNCHANGED store => StoreTypes'
  BY <1>p DEF StoreTypes, store
<1>t. UNCHANGED <<slots, file, failures>> => StoreTypes'
  BY <1>p DEF StoreTypes
<1>1. CASE Manual
  <2>1. QueueTypes'
    BY <1>q, <1>1, AdmitTypes DEF Manual, ManualRead, ManualStart, ManualRefused, OtherTypes, TypeOK
  <2>2. caller' \in Request /\ manuals' \in Nat
    <3>1. CASE ManualRead
      <4>1. caller' = [trigger |-> "manual", slot |-> NoSlot, gen |-> generation,
                       cfg |-> cfg]
        BY <3>1 DEF ManualRead, NoRequest
      <4>2. generation \in Nat /\ cfg \in Nat
        BY <1>p DEF OtherTypes
      <4> QED
        BY <3>1, <4>1, <4>2, <1>p DEF ManualRead, OtherTypes, Request
    <3>2. CASE ManualStart \/ ManualRefused
      BY <3>2, <1>0, <1>p DEF ManualStart, ManualRefused, OtherTypes
    <3> QED
      BY <1>1, <3>1, <3>2 DEF Manual
  <2>3. OtherTypes'
    BY <1>1, <1>p, <2>2 DEF Manual, OtherTypes, gate, operation, scheduler
  <2>4. StoreTypes'
    BY <1>1, <1>s DEF Manual
  <2> QED
    BY <2>1, <2>3, <2>4, PartsType
<1>2. ASSUME NEW w \in Worker, RunQueue(w)
      PROVE  TypeOK'
  <2>o. rounds' \in [Slot -> Nat] => OtherTypes'
    BY <1>2, <1>p DEF RunQueue, OtherTypes, gate, operation, scheduler, bounds
  <2>w. ASSUME NEW pc \in {"run", "requeue", "record", "next"}, WorkerAt(w, pc)
        PROVE  QueueTypes'
    BY <2>w, <1>p DEF WorkerAt, QueueTypes
  <2>1. CASE RoundEnds(w)
    <3>1. rounds' \in [Slot -> Nat]
      BY <2>1, <1>p DEF RoundEnds, OtherTypes
    <3> QED
      BY <2>1, <3>1, <2>o, <2>w, <1>s, PartsType DEF RoundEnds
  <2>2. CASE RoundInterrupted(w)
    <3>1. worker[w].req \in Request
      BY <1>p DEF QueueTypes
    <3>2. slots' \in [Slot -> {"absent", "planned", "started"}]
      BY <2>2, <3>1, RequeueTypes DEF RoundInterrupted
    <3>3. StoreTypes'
      BY <2>2, <3>2, <1>p DEF RoundInterrupted, StoreTypes
    <3>4. OtherTypes'
      BY <2>2, <2>o, <1>p DEF RoundInterrupted, OtherTypes
    <3> QED
      BY <2>2, <2>w, <3>3, <3>4, PartsType DEF RoundInterrupted
  <2>3. CASE RunWritten(w)
    <3>1. StoreTypes'
      BY <2>3, WriteTypes DEF RunWritten
    <3>2. QueueTypes'
      BY <2>3, <2>w DEF RunWritten
    <3>3. OtherTypes'
      BY <2>3, <2>o, <1>p DEF RunWritten, OtherTypes
    <3> QED
      BY <3>1, <3>2, <3>3, PartsType
  <2>4. CASE NextRun(w)
    <3>1. ASSUME pending = <<>> \/ closed PROVE QueueTypes'
      <4>1. /\ pending' = <<>> /\ running' = FALSE /\ current' = NoRequest
            /\ worker' = [worker EXCEPT ![w] = Idle]
        BY <2>4, <3>1 DEF NextRun
      <4>2. worker' \in [Worker -> [pc : {"off", "run", "requeue", "record", "next"},
                                   req : Request]]
        BY <4>1, <1>0, <1>p DEF QueueTypes, Idle
      <4>3. pending' \in Seq(Request)
        BY <4>1
      <4> QED
        BY <4>1, <4>2, <4>3, <1>0 DEF QueueTypes
    <3>2. ASSUME ~(pending = <<>> \/ closed) PROVE QueueTypes'
      <4>1. /\ pending' = Tail(pending) /\ running' = running
            /\ current' = Head(pending)
            /\ worker' = [worker EXCEPT ![w] = [pc |-> "run", req |-> Head(pending)]]
        BY <2>4, <3>2 DEF NextRun
      <4>2. Head(pending) \in Request /\ Tail(pending) \in Seq(Request)
        BY <3>2, <1>p DEF QueueTypes
      <4>3. worker' \in [Worker -> [pc : {"off", "run", "requeue", "record", "next"},
                                   req : Request]]
        BY <4>1, <4>2, <1>p DEF QueueTypes
      <4> QED
        BY <4>1, <4>2, <4>3, <1>p DEF QueueTypes
    <3>3. OtherTypes'
      BY <2>4, <2>o, <1>p DEF NextRun, OtherTypes
    <3> QED
      BY <2>4, <3>1, <3>2, <3>3, <1>s, PartsType DEF NextRun
  <2> QED
    BY <1>2, <2>1, <2>2, <2>3, <2>4 DEF RunQueue
<1>3. ASSUME NEW w \in Worker, RoundWrites(w)
      PROVE  TypeOK'
  <2>1. StoreTypes'
    BY <1>3, <1>p DEF RoundWrites, RunWrites, Written, StoreTypes
  <2>2. OtherTypes'
    BY <1>3, <1>p DEF RoundWrites, RunWrites, OtherTypes, gate, operation,
                      scheduler, bounds
  <2> QED
    BY <1>3, <1>q, <2>1, <2>2, PartsType DEF RoundWrites, RunWrites
<1>4. CASE Tick
  <2>1. StoreTypes'
    BY <1>4, <1>p DEF Tick, Claim, StoreTypes
  <2>2. OtherTypes'
    BY <1>4, <1>p DEF Tick, Claim, LoopFrame, OtherTypes, gate, operation, bounds
  <2> QED
    BY <1>4, <1>q, <2>1, <2>2, PartsType DEF Tick, Claim
<1>5. CASE Pass
  <2>o. /\ claims' \subseteq Slot
        /\ loop' \in {"off", "idle", "claimed", "dispatch", "requeue", "plan"}
        => OtherTypes'
    BY <1>5, <1>p DEF Pass, LoopFrame, OtherTypes, gate, operation, bounds
  <2>1. CASE ClaimWritten
    BY <2>1, <2>o, <1>p, <1>q, PartsType
       DEF ClaimWritten, Written, StoreTypes, OtherTypes
  <2>2. CASE ClaimRolledBack
    <3>1. StoreTypes'
      BY <2>2, <1>p DEF ClaimRolledBack, NotWritten, StoreTypes
    <3> QED
      BY <2>2, <2>o, <1>q, <3>1, PartsType DEF ClaimRolledBack
  <2>3. ASSUME NEW s \in Slot, Dispatch(s)
        PROVE  TypeOK'
    BY <1>0, <2>3, <2>o, <1>p, <1>s, AdmitTypes, PartsType DEF Dispatch, OtherTypes
  <2>4. ASSUME NEW s \in Slot, DispatchRefused(s)
        PROVE  TypeOK'
    <3>1. StoreTypes'
      BY <1>0, <2>4, <1>p, RequeueTypes DEF DispatchRefused, StoreTypes
    <3> QED
      BY <2>4, <2>o, <1>p, <1>q, <3>1, PartsType DEF DispatchRefused, OtherTypes
  <2>5. CASE RefusalWritten
    BY <2>5, <2>o, <1>p, <1>q, WriteTypes, PartsType DEF RefusalWritten, OtherTypes
  <2>6. CASE DispatchDone \/ LoopStops
    BY <2>6, <2>o, <1>p, <1>q, <1>s, PartsType DEF DispatchDone, LoopStops, OtherTypes
  <2> QED
    BY <1>5, <2>1, <2>2, <2>3, <2>4, <2>5, <2>6 DEF Pass
<1>6. ASSUME NEW p \in Planner, Plan(p)
      PROVE  TypeOK'
  <2>1. StoreTypes'
    BY <1>6, <1>p DEF Plan, AddSlot, StoreTypes
  <2>2. OtherTypes'
    BY <1>6, <1>p DEF Plan, PlanFrame, AddSlot, OtherTypes, gate, operation, bounds
  <2> QED
    BY <1>6, <1>q, <2>1, <2>2, PartsType DEF Plan, PlanFrame
<1>7. ASSUME NEW p \in Planner, PlanDone(p)
      PROVE  TypeOK'
  <2>1. planning' = [planning EXCEPT ![p] = NoSlot]
    BY <1>7 DEF PlanDone, SlotWritten, SlotWriteFailed
  <2>2. OtherTypes'
    BY <1>7, <1>p, <2>1 DEF PlanDone, PlanFrame, OtherTypes, gate, operation, bounds
  <2>3. StoreTypes'
    BY <1>7, <1>p DEF PlanDone, SlotWritten, Written, SlotWriteFailed, NotWritten,
                      Unplanned, StoreTypes
  <2> QED
    BY <1>7, <1>q, <2>2, <2>3, PartsType DEF PlanDone, PlanFrame
<1>8. ASSUME NEW name \in {"configure", "quiesce", "shutdown", "display"}, Begin(name)
      PROVE  TypeOK'
  <2>1. OtherTypes'
    BY <1>8, <1>p DEF Begin, OtherTypes, scheduler
  <2> QED
    BY <1>8, <1>q, <1>s, <2>1, PartsType DEF Begin
<1>9. CASE Operate
  <2>r. UNCHANGED <<caller, rounds, bounds>>
    BY <1>9 DEF Operate
  <2>1. CASE DisplaySaved \/ PendingWritten
    <3>1. OtherTypes'
      BY <2>r, <2>1, <1>p DEF DisplaySaved, PendingWritten, Return, StepTo, gate,
                              scheduler, bounds, OtherTypes
    <3> QED
      BY <2>1, <3>1, <1>q, WriteTypes, PartsType DEF DisplaySaved, PendingWritten
  <2>2. CASE CloseGate
    <3>1. QueueTypes'
      BY <2>2, <1>p DEF CloseGate, QueueTypes
    <3>2. snapshot' \in Seq(Request)
      BY <2>2, <1>p DEF CloseGate, TakePending, QueueTypes
    <3>b. {terminal', closed', stopped', sched', schedStop', cron'} \subseteq BOOLEAN
      BY <2>2, <1>p DEF CloseGate, OtherTypes
    <3>n. generation' \in Nat /\ cfg' \in Nat
      BY <2>2, <1>p DEF CloseGate, OtherTypes
    <3>3. OtherTypes'
      BY <2>r, <2>2, <3>b, <3>n, <3>2, <1>p DEF CloseGate, OtherTypes, bounds
    <3> QED
      BY <2>2, <3>1, <3>3, <1>s, PartsType DEF CloseGate
  <2>3. CASE StopScheduler \/ Await
    <3>1. OtherTypes'
      BY <2>r, <2>3, <1>p DEF StopScheduler, Await, StepTo, gate, scheduler, bounds,
                              OtherTypes
    <3> QED
      BY <2>3, <3>1, <1>q, <1>s, PartsType DEF StopScheduler, Await
  <2>4. CASE RequeuePending
    <3>1. Head(snapshot) \in Request /\ Tail(snapshot) \in Seq(Request)
      BY <2>4, <1>p DEF OtherTypes, RequeuePending
    <3>2. StoreTypes'
      BY <2>4, <3>1, <1>p, RequeueTypes DEF RequeuePending, StoreTypes
    <3>3. OtherTypes'
      BY <2>r, <2>4, <3>1, <1>p DEF RequeuePending, OtherTypes, gate, scheduler, bounds
    <3> QED
      BY <2>4, <3>2, <3>3, <1>q, PartsType DEF RequeuePending
  <2>5. CASE Load
    <3>1. StoreTypes'
      BY <2>5, <1>p DEF Load, StoreTypes
    <3>b. {terminal', closed', stopped', sched', schedStop', cron'} \subseteq BOOLEAN
      BY <2>5, <1>p DEF Load, OtherTypes, scheduler
    <3>n. generation' \in Nat /\ cfg' \in Nat
      BY <2>5, <1>p DEF Load, OtherTypes
    <3>2. OtherTypes'
      BY <2>r, <2>5, <3>b, <3>n, <1>p DEF Load, StepTo, OtherTypes, scheduler, bounds
    <3> QED
      BY <2>5, <3>1, <3>2, <1>q, PartsType DEF Load
  <2>6. CASE InstallScheduler \/ StartScheduler \/ OperationDone
    <3>1. OtherTypes'
      BY <2>r, <2>6, <1>p DEF InstallScheduler, StartScheduler, OperationDone, Return,
                              StepTo, gate, scheduler, bounds, OtherTypes
    <3> QED
      BY <2>6, <3>1, <1>q, <1>s, PartsType
         DEF InstallScheduler, StartScheduler, OperationDone
  <2> QED
    BY <1>9, <2>1, <2>2, <2>3, <2>4, <2>5, <2>6 DEF Operate
<1>10. CASE CrashAndRestart
  <2>1. /\ current' \in Request /\ caller' \in Request
        /\ pending' \in Seq(Request) /\ snapshot' \in Seq(Request)
        /\ worker' \in [Worker -> [pc : {"off", "run", "requeue", "record", "next"},
                                   req : Request]]
    BY <1>0, <1>10 DEF CrashAndRestart, Idle
  <2>2. planning' \in [Planner -> Slot \cup {NoSlot}]
    BY <1>10 DEF CrashAndRestart
  <2>3. /\ terminal' = FALSE /\ closed' = TRUE /\ stopped' = TRUE
        /\ running' = FALSE /\ sched' = FALSE /\ schedStop' = TRUE /\ cron' = FALSE
        /\ generation' = 2 /\ cfg' = 0 /\ crashes' = crashes + 1
        /\ UNCHANGED <<manuals, failures, ops>>
    BY <1>10 DEF CrashAndRestart
  <2>4. slots' = file /\ file' = file /\ claims' = {} /\ rounds' = rounds
    BY <1>10 DEF CrashAndRestart
  <2>5. op' = "configure" /\ step' = "requeue" /\ loop' = "off"
    BY <1>10 DEF CrashAndRestart
  <2>6. {terminal', closed', stopped', running', sched', schedStop', cron'}
          \subseteq BOOLEAN
    BY <2>3
  <2>7. {manuals', failures', crashes', ops'} \subseteq Nat
    BY <2>3 DEF TypeOK
  <2>8. /\ {slots', file'} \subseteq [Slot -> {"absent", "planned", "started"}]
        /\ claims' \subseteq Slot /\ rounds' \in [Slot -> Nat]
    BY <2>4 DEF TypeOK
  <2> QED
    BY <2>1, <2>2, <2>3, <2>5, <2>6, <2>7, <2>8 DEF TypeOK
<1>11. CASE UNCHANGED vars
  BY <1>11 DEF TypeOK, vars, gate, queue, store, operation, scheduler, bounds
<1> QED
  BY <1>1, <1>2, <1>3, <1>4, <1>5, <1>6, <1>7, <1>8, <1>9, <1>10, <1>11 DEF Next

(* Every variable keeps its type. *)
THEOREM TypeCorrect == Spec => []TypeOK
  BY InitTypes, TypeStep, PTL DEF Spec

-----------------------------------------------------------------------------
(* Stages.                                                                 *)

LEMMA InitStages == Init => Stages
  BY DEF Init, Stages, StepOfOperation, GateClosed, LoopIsAt, Draining, Opening,
         Planner

LEMMA StagesStep == TypeOK /\ Stages /\ [Next]_vars => Stages'
<1> SUFFICES ASSUME TypeOK, Stages, [Next]_vars PROVE Stages'
  OBVIOUS
<1> USE DEF Stages, StepOfOperation, GateClosed, LoopIsAt, Draining, Opening
<1>1. CASE Manual
  <2>1. CASE ManualStart
    BY <1>1, <2>1 DEF Manual, ManualStart, Admit, Refused, StartGoroutine, gate,
                      store, operation, scheduler
  <2>2. CASE ManualRead \/ ManualRefused
    BY <1>1, <2>2 DEF Manual, ManualRead, ManualRefused, gate, queue, store,
                      operation, scheduler
  <2> QED
    BY <1>1, <2>1, <2>2 DEF Manual
<1>2. ASSUME NEW w \in Worker, RunQueue(w)
      PROVE  Stages'
  <2>1. CASE NextRun(w)
    BY <1>2, <2>1 DEF RunQueue, NextRun, gate, operation, scheduler
  <2>2. CASE RoundEnds(w) \/ RoundInterrupted(w) \/ RunWritten(w)
    BY <1>2, <2>2 DEF RunQueue, RoundEnds, RoundInterrupted, RunWritten, WorkerAt,
                      gate, operation, scheduler
  <2> QED
    BY <1>2, <2>1, <2>2 DEF RunQueue
<1>3. ASSUME NEW w \in Worker, RoundWrites(w)
      PROVE  Stages'
  BY <1>3 DEF RoundWrites, RunWrites, gate, queue, operation, scheduler
<1>4. CASE Tick
  BY <1>4 DEF Tick, LoopFrame, Claim, gate, queue, operation, TypeOK
<1>5. CASE Pass
  <2>1. CASE ClaimWritten \/ ClaimRolledBack \/ RefusalWritten
    BY <1>5, <2>1 DEF Pass, LoopFrame, ClaimWritten, ClaimRolledBack, RefusalWritten,
                      gate, queue, operation
  <2>2. ASSUME NEW s \in Slot, Dispatch(s)
        PROVE  Stages'
    BY <1>5, <2>2 DEF Pass, LoopFrame, Dispatch, Admit, Refused, StartGoroutine,
                      gate, operation
  <2>3. ASSUME NEW s \in Slot, DispatchRefused(s)
        PROVE  Stages'
    BY <1>5, <2>3 DEF Pass, LoopFrame, DispatchRefused, gate, queue, operation
  <2>4. CASE DispatchDone \/ LoopStops
    BY <1>5, <2>4 DEF Pass, LoopFrame, DispatchDone, LoopStops, gate, queue, operation
  <2> QED
    BY <1>5, <2>1, <2>2, <2>3, <2>4 DEF Pass
<1>6. ASSUME NEW p \in Planner, Plan(p)
      PROVE  Stages'
  BY <1>6 DEF Plan, PlanFrame, AddSlot, MayPlan, Planner, TypeOK, gate, queue,
              operation
<1>7. ASSUME NEW p \in Planner, PlanDone(p)
      PROVE  Stages'
  BY <1>7 DEF PlanDone, PlanFrame, SlotWritten, SlotWriteFailed, Planner, TypeOK,
              gate, queue, operation
<1>8. ASSUME NEW name \in {"configure", "quiesce", "shutdown", "display"}, Begin(name)
      PROVE  Stages'
  BY <1>8 DEF Begin, queue, store, scheduler
<1>9. CASE Operate
  <2>1. CASE DisplaySaved \/ PendingWritten \/ RequeuePending
    BY <1>9, <2>1 DEF Operate, DisplaySaved, PendingWritten, RequeuePending, Return,
                      StepTo, gate, queue, scheduler
  <2>2. CASE CloseGate
    BY <1>9, <2>2 DEF Operate, CloseGate
  <2>3. CASE StopScheduler \/ Await
    BY <1>9, <2>3 DEF Operate, StopScheduler, Await, LoopIsDone, StepTo, gate, queue,
                      scheduler
  <2>4. CASE Load
    BY <1>9, <2>4 DEF Operate, Load, StepTo, queue, scheduler
  <2>5. CASE InstallScheduler \/ StartScheduler
    BY <1>9, <2>5 DEF Operate, InstallScheduler, StartScheduler, Return, StepTo, gate,
                      queue, TypeOK
  <2>6. CASE OperationDone
    BY <1>9, <2>6 DEF Operate, OperationDone, Return, gate, queue, scheduler
  <2> QED
    BY <1>9, <2>1, <2>2, <2>3, <2>4, <2>5, <2>6 DEF Operate
<1>10. CASE CrashAndRestart
  BY <1>10 DEF CrashAndRestart, Planner
<1>11. CASE UNCHANGED vars
  BY <1>11 DEF vars, gate, queue, operation, scheduler
<1> QED
  BY <1>1, <1>2, <1>3, <1>4, <1>5, <1>6, <1>7, <1>8, <1>9, <1>10, <1>11 DEF Next

-----------------------------------------------------------------------------
(* The queue and its goroutine.                                            *)

LEMMA InitSerial == Init => Serial /\ QuietWhenQuiesced
  BY DEF Init, Serial, QuietWhenQuiesced, Active, Idle

(* When only the pending requests are left to put back, all is quiet. *)
LEMMA RequeueIsQuiet ==
  ASSUME TypeOK, Stages, Serial, step \in {"requeue", "requeueWrite"}
  PROVE  Quiet
<1>1. ~running /\ Active = {} /\ pending = <<>>
  BY DEF Serial
<1>2. loop = "off" /\ ~cron /\ claims = {}
  BY DEF Stages, LoopIsAt
<1>3. \A p \in Planner : planning[p] = NoSlot
  BY <1>2 DEF Stages, LoopIsAt, Planner
<1> QED
  BY <1>1, <1>2, <1>3 DEF Quiet

(* An admission keeps one goroutine, whose request is the current one. *)
LEMMA AdmitSerial ==
  ASSUME TypeOK, Stages, Serial, NEW request \in Request, Admit(request),
         step' = step
  PROVE  Serial' /\ ~closed
<1>1. ~closed /\ step \notin {"requeue", "requeueWrite"}
  BY DEF Admit, Refused, Stages, GateClosed, Draining
<1>2. CASE running
  BY <1>1, <1>2 DEF Admit, Serial, Active
<1>3. CASE ~running
  <2>1. PICK w \in Worker : worker' = [worker EXCEPT ![w] = [pc |-> "run",
                                                             req |-> request]]
    BY <1>3 DEF Admit, StartGoroutine
  <2>2. Active = {} /\ running' /\ current' = request
    BY <1>3 DEF Admit, StartGoroutine, Serial
  <2>3. Active' = {w} /\ worker'[w].req = request
    BY <2>1, <2>2 DEF Active, TypeOK
  <2> QED
    BY <1>1, <2>2, <2>3 DEF Serial
<1> QED
  BY <1>1, <1>2, <1>3

(* A step of the goroutine keeps it the only one. *)
LEMMA GoroutineSerial ==
  ASSUME TypeOK, Serial, NEW w \in Worker, RunQueue(w)
  PROVE  Serial' /\ running
<1>1. Active = {w} /\ running /\ worker[w].req = current /\ worker[w].pc # "off"
  BY DEF RunQueue, RoundEnds, RoundInterrupted, RunWritten, NextRun, Active, Serial
<1>2. step' = step
  BY DEF RunQueue, operation
<1>3. ASSUME NEW pc \in {"run", "requeue", "record", "next"}, WorkerAt(w, pc)
      PROVE  Serial'
  <2>1. Active' = {w} /\ worker'[w].req = current
    BY <1>1, <1>3 DEF WorkerAt, Active, TypeOK
  <2> QED
    BY <1>1, <1>2, <1>3, <2>1 DEF Serial, WorkerAt
<1>4. CASE NextRun(w)
  <2>1. CASE pending = <<>> \/ closed
    <3>1. worker' = [worker EXCEPT ![w] = Idle]
      BY <1>4, <2>1 DEF NextRun
    <3>2. running' = FALSE /\ pending' = <<>>
      BY <1>4, <2>1 DEF NextRun
    <3>3. worker'[w].pc = "off" /\ \A v \in Worker \ {w} : worker'[v] = worker[v]
      BY <3>1 DEF TypeOK, Idle
    <3>4. Active' = {}
      BY <1>1, <3>3 DEF Active
    <3> QED
      BY <1>1, <3>2, <3>4 DEF Serial
  <2>2. CASE ~(pending = <<>> \/ closed)
    <3>1. worker' = [worker EXCEPT ![w] = [pc |-> "run", req |-> Head(pending)]]
      BY <1>4, <2>2 DEF NextRun
    <3>2. running' /\ current' = Head(pending)
      BY <1>1, <1>4, <2>2 DEF NextRun
    <3>3. Active' = {w} /\ worker'[w].req = current'
      BY <1>1, <3>1, <3>2 DEF Active, TypeOK
    <3> QED
      BY <1>1, <1>2, <3>2, <3>3 DEF Serial
  <2> QED
    BY <2>1, <2>2
<1> QED
  BY <1>1, <1>3, <1>4 DEF RunQueue, RoundEnds, RoundInterrupted, RunWritten

LEMMA SerialStep ==
  TypeOK /\ Stages /\ Serial /\ [Next]_vars => Serial'
<1> SUFFICES ASSUME TypeOK, Stages, Serial, [Next]_vars PROVE Serial'
  OBVIOUS
<1>0. NoRequest \in Request /\ \A s \in Slot : SlotRequest(s) \in Request
  BY LifecycleAssumption DEF TypeOK, Request, NoRequest, SlotRequest
<1>f. ASSUME UNCHANGED queue, step' = step
      PROVE  Serial'
  BY <1>f DEF Serial, Active, queue
<1>1. CASE Manual
  <2>1. CASE ManualStart
    BY <1>1, <2>1, AdmitSerial DEF Manual, ManualStart, operation, TypeOK
  <2>2. CASE ManualRead \/ ManualRefused
    BY <1>f, <1>1, <2>2 DEF Manual, ManualRead, ManualRefused, operation
  <2> QED
    BY <1>1, <2>1, <2>2 DEF Manual
<1>2. ASSUME NEW w \in Worker, RunQueue(w)
      PROVE  Serial'
  BY <1>2, GoroutineSerial
<1>3. ASSUME NEW w \in Worker, RoundWrites(w)
      PROVE  Serial'
  BY <1>f, <1>3 DEF RoundWrites, RunWrites, operation
<1>4. CASE Tick
  BY <1>f, <1>4 DEF Tick, LoopFrame, Claim, operation
<1>5. CASE Pass
  <2>1. ASSUME NEW s \in Slot, Dispatch(s)
        PROVE  Serial'
    BY <1>0, <1>5, <2>1, AdmitSerial DEF Pass, LoopFrame, Dispatch, operation
  <2>2. ASSUME NEW s \in Slot, DispatchRefused(s)
        PROVE  Serial'
    BY <1>f, <1>5, <2>2 DEF Pass, LoopFrame, DispatchRefused, operation
  <2>3. CASE ClaimWritten \/ ClaimRolledBack \/ RefusalWritten \/ DispatchDone
               \/ LoopStops
    BY <1>f, <1>5, <2>3 DEF Pass, LoopFrame, ClaimWritten, ClaimRolledBack,
                            RefusalWritten, DispatchDone, LoopStops, operation
  <2> QED
    BY <1>5, <2>1, <2>2, <2>3 DEF Pass
<1>6. ASSUME NEW p \in Planner, Plan(p) \/ PlanDone(p)
      PROVE  Serial'
  BY <1>f, <1>6 DEF Plan, PlanDone, PlanFrame, operation
<1>7. ASSUME NEW name \in {"configure", "quiesce", "shutdown", "display"}, Begin(name)
      PROVE  Serial'
  BY <1>7 DEF Begin, queue, Serial, Active
<1>8. CASE Operate
  <2>1. CASE DisplaySaved \/ Load \/ InstallScheduler \/ StartScheduler
               \/ OperationDone \/ StopScheduler
    BY <2>1 DEF DisplaySaved, Load, InstallScheduler, StartScheduler, OperationDone,
                StopScheduler, Return, StepTo, queue, Serial, Active
  <2>2. CASE CloseGate
    BY <2>2 DEF CloseGate, Serial, Active
  <2>3. CASE Await
    <3>1. UNCHANGED queue /\ (step' \in {"requeue", "requeueWrite"} => RunsAreDone)
      BY <2>3 DEF Await, StepTo
    <3>2. RunsAreDone => ~running
      BY DEF RunsAreDone, Serial, Active
    <3> QED
      BY <3>1, <3>2 DEF Serial, queue, Active
  <2>4. CASE RequeuePending \/ PendingWritten
    BY <2>4 DEF RequeuePending, PendingWritten, StepTo, queue, Serial, Active
  <2> QED
    BY <1>8, <2>1, <2>2, <2>3, <2>4 DEF Operate
<1>9. CASE CrashAndRestart
  <2>1. ~running' /\ pending' = <<>> /\ worker' = [w \in Worker |-> Idle]
    BY <1>9 DEF CrashAndRestart
  <2> QED
    BY <2>1 DEF Serial, Active, Idle
<1>10. CASE UNCHANGED vars
  BY <1>f, <1>10 DEF vars, operation
<1> QED
  BY <1>1, <1>2, <1>3, <1>4, <1>5, <1>6, <1>7, <1>8, <1>9, <1>10 DEF Next

(* Once quiet behind the closed gate, nothing of the plugin starts again:  *)
(* admission, claims and planning are refused there.                       *)
LEMMA QuietStep ==
  TypeOK /\ Stages /\ Serial /\ QuietWhenQuiesced /\ [Next]_vars
    => QuietWhenQuiesced'
<1> SUFFICES ASSUME TypeOK, Stages, Serial, QuietWhenQuiesced, [Next]_vars,
                    closed', \/ op' \in {"none", "display"}
                             \/ step' \in {"requeue", "requeueWrite"}
             PROVE  Quiet'
  BY DEF QuietWhenQuiesced
<1>0. NoRequest \in Request /\ \A s \in Slot : SlotRequest(s) \in Request
  BY LifecycleAssumption DEF TypeOK, Request, NoRequest, SlotRequest
<1>r. step \in {"requeue", "requeueWrite"} => Quiet
  BY RequeueIsQuiet
<1>f. ASSUME closed' = closed, op' = op, step' = step
      PROVE  Quiet /\ closed
  BY <1>f DEF QuietWhenQuiesced
<1>g. ASSUME UNCHANGED queue, UNCHANGED <<loop, cron, claims, planning>>, Quiet
      PROVE  Quiet'
  BY <1>g DEF Quiet, Active, queue
<1>1. CASE Manual
  <2>1. UNCHANGED gate /\ UNCHANGED operation /\ UNCHANGED scheduler
    BY <1>1 DEF Manual
  <2>2. Quiet /\ closed
    BY <1>f, <2>1 DEF gate, operation
  <2>3. ~ManualStart
    BY <2>2 DEF ManualStart, Admit, Refused
  <2>4. UNCHANGED queue
    BY <1>1, <2>3 DEF Manual, ManualRead, ManualRefused
  <2> QED
    BY <1>g, <2>1, <2>2, <2>4 DEF scheduler
<1>2. ASSUME NEW w \in Worker, RunQueue(w)
      PROVE  Quiet'
  <2>1. Quiet
    BY <1>2, <1>f DEF RunQueue, gate, operation
  <2>2. running
    BY <1>2, GoroutineSerial
  <2> QED
    BY <2>1, <2>2 DEF Quiet
<1>3. ASSUME NEW w \in Worker, RoundWrites(w)
      PROVE  Quiet'
  BY <1>3, <1>f, <1>g DEF RoundWrites, RunWrites, gate, operation, scheduler
<1>4. CASE Tick
  BY <1>4, <1>f DEF Tick, LoopFrame, Claim, gate, operation
<1>5. CASE Pass
  <2>1. Quiet /\ closed
    BY <1>5, <1>f DEF Pass, LoopFrame, gate, operation
  <2>2. loop = "off"
    BY <2>1 DEF Quiet
  <2> QED
    BY <1>5, <2>2 DEF Pass, ClaimWritten, ClaimRolledBack, Dispatch, DispatchRefused,
                      RefusalWritten, DispatchDone, LoopStops
<1>6. ASSUME NEW p \in Planner, Plan(p)
      PROVE  Quiet'
  BY <1>6, <1>f DEF Plan, PlanFrame, AddSlot, gate, operation
<1>7. ASSUME NEW p \in Planner, PlanDone(p)
      PROVE  Quiet'
  <2>1. Quiet
    BY <1>7, <1>f DEF PlanDone, PlanFrame, gate, operation
  <2> QED
    BY <1>7, <2>1 DEF PlanDone, SlotWritten, SlotWriteFailed, Quiet
<1>8. ASSUME NEW name \in {"configure", "quiesce", "shutdown", "display"}, Begin(name)
      PROVE  Quiet'
  <2>1. op = "none" /\ closed' = closed /\ UNCHANGED queue /\ UNCHANGED scheduler
    BY <1>8 DEF Begin
  <2>2. Quiet
    BY <2>1 DEF QuietWhenQuiesced
  <2> QED
    BY <1>g, <2>1, <2>2 DEF scheduler
<1>9. CASE Operate
  <2>1. CASE DisplaySaved
    BY <2>1, <1>g DEF DisplaySaved, gate, scheduler, QuietWhenQuiesced, Stages,
                      StepOfOperation
  <2>2. CASE PendingWritten \/ RequeuePending
    BY <2>2, <1>g, <1>r DEF PendingWritten, RequeuePending, scheduler
  <2>3. CASE OperationDone
    <3>1. step = "requeue" /\ UNCHANGED queue /\ UNCHANGED scheduler
      BY <2>3 DEF OperationDone, gate, Stages, GateClosed, Opening
    <3> QED
      BY <3>1, <1>g, <1>r DEF scheduler
  <2>4. CASE Await
    <3>1. step = "runs" /\ RunsAreDone /\ UNCHANGED queue /\ UNCHANGED scheduler
      BY <2>4 DEF Await, StepTo, Stages, StepOfOperation, GateClosed
    <3>2. Active = {}
      BY <3>1 DEF RunsAreDone, Active
    <3>3. ~running /\ pending = <<>>
      BY <3>1, <3>2 DEF Serial, Stages, GateClosed, Draining
    <3>4. Quiet
      BY <3>1, <3>2, <3>3 DEF Quiet, Stages, LoopIsAt, Planner
    <3> QED
      BY <3>1, <3>4, <1>g DEF scheduler
  <2>5. CASE Load \/ CloseGate \/ StopScheduler
    BY <2>5 DEF Load, CloseGate, StopScheduler, StepTo, Stages, StepOfOperation
  <2>6. CASE InstallScheduler \/ StartScheduler
    BY <2>6 DEF InstallScheduler, StartScheduler, gate, Stages, GateClosed, Opening
  <2> QED
    BY <1>9, <2>1, <2>2, <2>3, <2>4, <2>5, <2>6 DEF Operate
<1>10. CASE CrashAndRestart
  <2>1. ~running' /\ pending' = <<>> /\ worker' = [w \in Worker |-> Idle]
    BY <1>10 DEF CrashAndRestart
  <2>2. loop' = "off" /\ ~cron' /\ claims' = {}
    BY <1>10 DEF CrashAndRestart
  <2>3. planning' = [p \in Planner |-> NoSlot]
    BY <1>10 DEF CrashAndRestart
  <2>4. Active' = {}
    BY <2>1 DEF Active, Idle
  <2> QED
    BY <2>1, <2>2, <2>3, <2>4 DEF Quiet
<1>11. CASE UNCHANGED vars
  BY <1>11, <1>f, <1>g DEF vars, gate, operation, scheduler
<1> QED
  BY <1>1, <1>2, <1>3, <1>4, <1>5, <1>6, <1>7, <1>8, <1>9, <1>10, <1>11 DEF Next

(* The first three layers together.                                        *)
Serialised == TypeOK /\ Stages /\ Serial /\ QuietWhenQuiesced

LEMMA SerialisedCorrect == Spec => []Serialised
<1>1. Init => Serialised
  BY InitTypes, InitStages, InitSerial DEF Serialised
<1>2. Serialised /\ [Next]_vars => Serialised'
  BY TypeStep, StagesStep, SerialStep, QuietStep DEF Serialised
<1> QED
  BY <1>1, <1>2, PTL DEF Spec

(* Rounds are serialised: one goroutine exactly when running is set, with  *)
(* the current request, and nothing pending without one (startRunJob,      *)
(* runQueue).                                                              *)
THEOREM OneRound == Spec => []OneRoundAtATime
<1>1. Serialised => OneRoundAtATime
  <2> SUFFICES ASSUME Serialised PROVE OneRoundAtATime
    OBVIOUS
  <2>1. CASE running
    <3>1. PICK w \in Worker : Active = {w}
      BY <2>1 DEF Serialised, Serial
    <3>2. Cardinality(Active) = 1
      BY <3>1, FS_Singleton
    <3> QED
      BY <2>1, <3>2 DEF Serialised, Serial, OneRoundAtATime
  <2>2. CASE ~running
    <3>1. Active = {} /\ pending = <<>>
      BY <2>2 DEF Serialised, Serial
    <3>2. Cardinality(Active) = 0
      BY <3>1, FS_EmptySet
    <3> QED
      BY <2>2, <3>1, <3>2 DEF OneRoundAtATime
  <2> QED
    BY <2>1, <2>2
<1> QED
  BY <1>1, SerialisedCorrect, PTL

(* quiesce and shutdown return, and configure replaces the configuration   *)
(* and the state, only when every producer and every round is over.        *)
THEOREM Quiesced == Spec => []QuietWhenQuiesced
<1>1. Serialised => QuietWhenQuiesced
  BY DEF Serialised
<1> QED
  BY <1>1, SerialisedCorrect, PTL

-----------------------------------------------------------------------------
(* The job of a round.                                                     *)

LEMMA InitFresh == Init => Fresh
  BY DEF Init, Fresh, Idle, NoRequest

LEMMA FreshStep == Serialised /\ Fresh /\ [Next]_vars => Fresh'
<1> SUFFICES ASSUME Serialised, Fresh, [Next]_vars PROVE Fresh'
  OBVIOUS
<1>0. TypeOK /\ Stages /\ Serial
  BY DEF Serialised
<1>q. /\ pending \in Seq(Request) /\ generation \in Nat
      /\ worker \in [Worker -> [pc : {"off", "run", "requeue", "record", "next"},
                                req : Request]]
  BY <1>0 DEF TypeOK
<1>a. ASSUME NEW request \in Request, Admit(request), UNCHANGED gate,
             Current(request), caller' # NoRequest => caller' = caller
      PROVE  Fresh'
  <2>1. CASE running
    <3>1. worker' = worker /\ (pending' = pending \/ pending' = Append(pending, request))
      BY <1>a, <2>1 DEF Admit
    <3> QED
      BY <3>1, <1>a, <1>q DEF Fresh, Current, gate
  <2>2. CASE ~running
    <3>1. pending' = pending
      BY <1>a, <2>2 DEF Admit, StartGoroutine
    <3>2. PICK w \in Worker : worker' = [worker EXCEPT ![w] = [pc |-> "run",
                                                               req |-> request]]
      BY <1>a, <2>2 DEF Admit, StartGoroutine
    <3> QED
      BY <3>1, <3>2, <1>a, <1>q DEF Fresh, Current, gate
  <2> QED
    BY <2>1, <2>2
<1>f. ASSUME UNCHANGED gate, pending' = pending, caller' = caller,
             \A w \in Worker : worker'[w].pc = "run" =>
                                 worker[w].pc = "run" /\ worker'[w].req = worker[w].req
      PROVE  Fresh'
  BY <1>f DEF Fresh, Current, gate
<1>1. CASE Manual
  <2>1. CASE ManualRead
    BY <1>1, <2>1, <1>q DEF Manual, ManualRead, Fresh, Current, gate, queue, NoRequest
  <2>2. CASE ManualStart
    <3>1. Current(caller)
      BY <2>2 DEF ManualStart, Admit, Refused, Fresh, Current
    <3> QED
      BY <1>0, <1>1, <2>2, <3>1, <1>a DEF Manual, ManualStart, TypeOK
  <2>3. CASE ManualRefused
    BY <1>1, <2>3 DEF Manual, ManualRefused, Fresh, Current, gate, queue
  <2> QED
    BY <1>1, <2>1, <2>2, <2>3 DEF Manual
<1>2. ASSUME NEW w \in Worker, RunQueue(w)
      PROVE  Fresh'
  <2>1. UNCHANGED gate /\ caller' = caller
    BY <1>2 DEF RunQueue
  <2>2. CASE NextRun(w)
    <3>1. CASE pending = <<>> \/ closed
      <4>1. pending' = <<>> /\ worker' = [worker EXCEPT ![w] = Idle]
        BY <2>2, <3>1 DEF NextRun
      <4> QED
        BY <4>1, <2>1, <1>q DEF Fresh, Current, gate, Idle
    <3>2. CASE ~(pending = <<>> \/ closed)
      <4>1. /\ pending' = Tail(pending)
            /\ worker' = [worker EXCEPT ![w] = [pc |-> "run", req |-> Head(pending)]]
        BY <2>2, <3>2 DEF NextRun
      <4>2. Current(Head(pending))
        BY <3>2, <1>q DEF Fresh
      <4>3. \A i \in DOMAIN Tail(pending) : Current(Tail(pending)[i])
        BY <3>2, <1>q DEF Fresh
      <4> QED
        BY <4>1, <4>2, <4>3, <2>1, <1>q DEF Fresh, Current, gate
    <3> QED
      BY <3>1, <3>2
  <2>3. CASE RoundEnds(w) \/ RoundInterrupted(w) \/ RunWritten(w)
    BY <2>1, <2>3, <1>f, <1>q DEF RoundEnds, RoundInterrupted, RunWritten, WorkerAt
  <2> QED
    BY <1>2, <2>2, <2>3 DEF RunQueue
<1>3. ASSUME NEW w \in Worker, RoundWrites(w)
      PROVE  Fresh'
  BY <1>3, <1>f DEF RoundWrites, RunWrites, queue
<1>4. CASE Tick
  BY <1>4, <1>f DEF Tick, LoopFrame, Claim, queue
<1>5. CASE Pass
  <2>1. ASSUME NEW s \in Slot, Dispatch(s)
        PROVE  Fresh'
    <3>1. SlotRequest(s) \in Request /\ Current(SlotRequest(s))
      BY <1>0 DEF SlotRequest, Current, Request, TypeOK
    <3> QED
      BY <1>5, <2>1, <3>1, <1>a DEF Pass, LoopFrame, Dispatch
  <2>2. ASSUME NEW s \in Slot, DispatchRefused(s)
        PROVE  Fresh'
    BY <1>5, <2>2, <1>f DEF Pass, LoopFrame, DispatchRefused, queue
  <2>3. CASE ClaimWritten \/ ClaimRolledBack \/ RefusalWritten \/ DispatchDone
               \/ LoopStops
    BY <1>5, <2>3, <1>f DEF Pass, LoopFrame, ClaimWritten, ClaimRolledBack,
                            RefusalWritten, DispatchDone, LoopStops, queue
  <2> QED
    BY <1>5, <2>1, <2>2, <2>3 DEF Pass
<1>6. ASSUME NEW p \in Planner, Plan(p) \/ PlanDone(p)
      PROVE  Fresh'
  BY <1>6, <1>f DEF Plan, PlanDone, PlanFrame, queue
<1>7. ASSUME NEW name \in {"configure", "quiesce", "shutdown", "display"}, Begin(name)
      PROVE  Fresh'
  BY <1>7 DEF Begin, queue, Fresh, Current
<1>8. CASE Operate
  <2>1. caller' = caller
    BY <1>8 DEF Operate
  <2>2. CASE CloseGate
    BY <2>1, <2>2, <1>q DEF CloseGate, Fresh, Current
  <2>3. CASE Load
    <3>1. Quiet
      BY <2>3, <1>0, RequeueIsQuiet DEF Load
    <3> QED
      BY <2>1, <2>3, <3>1 DEF Load, queue, Quiet, Active, Fresh, Current
  <2>4. CASE DisplaySaved \/ StopScheduler \/ Await \/ RequeuePending
               \/ PendingWritten \/ InstallScheduler \/ StartScheduler \/ OperationDone
    BY <2>1, <2>4, <1>f DEF DisplaySaved, StopScheduler, Await, RequeuePending,
                  PendingWritten, InstallScheduler, StartScheduler, OperationDone, queue
  <2> QED
    BY <1>8, <2>2, <2>3, <2>4 DEF Operate
<1>9. CASE CrashAndRestart
  <2>1. /\ generation' = 2 /\ pending' = <<>> /\ caller' = NoRequest
        /\ worker' = [w \in Worker |-> Idle]
    BY <1>9 DEF CrashAndRestart
  <2> QED
    BY <2>1 DEF Fresh, Idle
<1>10. CASE UNCHANGED vars
  BY <1>10, <1>f DEF vars, queue
<1> QED
  BY <1>1, <1>2, <1>3, <1>4, <1>5, <1>6, <1>7, <1>8, <1>9, <1>10 DEF Next

(* A round of an admitted request runs with a job of the installed         *)
(* configuration, or under the generation that is still the current one:   *)
(* a job looked up before a reconfiguration is refused (startRunJob).      *)
THEOREM NoStale == Spec => []NoStaleJob
<1>1. Init => Fresh
  BY InitFresh
<1>2. Serialised /\ Fresh /\ [Next]_vars => Fresh'
  BY FreshStep
<1>3. Fresh => NoStaleJob
  BY DEF Fresh, NoStaleJob, Current
<1> QED
  BY <1>1, <1>2, <1>3, SerialisedCorrect, PTL DEF Spec

-----------------------------------------------------------------------------
(* Custody.                                                                *)

LEMMA InitCustody == Init => Custody
  BY LifecycleAssumption
     DEF Init, Custody, HeldBy, SlotQueue, Requests, Executed, NoRequest, Idle

(* What taking the first request of a queue leaves. *)
LEMMA TailQueue ==
  ASSUME NEW q \in Seq(Request), q # <<>>, SlotQueue(q)
  PROVE  /\ SlotQueue(Tail(q))
         /\ Head(q) \in Request /\ Head(q).slot \in Slot
         /\ Requests(q, Head(q).slot)
         /\ \A s \in Slot : Requests(Tail(q), s)
              => Requests(q, s) /\ s # Head(q).slot
<1>1. /\ Head(q) = q[1] /\ 1 \in DOMAIN q /\ q[1] \in Request
      /\ \A i \in DOMAIN Tail(q) :
           i \in Nat /\ i > 0 /\ i + 1 \in DOMAIN q /\ Tail(q)[i] = q[i + 1]
  OBVIOUS
<1>2. \A i, j \in DOMAIN Tail(q) : Tail(q)[i].slot = Tail(q)[j].slot => i = j
  <2> TAKE i, j \in DOMAIN Tail(q)
  <2> HAVE Tail(q)[i].slot = Tail(q)[j].slot
  <2>1. i + 1 = j + 1
    BY <1>1 DEF SlotQueue
  <2> QED
    BY <1>1, <2>1
<1>3. SlotQueue(Tail(q))
  BY <1>1, <1>2 DEF SlotQueue
<1>4. ASSUME NEW s \in Slot, Requests(Tail(q), s)
      PROVE  Requests(q, s) /\ s # Head(q).slot
  <2>1. PICK i \in DOMAIN Tail(q) : Tail(q)[i].slot = s
    BY <1>4 DEF Requests
  <2>2. i + 1 # 1 /\ i + 1 \in DOMAIN q /\ q[i + 1].slot = s
    BY <1>1, <2>1
  <2> QED
    BY <1>1, <2>2 DEF Requests, SlotQueue
<1> QED
  BY <1>1, <1>3, <1>4 DEF SlotQueue, Requests

(* What queueing a request adds. *)
LEMMA AppendQueue ==
  ASSUME NEW q \in Seq(Request), NEW r \in Request, r.slot \in Slot, SlotQueue(q),
         ~Requests(q, r.slot)
  PROVE  /\ SlotQueue(Append(q, r))
         /\ \A s \in Slot : Requests(Append(q, r), s) <=> Requests(q, s) \/ s = r.slot
<1> DEFINE p == Append(q, r)
<1>1. /\ Len(q) + 1 \in DOMAIN p /\ p[Len(q) + 1] = r
      /\ \A i \in DOMAIN q : i \in DOMAIN p /\ p[i] = q[i]
      /\ \A i \in DOMAIN p : i # Len(q) + 1 => i \in DOMAIN q
  OBVIOUS
<1> HIDE DEF p
<1>2. \A s \in Slot : Requests(p, s) <=> Requests(q, s) \/ s = r.slot
  BY <1>1 DEF Requests
<1>3. SlotQueue(p)
  BY <1>1 DEF SlotQueue, Requests
<1> QED
  BY <1>2, <1>3 DEF p

(* A step that gives nobody a new claim, and keeps on disk and in memory   *)
(* the claims that are held, keeps the custody.                            *)
LEMMA CustodyKept ==
  ASSUME Custody,
         pending' = pending, snapshot' = snapshot, rounds' = rounds,
         caller'.trigger = "manual" /\ caller'.slot = NoSlot,
         claims' \subseteq claims,
         loop # "claimed" \/ loop' = "claimed" \/ claims' = {},
         \A s \in Slot : Executed(s)' => Executed(s),
         \A s \in Slot : file'[s] \in {file[s], slots[s]},
         \A s \in Slot :
           /\ slots[s] = "started"
           /\ \/ s \in claims' \/ Executed(s)' \/ Requests(pending, s)
              \/ Requests(snapshot, s) \/ rounds[s] # 0
           => slots'[s] = "started"
  PROVE  Custody'
<1>1. SlotQueue(pending)' /\ SlotQueue(snapshot)'
  BY DEF Custody, SlotQueue
<1>2. \A s \in Slot : /\ Requests(pending, s)' <=> Requests(pending, s)
                      /\ Requests(snapshot, s)' <=> Requests(snapshot, s)
  BY DEF Requests
<1>3. ASSUME NEW s \in Slot
      PROVE  HeldBy(s)'
  <2>0. HeldBy(s)
    BY DEF Custody
  <2>1. s \in claims' =>
           /\ slots'[s] = "started" /\ rounds'[s] = 0
           /\ loop' # "claimed" => file'[s] = "started"
           /\ ~Executed(s)' /\ ~Requests(pending, s)' /\ ~Requests(snapshot, s)'
    BY <1>2, <2>0 DEF HeldBy
  <2>2. Executed(s)' =>
          Durable(s)' /\ ~Requests(pending, s)' /\ ~Requests(snapshot, s)'
    BY <1>2, <2>0 DEF HeldBy, Durable
  <2>3. /\ Requests(pending, s)' => Durable(s)'
        /\ Requests(snapshot, s)' => Durable(s)'
    BY <1>2, <2>0 DEF HeldBy, Durable
  <2>4. rounds'[s] # 0 =>
          rounds'[s] = 1 /\ slots'[s] = "started" /\ file'[s] = "started"
    BY <2>0 DEF HeldBy
  <2> QED
    BY <2>1, <2>2, <2>3, <2>4 DEF HeldBy
<1> QED
  BY <1>1, <1>3 DEF Custody

(* So does one that leaves the queue and the claims alone and writes.      *)
LEMMA CustodyWritten ==
  ASSUME TypeOK, Custody, UNCHANGED <<pending, worker, snapshot, rounds, claims,
                                      caller, slots>>,
         loop # "claimed" \/ loop' = "claimed" \/ claims = {},
         file' = file \/ file' = slots
  PROVE  Custody'
<1>1. \A s \in Slot : Executed(s)' => Executed(s)
  BY DEF Executed
<1> QED
  BY <1>1, CustodyKept DEF Custody

(* Nobody holds a claim after a restart or a load of the file.             *)
LEMMA CustodyEmpty ==
  ASSUME Custody, pending' = <<>>, snapshot' = <<>>, claims' = {},
         \A s \in Slot : ~Executed(s)',
         slots' = file, file' = file, rounds' = rounds,
         caller'.trigger = "manual" /\ caller'.slot = NoSlot
  PROVE  Custody'
<1>1. \A s \in Slot : ~Requests(pending, s)' /\ ~Requests(snapshot, s)'
  BY DEF Requests
<1>2. \A s \in Slot : HeldBy(s)'
  BY <1>1 DEF Custody, HeldBy
<1> QED
  BY <1>2 DEF Custody, SlotQueue

(* The dispatch of a claim hands it to the queue or to its round.          *)
LEMMA DispatchCustody ==
  ASSUME Serialised, Custody, NEW s \in Slot, Dispatch(s), LoopFrame
  PROVE  Custody'
<1> DEFINE request == SlotRequest(s)
<1>0. TypeOK /\ Stages /\ Serial /\ LifecycleAssumption
  BY LifecycleAssumption DEF Serialised
<1>1. request \in Request /\ request.slot = s
  BY <1>0 DEF SlotRequest, Request, TypeOK
<1>2. /\ loop = "dispatch" /\ loop' = "dispatch" /\ s \in claims
      /\ claims' = claims \ {s} /\ Admit(request)
      /\ UNCHANGED <<slots, file, rounds, snapshot, caller>>
  BY DEF Dispatch, LoopFrame, store, operation
<1>3. Durable(s) /\ ~Executed(s) /\ ~Requests(pending, s) /\ ~Requests(snapshot, s)
  BY <1>2 DEF Custody, HeldBy, Durable
<1> HIDE DEF request
<1>4. \A t \in Slot : /\ Requests(snapshot, t)' <=> Requests(snapshot, t)
                      /\ Durable(t)' <=> Durable(t)
  BY <1>2 DEF Requests, Durable
<1>5. SlotQueue(snapshot)' /\ caller'.trigger = "manual" /\ caller'.slot = NoSlot
  BY <1>2 DEF Custody, SlotQueue
<1>6. CASE running /\ pending' = pending
  <2>1. worker' = worker
    BY <1>2, <1>6 DEF Admit
  <2> QED
    BY <1>2, <1>6, <2>1, CustodyKept DEF Executed, Custody
<1>7. CASE running /\ pending' = Append(pending, request)
  <2>1. worker' = worker
    BY <1>2, <1>7 DEF Admit
  <2>2. pending \in Seq(Request) /\ SlotQueue(pending)
    BY <1>0 DEF TypeOK, Custody
  <2>3. /\ SlotQueue(pending')
        /\ \A t \in Slot : Requests(pending', t) <=> Requests(pending, t) \/ t = s
    BY <1>1, <1>3, <1>7, <2>2, AppendQueue
  <2>4. \A t \in Slot : Executed(t)' <=> Executed(t)
    BY <2>1 DEF Executed
  <2>5. \A t \in Slot : Requests(pending, t)' <=> Requests(pending', t)
    BY DEF Requests
  <2>6. \A t \in Slot : HeldBy(t)'
    BY <1>2, <1>3, <1>4, <2>3, <2>4, <2>5 DEF Custody, HeldBy
  <2> QED
    BY <1>5, <2>3, <2>6 DEF Custody, SlotQueue
<1>8. CASE ~running
  <2>1. pending' = pending /\ Active = {} /\ pending = <<>>
    BY <1>0, <1>2, <1>8 DEF Admit, StartGoroutine, Serial
  <2>2. PICK w \in Worker : worker' = [worker EXCEPT ![w] = [pc |-> "run",
                                                             req |-> request]]
    BY <1>2, <1>8 DEF Admit, StartGoroutine
  <2>3. \A t \in Slot : Executed(t)' <=> t = s
    BY <1>0, <1>1, <2>1, <2>2 DEF Executed, Active, TypeOK
  <2>4. \A t \in Slot : ~Requests(pending, t)'
    BY <2>1 DEF Requests
  <2>5. \A t \in Slot : HeldBy(t)'
    BY <1>2, <1>3, <1>4, <2>3, <2>4 DEF Custody, HeldBy
  <2> QED
    BY <1>5, <2>1, <2>5 DEF Custody, SlotQueue
<1> QED
  BY <1>2, <1>6, <1>7, <1>8 DEF Admit

(* The end of a round, its interruption, and the next request.             *)
LEMMA QueueCustody ==
  ASSUME Serialised, Custody, NEW w \in Worker, RunQueue(w)
  PROVE  Custody'
<1>0. TypeOK /\ Stages /\ Serial /\ LifecycleAssumption
  BY LifecycleAssumption DEF Serialised
<1>1. UNCHANGED <<caller, snapshot, claims, loop>>
  BY DEF RunQueue, operation, scheduler
<1>2. Active = {w} /\ worker[w].pc # "off"
  BY <1>0 DEF RunQueue, RoundEnds, RoundInterrupted, RunWritten, NextRun, Active,
              Serial
<1>3. \A s \in Slot : Executed(s) <=> worker[w].pc = "run" /\ worker[w].req.slot = s
  BY <1>2 DEF Executed, Active
<1>4. ASSUME NEW pc \in {"record", "next", "requeue"}, WorkerAt(w, pc)
      PROVE  UNCHANGED pending /\ \A s \in Slot : ~Executed(s)'
  BY <1>0, <1>2, <1>4 DEF WorkerAt, Executed, Active, TypeOK
<1>5. CASE RoundEnds(w)
  <2>1. /\ UNCHANGED <<slots, file, pending>> /\ \A s \in Slot : ~Executed(s)'
        /\ worker[w].pc = "run"
    BY <1>4, <1>5 DEF RoundEnds, store
  <2>2. ASSUME NEW s \in Slot
        PROVE  HeldBy(s)'
    <3>1. /\ Requests(pending, s)' <=> Requests(pending, s)
          /\ Requests(snapshot, s)' <=> Requests(snapshot, s)
      BY <1>1, <2>1 DEF Requests
    <3>2. CASE worker[w].req.slot = s
      <4>1. Executed(s) /\ HeldBy(s)
        BY <1>3, <2>1, <3>2 DEF Custody
      <4>2. /\ Durable(s) /\ ~Requests(pending, s) /\ ~Requests(snapshot, s)
            /\ s \notin claims
        BY <4>1 DEF HeldBy
      <4>3. rounds'[s] = 1
        BY <1>5, <3>2, <4>2 DEF RoundEnds, Durable
      <4> QED
        BY <1>1, <2>1, <3>1, <4>2, <4>3 DEF HeldBy, Durable
    <3>3. CASE worker[w].req.slot # s
      <4>1. rounds[s] \in Nat
        BY <1>0 DEF TypeOK
      <4>2. rounds'[s] = rounds[s]
        BY <1>5, <3>3, <4>1 DEF RoundEnds
      <4> QED
        BY <1>1, <2>1, <3>1, <4>2 DEF Custody, HeldBy, Durable
    <3> QED
      BY <3>2, <3>3
  <2> QED
    BY <1>1, <2>1, <2>2 DEF Custody, SlotQueue
<1>6. CASE RoundInterrupted(w)
  <2>1. /\ UNCHANGED <<file, pending, rounds>> /\ \A s \in Slot : ~Executed(s)'
        /\ worker[w].pc = "run" /\ slots' = Requeued(worker[w].req)
    BY <1>4, <1>6 DEF RoundInterrupted
  <2>2. ASSUME NEW s \in Slot, slots[s] = "started", slots'[s] # "started"
        PROVE  s \notin claims /\ ~Requests(pending, s) /\ ~Requests(snapshot, s)
               /\ rounds[s] = 0
    <3>1. worker[w].req.slot = s
      BY <1>0, <2>1, <2>2 DEF Requeued, TypeOK
    <3>2. Executed(s) /\ HeldBy(s)
      BY <1>3, <2>1, <3>1 DEF Custody
    <3> QED
      BY <3>2 DEF HeldBy, Durable
  <2> QED
    BY <1>1, <2>1, <2>2, CustodyKept DEF Custody
<1>7. CASE RunWritten(w)
  <2>1. /\ UNCHANGED <<pending, rounds, slots>> /\ \A s \in Slot : ~Executed(s)'
        /\ file' = file \/ file' = slots
    BY <1>4, <1>7 DEF RunWritten, WriteTried, Written, NotWritten
  <2> QED
    BY <1>1, <2>1, CustodyKept DEF Custody
<1>8. CASE NextRun(w)
  <2>0. UNCHANGED <<slots, file, rounds>> /\ worker[w].pc = "next"
    BY <1>8 DEF NextRun, store
  <2>1. CASE pending = <<>> \/ closed
    <3>1. pending' = <<>> /\ worker' = [worker EXCEPT ![w] = Idle] /\ pending = <<>>
      BY <1>0, <1>8, <2>1 DEF NextRun, Stages, GateClosed
    <3>2. \A s \in Slot : ~Executed(s)'
      BY <1>0, <1>2, <3>1 DEF Executed, Active, Idle, TypeOK
    <3> QED
      BY <1>1, <2>0, <3>1, <3>2, CustodyKept DEF Custody
  <2>2. CASE ~(pending = <<>> \/ closed)
    <3> DEFINE request == Head(pending)
    <3>1. /\ pending' = Tail(pending)
          /\ worker' = [worker EXCEPT ![w] = [pc |-> "run", req |-> request]]
      BY <1>8, <2>2 DEF NextRun
    <3>2. snapshot = <<>>
      BY <1>0, <2>2 DEF Stages, GateClosed
    <3>3. pending \in Seq(Request) /\ SlotQueue(pending)
      BY <1>0 DEF TypeOK, Custody
    <3>4. /\ SlotQueue(Tail(pending)) /\ request \in Request /\ request.slot \in Slot
          /\ Requests(pending, request.slot)
          /\ \A s \in Slot : Requests(Tail(pending), s)
                               => Requests(pending, s) /\ s # request.slot
      BY <2>2, <3>3, TailQueue
    <3> HIDE DEF request
    <3>5. \A s \in Slot : Executed(s)' <=> s = request.slot
      BY <1>0, <1>2, <3>1 DEF Executed, Active, TypeOK
    <3>6. \A s \in Slot : /\ Requests(pending, s)' <=> Requests(Tail(pending), s)
                          /\ ~Requests(snapshot, s)' /\ ~Requests(snapshot, s)
                          /\ Durable(s)' <=> Durable(s)
      BY <1>1, <2>0, <3>1, <3>2 DEF Requests, Durable
    <3>7. \A s \in Slot : HeldBy(s)'
      BY <1>1, <2>0, <3>4, <3>5, <3>6 DEF Custody, HeldBy
    <3> QED
      BY <1>1, <3>1, <3>4, <3>7 DEF Custody, SlotQueue
  <2> QED
    BY <2>1, <2>2
<1> QED
  BY <1>5, <1>6, <1>7, <1>8 DEF RunQueue

LEMMA CustodyStep == Serialised /\ Custody /\ [Next]_vars => Custody'
<1> SUFFICES ASSUME Serialised, Custody, [Next]_vars PROVE Custody'
  OBVIOUS
<1>0. TypeOK /\ Stages /\ Serial /\ LifecycleAssumption
  BY LifecycleAssumption DEF Serialised
<1>c. caller.trigger = "manual" /\ caller.slot = NoSlot
  BY DEF Custody
<1>e. worker' = worker => \A s \in Slot : Executed(s)' <=> Executed(s)
  BY DEF Executed
<1>h. \A s \in Slot : HeldBy(s)
  BY DEF Custody
<1>1. CASE Manual
  <2>0. UNCHANGED <<slots, file, claims, loop, snapshot, rounds>>
    BY <1>1 DEF Manual, store, scheduler, operation
  <2>1. caller'.trigger = "manual" /\ caller'.slot = NoSlot
    <3>1. CASE ManualRead
      <4>1. caller' = [trigger |-> "manual", slot |-> NoSlot, gen |-> generation,
                       cfg |-> cfg]
        BY <3>1 DEF ManualRead, NoRequest
      <4> QED
        BY <4>1
    <3> QED
      BY <1>1, <3>1 DEF Manual, ManualStart, ManualRefused, NoRequest
  <2>2. UNCHANGED queue => Custody'
    BY <1>e, <2>0, <2>1, CustodyKept DEF queue
  <2>3. CASE ManualStart
    <3>1. Admit(caller)
      BY <2>3 DEF ManualStart
    <3>2. ~running
      BY <1>c, <3>1 DEF Admit
    <3>3. pending' = pending /\ Active = {}
      BY <1>0, <3>1, <3>2 DEF Admit, StartGoroutine, Serial
    <3>4. PICK w \in Worker : worker' = [worker EXCEPT ![w] = [pc |-> "run",
                                                               req |-> caller]]
      BY <3>1, <3>2 DEF Admit, StartGoroutine
    <3>5. \A s \in Slot : ~Executed(s)'
      BY <1>0, <1>c, <3>3, <3>4 DEF Executed, Active, TypeOK, LifecycleAssumption
    <3> QED
      BY <2>0, <2>1, <3>3, <3>5, CustodyKept
  <2> QED
    BY <1>1, <2>2, <2>3 DEF Manual, ManualRead, ManualRefused
<1>2. ASSUME NEW w \in Worker, RunQueue(w)
      PROVE  Custody'
  BY <1>2, QueueCustody
<1>3. ASSUME NEW w \in Worker, RoundWrites(w)
      PROVE  Custody'
  BY <1>0, <1>3, CustodyWritten DEF RoundWrites, RunWrites, Written, queue, operation,
                                    scheduler
<1>4. ASSUME NEW S \in SUBSET Slot, Claim(S), LoopFrame
      PROVE  Custody'
  <2>1. /\ UNCHANGED <<file, pending, worker, rounds, snapshot, caller>>
        /\ claims' = S /\ claims = {} /\ loop' = "claimed"
        /\ \A s \in S : slots[s] = "planned"
    BY <1>0, <1>4 DEF Claim, LoopFrame, queue, operation, Stages, LoopIsAt
  <2>2. \A s \in Slot : slots'[s] = IF s \in S THEN "started" ELSE slots[s]
    BY <1>4 DEF Claim
  <2>3. \A s \in Slot : /\ Requests(pending, s)' <=> Requests(pending, s)
                        /\ Requests(snapshot, s)' <=> Requests(snapshot, s)
                        /\ Executed(s)' <=> Executed(s)
    BY <1>e, <2>1 DEF Requests
  <2>4. \A s \in S : ~Durable(s) /\ rounds[s] = 0
    BY <2>1, <1>h, <1>4 DEF HeldBy, Durable
  <2>5. ASSUME NEW s \in Slot PROVE HeldBy(s)'
    BY <1>h, <2>1, <2>2, <2>3, <2>4 DEF HeldBy, Durable
  <2> QED
    BY <1>c, <2>1, <2>5 DEF Custody, SlotQueue
<1>5. CASE Pass
  <2>0. LoopFrame
    BY <1>5 DEF Pass
  <2>f. UNCHANGED <<snapshot, rounds, caller>>
    BY <2>0 DEF LoopFrame, operation
  <2>1. CASE ClaimWritten
    <3>1. /\ file' = slots /\ loop' = "dispatch" /\ loop = "claimed"
          /\ UNCHANGED <<slots, claims, pending, worker>>
      BY <2>1 DEF ClaimWritten, Written, queue
    <3>2. \A s \in Slot : /\ Requests(pending, s)' <=> Requests(pending, s)
                          /\ Requests(snapshot, s)' <=> Requests(snapshot, s)
                          /\ Executed(s)' <=> Executed(s)
      BY <1>e, <2>f, <3>1 DEF Requests
    <3>3. ASSUME NEW s \in Slot PROVE HeldBy(s)'
      BY <1>h, <2>f, <3>1, <3>2 DEF HeldBy, Durable
    <3> QED
      BY <1>c, <2>f, <3>1, <3>3 DEF Custody, SlotQueue
  <2>2. CASE ClaimRolledBack
    <3>1. /\ claims' = {} /\ UNCHANGED <<file, pending, worker>>
          /\ \A s \in Slot : slots'[s] = IF s \in claims THEN "planned" ELSE slots[s]
      BY <2>2 DEF ClaimRolledBack, NotWritten, queue
    <3>2. \A s \in Slot : s \in claims => /\ ~Executed(s) /\ rounds[s] = 0
                                          /\ ~Requests(pending, s)
                                          /\ ~Requests(snapshot, s)
      BY <1>h DEF HeldBy
    <3> QED
      BY <1>c, <1>e, <2>f, <3>1, <3>2, CustodyKept
  <2>3. ASSUME NEW s \in Slot, Dispatch(s)
        PROVE  Custody'
    BY <2>0, <2>3, DispatchCustody
  <2>4. ASSUME NEW s \in Slot, DispatchRefused(s)
        PROVE  Custody'
    <3>1. /\ claims' = claims \ {s} /\ s \in claims /\ loop = "dispatch"
          /\ UNCHANGED <<file, pending, worker>>
      BY <2>4 DEF DispatchRefused, queue
    <3>2. \A t \in Slot : t = s \/ slots'[t] = slots[t]
      BY <1>0, <2>4 DEF DispatchRefused, Requeued, SlotRequest, TypeOK
    <3>3. ~Executed(s) /\ rounds[s] = 0 /\ ~Requests(pending, s) /\ ~Requests(snapshot, s)
      BY <1>h, <3>1 DEF HeldBy
    <3> QED
      BY <1>c, <1>e, <2>f, <3>1, <3>2, <3>3, CustodyKept
  <2>5. CASE RefusalWritten
    BY <1>0, <2>f, <2>5, CustodyWritten DEF RefusalWritten, WriteTried, Written,
                                            NotWritten, queue
  <2>6. CASE DispatchDone \/ LoopStops
    BY <1>0, <2>f, <2>6, CustodyWritten DEF DispatchDone, LoopStops, queue, store
  <2> QED
    BY <1>5, <2>1, <2>2, <2>3, <2>4, <2>5, <2>6 DEF Pass
<1>6. ASSUME NEW p \in Planner, Plan(p) \/ PlanDone(p)
      PROVE  Custody'
  <2>1. UNCHANGED <<pending, worker, snapshot, rounds, caller, claims, loop>>
    BY <1>6 DEF Plan, PlanDone, PlanFrame, queue, operation
  <2>2. \A s \in Slot : slots[s] = "started" => slots'[s] = "started"
    BY <1>0, <1>6 DEF Plan, AddSlot, PlanDone, SlotWritten, SlotWriteFailed, Written,
                      NotWritten, Unplanned, TypeOK
  <2>3. file' = file \/ file' = slots
    BY <1>6 DEF Plan, AddSlot, PlanDone, SlotWritten, SlotWriteFailed, Written,
                NotWritten
  <2> QED
    BY <1>c, <1>e, <2>1, <2>2, <2>3, CustodyKept
<1>7. ASSUME NEW name \in {"configure", "quiesce", "shutdown", "display"}, Begin(name)
      PROVE  Custody'
  BY <1>0, <1>7, CustodyWritten DEF Begin, queue, store, scheduler
<1>8. CASE Operate
  <2>0. UNCHANGED <<caller, rounds>>
    BY <1>8 DEF Operate
  <2>1. CASE DisplaySaved \/ PendingWritten
    BY <1>0, <2>0, <2>1, CustodyWritten
       DEF DisplaySaved, PendingWritten, Return, StepTo, WriteTried, Written,
           NotWritten, queue, scheduler
  <2>2. CASE StopScheduler \/ Await \/ InstallScheduler \/ StartScheduler
               \/ OperationDone
    <3>1. UNCHANGED <<pending, worker, snapshot, claims, slots, file>>
      BY <2>2 DEF StopScheduler, Await, InstallScheduler, StartScheduler,
                  OperationDone, Return, StepTo, queue, store, scheduler
    <3>2. loop # "claimed" \/ loop' = "claimed" \/ claims = {}
      BY <1>0, <2>2 DEF StopScheduler, Await, InstallScheduler, StartScheduler,
                OperationDone, scheduler, Stages, LoopIsAt, Opening
    <3> QED
      BY <1>0, <2>0, <3>1, <3>2, CustodyWritten
  <2>3. CASE CloseGate
    <3>1. /\ UNCHANGED <<worker, slots, file, claims, loop>>
          /\ snapshot' = pending /\ pending' = <<>>
      BY <2>3 DEF CloseGate, TakePending, store
    <3>2. \A s \in Slot : /\ ~Requests(pending, s)'
                          /\ Requests(snapshot, s)' <=> Requests(pending, s)
                          /\ Executed(s)' <=> Executed(s)
      BY <1>e, <3>1 DEF Requests
    <3>3. ASSUME NEW s \in Slot PROVE HeldBy(s)'
      BY <1>h, <2>0, <3>1, <3>2 DEF HeldBy, Durable
    <3> QED
      BY <1>c, <2>0, <3>1, <3>3 DEF Custody, SlotQueue
  <2>4. CASE RequeuePending
    <3>1. /\ snapshot # <<>> /\ snapshot \in Seq(Request) /\ SlotQueue(snapshot)
      BY <1>0, <2>4 DEF RequeuePending, TypeOK, Custody
    <3>2. /\ snapshot' = Tail(snapshot) /\ slots' = Requeued(Head(snapshot))
          /\ UNCHANGED <<pending, worker, file, claims, loop>>
      BY <2>4 DEF RequeuePending, queue, scheduler
    <3> DEFINE s0 == Head(snapshot).slot
    <3>3. /\ SlotQueue(snapshot') /\ s0 \in Slot /\ Requests(snapshot, s0)
          /\ \A s \in Slot : Requests(snapshot', s) => Requests(snapshot, s) /\ s # s0
      BY <3>1, <3>2, TailQueue
    <3>4. \A s \in Slot : s = s0 \/ slots'[s] = slots[s]
      BY <1>0, <3>2 DEF Requeued, TypeOK
    <3> HIDE DEF s0
    <3>5. Quiet
      BY <1>0, <2>4, RequeueIsQuiet DEF RequeuePending
    <3>6. \A s \in Slot : /\ ~Requests(pending, s) /\ ~Requests(pending, s)'
                          /\ ~Executed(s) /\ ~Executed(s)'
                          /\ Requests(snapshot, s)' <=> Requests(snapshot', s)
      BY <1>e, <3>2, <3>5 DEF Requests, Executed, Quiet, Active
    <3>7. rounds[s0] = 0 /\ claims = {}
      BY <1>h, <3>3, <3>5 DEF HeldBy, Durable, Quiet
    <3>8. ASSUME NEW s \in Slot PROVE HeldBy(s)'
      BY <1>h, <2>0, <3>2, <3>3, <3>4, <3>6, <3>7 DEF HeldBy, Durable
    <3> QED
      BY <1>c, <2>0, <3>2, <3>3, <3>8 DEF Custody, SlotQueue
  <2>5. CASE Load
    <3>1. Quiet /\ snapshot = <<>>
      BY <1>0, <2>5, RequeueIsQuiet DEF Load
    <3>2. UNCHANGED <<pending, worker, snapshot, claims, file>> /\ slots' = file
      BY <2>5 DEF Load, StepTo, queue, scheduler
    <3>3. \A s \in Slot : ~Executed(s)'
      BY <1>e, <3>1, <3>2 DEF Executed, Quiet, Active
    <3> QED
      BY <1>c, <2>0, <3>1, <3>2, <3>3, CustodyEmpty DEF Quiet
  <2> QED
    BY <1>8, <2>1, <2>2, <2>3, <2>4, <2>5 DEF Operate
<1>9. CASE CrashAndRestart
  <2>1. /\ pending' = <<>> /\ snapshot' = <<>> /\ claims' = {} /\ slots' = file
        /\ file' = file /\ rounds' = rounds
        /\ caller'.trigger = "manual" /\ caller'.slot = NoSlot
    BY <1>9 DEF CrashAndRestart, NoRequest
  <2>2. worker' = [w \in Worker |-> Idle]
    BY <1>9 DEF CrashAndRestart
  <2>3. \A s \in Slot : ~Executed(s)'
    BY <2>2 DEF Executed, Idle
  <2> QED
    BY <2>1, <2>3, CustodyEmpty
<1>10. CASE UNCHANGED vars
  BY <1>0, <1>10, CustodyWritten DEF vars, queue, store, operation, scheduler
<1> QED
  BY <1>1, <1>2, <1>3, <1>4, <1>5, <1>6, <1>7, <1>8, <1>9, <1>10 DEF Next, Tick

-----------------------------------------------------------------------------
(* The refinement of SlotLedger.                                           *)

IInv == Serialised /\ Fresh /\ Custody

LEMMA IInvCorrect == Spec => []IInv
<1>1. Init => Custody /\ Fresh
  BY InitCustody, InitFresh
<1>2. Serialised /\ Fresh /\ Custody /\ [Next]_vars => Fresh' /\ Custody'
  BY FreshStep, CustodyStep
<1> QED
  BY <1>1, <1>2, SerialisedCorrect, PTL DEF Spec, IInv

LEMMA LedgerInit == Init => Ledger!Init
  BY DEF Init, Ledger!Init

(* A write of the file, of the slots as they are in memory, keeps the      *)
(* claims of the slots whose round has ended.                              *)
LEMMA LedgerWrite ==
  ASSUME TypeOK, Custody, file' = file \/ file' = slots, rounds' = rounds
  PROVE  Ledger!Write
<1>1. file' \in [Slot -> {"absent", "planned", "started"}]
  BY DEF TypeOK
<1>2. \A s \in Slot : rounds[s] > 0 => file'[s] = "started"
  BY DEF Custody, HeldBy, TypeOK
<1> QED
  BY <1>1, <1>2 DEF Ledger!Write

(* The end of a round is the one step that changes rounds.                 *)
LEMMA LedgerEnd ==
  ASSUME TypeOK, Custody, NEW w \in Worker, RoundEnds(w)
  PROVE  (\E s \in Slot : Ledger!End(s)) \/ (file' = file /\ rounds' = rounds)
<1>1. file' = file /\ worker[w].pc = "run" /\ rounds \in [Slot -> Nat]
  BY DEF RoundEnds, store, TypeOK
<1>2. CASE worker[w].req.slot \in Slot
  <2> DEFINE s == worker[w].req.slot
  <2>1. Executed(s) /\ HeldBy(s)
    BY <1>1, <1>2 DEF Executed, Custody
  <2>2. file[s] = "started" /\ rounds[s] = 0
    BY <2>1 DEF HeldBy, Durable
  <2>3. rounds' = [t \in Slot |-> rounds[t] + IF t = s THEN 1 ELSE 0]
    BY DEF RoundEnds
  <2> HIDE DEF s
  <2>4. \A t \in Slot : rounds'[t] = IF t = s THEN 1 ELSE rounds[t]
    BY <1>1, <2>2, <2>3
  <2>5. rounds' = [rounds EXCEPT ![s] = 1]
    BY <1>1, <2>3, <2>4
  <2> QED
    BY <1>1, <1>2, <2>2, <2>5 DEF Ledger!End, s
<1>3. CASE worker[w].req.slot \notin Slot
  <2>1. rounds' = rounds
    BY <1>1, <1>3 DEF RoundEnds
  <2> QED
    BY <1>1, <2>1
<1> QED
  BY <1>2, <1>3

LEMMA LedgerStep == IInv /\ [Next]_vars => [Ledger!Next]_(Ledger!vars)
<1> SUFFICES ASSUME IInv, [Next]_vars
             PROVE  Ledger!Next \/ (file' = file /\ rounds' = rounds)
  BY DEF Ledger!vars
<1>0. TypeOK /\ Custody
  BY DEF IInv, Serialised
<1>w. (file' = file \/ file' = slots) /\ rounds' = rounds => Ledger!Next
  BY <1>0, LedgerWrite DEF Ledger!Next
<1>1. CASE Manual
  BY <1>1 DEF Manual, store
<1>2. ASSUME NEW w \in Worker, RunQueue(w)
      PROVE  Ledger!Next \/ (file' = file /\ rounds' = rounds)
  <2>1. CASE RoundEnds(w)
    BY <1>0, <2>1, LedgerEnd DEF Ledger!Next
  <2>2. CASE RoundInterrupted(w) \/ RunWritten(w) \/ NextRun(w)
    BY <1>w, <2>2 DEF RoundInterrupted, RunWritten, NextRun, WriteTried, Written,
                      NotWritten, store
  <2> QED
    BY <1>2, <2>1, <2>2 DEF RunQueue
<1>3. ASSUME NEW w \in Worker, RoundWrites(w)
      PROVE  Ledger!Next
  BY <1>3, <1>w DEF RoundWrites, RunWrites, Written
<1>4. CASE Tick
  BY <1>4, <1>w DEF Tick, LoopFrame, Claim
<1>5. CASE Pass
  <2>1. rounds' = rounds
    BY <1>5 DEF Pass, LoopFrame
  <2>2. file' = file \/ file' = slots
    BY <1>5 DEF Pass, ClaimWritten, ClaimRolledBack, Dispatch, DispatchRefused,
                RefusalWritten, DispatchDone, LoopStops, WriteTried, Written,
                NotWritten, store
  <2> QED
    BY <2>1, <2>2, <1>w
<1>6. ASSUME NEW p \in Planner, Plan(p) \/ PlanDone(p)
      PROVE  Ledger!Next
  BY <1>6, <1>w DEF Plan, PlanDone, PlanFrame, AddSlot, SlotWritten, SlotWriteFailed,
                    Written, NotWritten
<1>7. ASSUME NEW name \in {"configure", "quiesce", "shutdown", "display"}, Begin(name)
      PROVE  Ledger!Next
  BY <1>7, <1>w DEF Begin, store
<1>8. CASE Operate
  <2>1. rounds' = rounds
    BY <1>8 DEF Operate
  <2>2. file' = file \/ file' = slots
    BY <1>8 DEF Operate, DisplaySaved, CloseGate, StopScheduler, Await,
                RequeuePending, PendingWritten, Load, InstallScheduler,
                StartScheduler, OperationDone, WriteTried, Written, NotWritten, store
  <2> QED
    BY <2>1, <2>2, <1>w
<1>9. CASE CrashAndRestart
  BY <1>9 DEF CrashAndRestart
<1>10. CASE UNCHANGED vars
  BY <1>10 DEF vars, store
<1> QED
  BY <1>1, <1>2, <1>3, <1>4, <1>5, <1>6, <1>7, <1>8, <1>9, <1>10 DEF Next

(* The slots on disk and the rounds that end keep the promise of           *)
(* SlotLedger: a round ends only under a claim that is on disk, a slot has *)
(* one such round, and its claim is never taken back from the file.        *)
THEOREM LedgerRefinement == Spec => ImplementsLedger
  BY LedgerInit, LedgerStep, IInvCorrect, PTL DEF Spec, ImplementsLedger, Ledger!Spec
=============================================================================
