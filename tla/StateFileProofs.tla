--------------------------- MODULE StateFileProofs --------------------------
(***************************************************************************)
(* Proofs about StateFile for every set of files and for every bound on    *)
(* calls, damages, failed writes and crashes.                              *)
(*                                                                         *)
(* The invariants of the runs are not inductive: what is on disk after a   *)
(* write depends on the clone that is being written, and what is in memory *)
(* after a reload on what an operator destroyed.  Typed says where the     *)
(* operation and the threads are; Stored follows a call from               *)
(* reserveAttempt through the clones to the file; Shown does the same for  *)
(* the setting of the display; Vetted is what configure knows of the file  *)
(* it changes to.                                                          *)
(***************************************************************************)
EXTENDS StateFile, TLAPS

-----------------------------------------------------------------------------
(* The invariants.                                                         *)

Operation ==
  [kind : {"none", "display", "configure", "quiesce"},
   pc : {"idle", "save", "validate", "quiesce", "close", "read", "refused", "drained"},
   target : Path, enabled : BOOLEAN, had : BOOLEAN, open : BOOLEAN, since : Nat]

(* A destroyed file holds nothing, and unless its state is still in memory *)
(* nothing is expected of it.                                              *)
Destroyed ==
  \A p \in damaged :
    /\ file[p].is # "ok" /\ file[p].state = NewState
    /\ p # path \/ ~registered => paid[p] = {} /\ confirmed[p] = FALSE

(* The calls: what was paid is in memory, in the file, and in the clone    *)
(* that is about to take the place of the file; so is the call that is     *)
(* reserved, before it is sent.                                            *)
Stored ==
  /\ CallsAreStored /\ CallsAreRemembered
  /\ \A w \in Worker : persistMu = w => paid[path] \subseteq snapshot[w].attempts
  /\ thread["round"] \in {"clone", "write", "send"} => calls \in mem.attempts
  /\ thread["round"] = "write" => calls \in snapshot["round"].attempts
  /\ thread["round"] = "send" =>
       /\ persistMu = "loop" => calls \in snapshot["loop"].attempts
       /\ path \notin damaged => calls \in Read(path).attempts

(* The setting confirmed to the user is in memory, in the file and in the  *)
(* clone; a refresh that loads names does it because it is on.             *)
Shown ==
  /\ registered => mem.display = confirmed[path]
  /\ thread["round"] = "load" => mem.display = TRUE
  /\ \A w \in Worker : persistMu = w => snapshot[w].display = confirmed[path]
  /\ \A p \in Path \ damaged : file[p].state.display = confirmed[p]

(* What configure found out about the file it changes to before it stopped *)
(* the scheduler: as long as no file is destroyed only the first state of  *)
(* the process can make it refuse a missing file afterwards, and nothing   *)
(* takes that state back, as no round or write is under way any more.      *)
Vetted ==
  /\ op.pc = "validate" => op.open = ~closed
  /\ /\ op.pc \in {"quiesce", "read"} /\ op.kind = "configure"
     /\ op.target # path /\ damages = op.since
     => ~Unusable(op.target, op.had)
  /\ /\ op.pc = "refused" /\ op.open /\ closed
     /\ op.target # path /\ damages = op.since
     => ~op.had /\ HadState /\ Missing(op.target) /\ Idle

-----------------------------------------------------------------------------
(* Types, and where the operation and the threads are.                     *)

(* The types of what is stored, and of who stores it. *)
DataTypes ==
  /\ file \in [Path -> [is : {"ok", "missing", "corrupt"}, state : State]]
  /\ mem \in State
  /\ snapshot \in [Worker -> State]
  /\ paid \in [Path -> SUBSET Call]
  /\ confirmed \in [Path -> BOOLEAN]
  /\ damaged \subseteq Path
  /\ calls \in Call

ThreadTypes ==
  /\ thread \in [Worker -> {"idle", "refresh", "load", "query", "reserve",
                            "clone", "write", "send", "append", "cloneRun",
                            "writeRun"}]
  /\ persistMu \in Worker \cup {"free"}
  /\ displayMu \in {"free", "round", "op"}
  /\ \A w \in Worker : persistMu = w <=> thread[w] \in {"write", "writeRun"}
  /\ displayMu = "round" <=> thread["round"] = "load"
  /\ displayMu = "op" <=> op.kind = "display"

OperationTypes ==
  /\ path \in Path
  /\ {registered, closed} \subseteq BOOLEAN
  /\ op \in Operation /\ op.since <= damages
  /\ op.pc \in {"validate", "close", "read", "refused"} => op.kind = "configure"
  /\ op.pc \in {"quiesce", "drained"} => op.kind \in {"configure", "quiesce"}
  /\ damages \in Nat
  /\ \A w \in Worker : thread[w] # "idle" => registered
  /\ op.kind = "display" => registered

Typed == DataTypes /\ ThreadTypes /\ OperationTypes

LEMMA TypedImplies == Typed => TypeOK
<1> SUFFICES ASSUME Typed PROVE TypeOK
  OBVIOUS
<1>1. op.kind \in {"none", "display", "configure", "quiesce"} /\ op.target \in Path
  BY DEF Typed, OperationTypes, Operation
<1> QED
  BY <1>1 DEF Typed, DataTypes, ThreadTypes, OperationTypes, TypeOK

(* readState only adds attempts, and leaves the setting as it is. *)
LEMMA ReadAdds ==
  ASSUME NEW s \in State
  PROVE  /\ Imported(s) \in State /\ s.attempts \subseteq Imported(s).attempts
         /\ Imported(s).display = s.display
<1>1. CASE s.attempts = {}
  BY <1>1 DEF Imported, State
<1>2. CASE s.attempts # {}
  BY <1>2 DEF Imported
<1> QED
  BY <1>1, <1>2

(* What is new joins the rest of the state. *)
LEMMA GrownAdds ==
  ASSUME NEW s \in State, NEW new \in SUBSET Other
  PROVE  /\ Grown(s, new) \in State /\ Grown(s, new).attempts = s.attempts
         /\ Grown(s, new).history = s.history /\ Grown(s, new).display = s.display
         /\ s.other \subseteq Grown(s, new).other
<1>1. [s EXCEPT !.other = @ \cup new] \in State
  BY DEF State
<1> QED
  BY <1>1 DEF Grown, State

(* A failed write of the loop takes the slots back and nothing else. *)
LEMMA TakenBack ==
  ASSUME NEW s \in State, NEW t \in {s, [s EXCEPT !.other = @ \ {"slots"}]}
  PROVE  t \in State /\ t.attempts = s.attempts /\ t.display = s.display
BY DEF State

(* What the loop, a query and the record of a round do to the state: the   *)
(* calls reserved and the setting stay.                                    *)
LEMMA Changes ==
  ASSUME DataTypes, LoopChanges \/ LoopWrites \/ SaveQuota \/ AppendRun
  PROVE  mem' \in State /\ mem'.attempts = mem.attempts /\ mem'.display = mem.display
<1>0. mem \in State /\ {"rest"} \in SUBSET Other /\ calls \in Call
  BY DEF DataTypes, Other
<1>1. CASE LoopChanges
  <2>1. PICK o \in Other : mem' = Grown(mem, {o})
    BY <1>1 DEF LoopChanges
  <2> QED
    BY <1>0, <2>1, GrownAdds
<1>2. CASE LoopWrites
  BY <1>0, <1>2, TakenBack DEF LoopWrites
<1>3. CASE SaveQuota
  BY <1>0, <1>3, GrownAdds DEF SaveQuota
<1>4. CASE AppendRun
  <2>1. [mem EXCEPT !.history = @ \cup {calls}] \in State
    BY <1>0 DEF State
  <2>2. /\ [mem EXCEPT !.history = @ \cup {calls}].attempts = mem.attempts
        /\ [mem EXCEPT !.history = @ \cup {calls}].display = mem.display
    BY <1>0 DEF State
  <2>3. mem' = [mem EXCEPT !.history = @ \cup {calls}] \/ mem' = Grown(mem, {"rest"})
    BY <1>4 DEF AppendRun
  <2> QED
    BY <1>0, <2>1, <2>2, <2>3, GrownAdds
<1> QED
  BY <1>1, <1>2, <1>3, <1>4

LEMMA NewStates ==
  /\ NewState \in State /\ V04File \in [is : {"ok", "missing", "corrupt"}, state : State]
  /\ \A why \in {"missing", "corrupt"} :
       NoFile(why) \in [is : {"ok", "missing", "corrupt"}, state : State]
  /\ NoOp \in Operation
<1>1. 0 \in Call
  BY StateFileAssumption DEF Call
<1>2. NewState \in State
  BY DEF NewState, State
<1>3. [NewState EXCEPT !.history = {0}] \in State
  BY <1>1 DEF NewState, State
<1>4. NoOp \in Operation
  BY StateFileAssumption DEF NoOp, Operation
<1> QED
  BY <1>2, <1>3, <1>4 DEF V04File, NoFile

LEMMA InitTyped == Init => Typed
<1> SUFFICES ASSUME Init PROVE Typed
  OBVIOUS
<1>1. 0 \in Call /\ DefaultPath \in Path
  BY StateFileAssumption DEF Call
<1>2. DataTypes
  BY <1>1, NewStates DEF Init, DataTypes
<1>3. ThreadTypes
  BY DEF Init, ThreadTypes, NoOp, Worker
<1>4. OperationTypes
  <2>1. /\ op \in Operation /\ op.kind = "none" /\ op.pc = "idle" /\ op.since = 0
        /\ damages = 0 /\ path \in Path
        /\ \A w \in Worker : thread[w] = "idle"
    BY <1>1, NewStates DEF Init, NoOp
  <2>2. {registered, closed} \subseteq BOOLEAN
    BY DEF Init
  <2>3. op.since <= damages /\ damages \in Nat
    BY <2>1
  <2> QED
    BY <2>1, <2>2, <2>3 DEF OperationTypes
<1> QED
  BY <1>2, <1>3, <1>4 DEF Typed

(* A write keeps the types. *)
LEMMA WriteTypes ==
  ASSUME DataTypes, path \in Path, NEW s \in State, Written(s) \/ NotWritten
  PROVE  /\ file' \in [Path -> [is : {"ok", "missing", "corrupt"}, state : State]]
         /\ damaged' \subseteq Path
<1>1. CASE Written(s)
  BY <1>1 DEF Written, DataTypes
<1>2. CASE NotWritten
  BY <1>2 DEF NotWritten, DataTypes
<1> QED
  BY <1>1, <1>2

LEMMA SaveTypes ==
  ASSUME DataTypes, path \in Path, NEW enabled \in BOOLEAN, SaveDisplay(enabled)
  PROVE  /\ file' \in [Path -> [is : {"ok", "missing", "corrupt"}, state : State]]
         /\ damaged' \subseteq Path /\ mem' \in State
<1>1. [mem EXCEPT !.display = enabled] \in State
  BY DEF DataTypes, State
<1>2. mem \in State
  BY DEF DataTypes
<1> QED
  BY <1>1, <1>2, WriteTypes DEF SaveDisplay

LEMMA WorkTyped == Typed /\ Work => Typed'
<1> SUFFICES ASSUME Typed, Work PROVE Typed'
  OBVIOUS
<1>0. DataTypes /\ ThreadTypes /\ OperationTypes /\ path \in Path
  BY DEF Typed, OperationTypes
<1>f. UNCHANGED <<path, registered, closed, op, damages>>
  BY DEF Work
<1>o. ASSUME NEW w \in Worker, NEW to, thread' = [thread EXCEPT ![w] = to],
             thread[w] # "idle" \/ registered
      PROVE  OperationTypes'
  BY <1>0, <1>f, <1>o DEF OperationTypes, ThreadTypes
<1>1. ASSUME NEW w \in Worker, NEW from \in {"idle", "clone", "cloneRun"},
             NEW to \in {"write", "writeRun"}, Clone(w, from, to),
             from # "idle" \/ registered
      PROVE  Typed'
  <2>1. DataTypes'
    BY <1>0, <1>1 DEF Clone, DataTypes, ghosts
  <2>2. ThreadTypes'
    BY <1>0, <1>1, <1>f DEF Clone, ThreadTypes, Worker
  <2>3. OperationTypes'
    BY <1>1, <1>o DEF Clone
  <2> QED
    BY <2>1, <2>2, <2>3 DEF Typed
<1>2. ASSUME NEW w \in Worker, thread[w] \in {"write", "writeRun"},
             NEW to \in {"idle", "send", "append"},
             Written(snapshot[w]) \/ NotWritten, Release(w, to), mem' \in State,
             UNCHANGED <<displayMu, paid, confirmed, calls>>
      PROVE  Typed'
  <2>1. snapshot[w] \in State /\ snapshot' \in [Worker -> State]
    BY <1>0, <1>2, NewStates DEF DataTypes, Release
  <2>2. DataTypes'
    BY <1>0, <1>2, <2>1, WriteTypes DEF DataTypes
  <2>3. ThreadTypes'
    BY <1>0, <1>2, <1>f DEF Release, ThreadTypes, Worker
  <2>4. OperationTypes'
    BY <1>2, <1>o DEF Release
  <2> QED
    BY <2>2, <2>3, <2>4 DEF Typed
<1>m. mem \in State
  BY <1>0 DEF DataTypes
<1>3. CASE LoopPersists
  <2>1. CASE LoopChanges
    <3>1. mem' \in State
      BY <1>0, <2>1, Changes
    <3>2. DataTypes'
      BY <1>0, <2>1, <3>1 DEF LoopChanges, DataTypes, ghosts
    <3>3. ThreadTypes'
      BY <1>0, <2>1, <1>f DEF LoopChanges, Goes, ThreadTypes, Worker, mutexes
    <3>4. OperationTypes'
      BY <2>1, <1>o DEF LoopChanges, Goes, Worker
    <3> QED
      BY <3>2, <3>3, <3>4 DEF Typed
  <2>2. CASE Clone("loop", "clone", "write")
    BY <1>1, <2>2 DEF Worker
  <2>3. CASE ~closed /\ registered /\ Clone("loop", "idle", "write")
    BY <1>1, <2>3 DEF Worker
  <2>4. CASE LoopWrites
    <3>1. mem' \in State
      BY <1>0, <2>4, Changes
    <3> QED
      BY <1>2, <2>4, <3>1 DEF LoopWrites, Worker
  <2> QED
    BY <1>3, <2>1, <2>2, <2>3, <2>4 DEF LoopPersists
<1>4. CASE RoundBegins \/ RefreshBegins \/ LoadFails
  <2>1. DataTypes'
    BY <1>0, <1>4 DEF RoundBegins, RefreshBegins, LoadFails, DataTypes, ghosts
  <2>2. ThreadTypes'
    BY <1>0, <1>4, <1>f DEF RoundBegins, RefreshBegins, LoadFails, Goes, ThreadTypes,
                            Worker, mutexes
  <2>3. OperationTypes'
    BY <1>4, <1>o DEF RoundBegins, RefreshBegins, LoadFails, Goes, Worker
  <2> QED
    BY <2>1, <2>2, <2>3 DEF Typed
<1>5. CASE RefreshSaved
  <2>1. DataTypes'
    BY <1>0, <1>5, SaveTypes DEF RefreshSaved, DataTypes
  <2>2. ThreadTypes'
    BY <1>0, <1>5, <1>f DEF RefreshSaved, Goes, ThreadTypes, Worker
  <2>3. OperationTypes'
    BY <1>5, <1>o DEF RefreshSaved, Goes, Worker
  <2> QED
    BY <2>1, <2>2, <2>3 DEF Typed
<1>6. CASE Reserve \/ Send \/ AppendRun
  <2>1. ASSUME Reserve PROVE DataTypes'
    <3>1. calls + 1 \in Call
      BY <1>0, <2>1, StateFileAssumption DEF Reserve, DataTypes, Call
    <3>2. mem' \in State
      BY <1>0, <2>1, <3>1 DEF Reserve, DataTypes, State
    <3> QED
      BY <1>0, <2>1, <3>1, <3>2 DEF Reserve, DataTypes, ghosts
  <2>2. ASSUME Send PROVE DataTypes'
    BY <1>0, <2>2 DEF Send, DataTypes
  <2>3. ASSUME AppendRun PROVE DataTypes'
    <3>1. mem' \in State
      BY <1>0, <2>3, Changes
    <3> QED
      BY <1>0, <2>3, <3>1 DEF AppendRun, DataTypes, ghosts
  <2>4. ThreadTypes'
    BY <1>0, <1>6, <1>f DEF Reserve, Send, AppendRun, Goes, ThreadTypes, Worker, mutexes
  <2>5. OperationTypes'
    BY <1>6, <1>o DEF Reserve, Send, AppendRun, Goes, Worker
  <2> QED
    BY <1>6, <2>1, <2>2, <2>3, <2>4, <2>5 DEF Typed
<1>7. CASE WriteReservation \/ WriteRun
  BY <1>2, <1>7, <1>m DEF WriteReservation, WriteRun, Worker
<1>8. CASE Clone("round", "clone", "write") \/ Clone("round", "cloneRun", "writeRun")
  BY <1>1, <1>8 DEF Worker
<1>9. CASE SaveQuota
  <2>1. mem' \in State
    BY <1>0, <1>9, Changes
  <2>2. /\ file' \in [Path -> [is : {"ok", "missing", "corrupt"}, state : State]]
        /\ damaged' \subseteq Path
    BY <1>0, <1>9, <2>1, WriteTypes DEF SaveQuota
  <2>3. DataTypes'
    BY <1>0, <1>9, <2>1, <2>2 DEF SaveQuota, DataTypes
  <2>4. ThreadTypes'
    BY <1>0, <1>9, <1>f DEF SaveQuota, Goes, ThreadTypes, Worker, mutexes
  <2>5. OperationTypes'
    BY <1>9, <1>o DEF SaveQuota, Goes, Worker
  <2> QED
    BY <2>3, <2>4, <2>5 DEF Typed
<1> QED
  BY <1>3, <1>4, <1>5, <1>6, <1>7, <1>8, <1>9 DEF Work

LEMMA TypedStep == Typed /\ [Next]_vars => Typed'
<1> SUFFICES ASSUME Typed, [Next]_vars PROVE Typed'
  OBVIOUS
<1>0. DataTypes /\ ThreadTypes /\ OperationTypes /\ path \in Path
  BY DEF Typed, OperationTypes
<1>d. UNCHANGED <<file, mem, snapshot, ghosts, calls>> => DataTypes'
  BY <1>0 DEF DataTypes, ghosts
<1>t. UNCHANGED <<thread, mutexes>> /\ op'.kind # "display" /\ op.kind # "display"
        => ThreadTypes'
  BY <1>0 DEF ThreadTypes, mutexes
<1>n. NoOp.kind = "none" /\ NoOp.pc = "idle" /\ NoOp.since = 0 /\ NoOp \in Operation
  BY NewStates DEF NoOp
<1>1. CASE Work
  BY <1>1, WorkTyped
<1>2. CASE SetBegins
  <2>1. PICK enabled \in BOOLEAN :
          op' = [NoOp EXCEPT !.kind = "display", !.pc = "save", !.enabled = enabled]
    BY <1>2 DEF SetBegins
  <2>2. /\ op' \in Operation /\ op'.kind = "display" /\ op'.pc = "save" /\ op'.since = 0
    BY <2>1, StateFileAssumption DEF NoOp, Operation
  <2>3. /\ displayMu = "free" /\ displayMu' = "op" /\ registered /\ op = NoOp
        /\ UNCHANGED <<file, mem, path, registered, closed, thread, snapshot,
                       persistMu, ghosts, calls, damages>>
    BY <1>2 DEF SetBegins, bounds
  <2>4. ThreadTypes'
    BY <1>0, <2>2, <2>3 DEF ThreadTypes
  <2>5. OperationTypes'
    BY <1>0, <2>2, <2>3 DEF OperationTypes
  <2> QED
    BY <1>d, <2>3, <2>4, <2>5 DEF Typed
<1>3. CASE SetSaved
  <2>1. /\ op.kind = "display" /\ op' = NoOp /\ displayMu' = "free"
        /\ UNCHANGED <<path, registered, closed, thread, snapshot, persistMu, paid,
                       calls, damages>>
    BY <1>3 DEF SetSaved, SetReturns, bounds
  <2>2. op.enabled \in BOOLEAN
    BY <1>0 DEF OperationTypes, Operation
  <2>3. /\ file' \in [Path -> [is : {"ok", "missing", "corrupt"}, state : State]]
        /\ damaged' \subseteq Path /\ mem' \in State
        /\ confirmed' \in [Path -> BOOLEAN]
    <3>1. CASE SaveDisplay(op.enabled)
                 /\ confirmed' = IF file' # file
                                 THEN [confirmed EXCEPT ![path] = op.enabled]
                                 ELSE confirmed
      BY <1>0, <2>2, <3>1, SaveTypes DEF DataTypes
    <3>2. CASE UNCHANGED <<file, mem, confirmed, damaged, failures>>
      BY <1>0, <3>2 DEF DataTypes
    <3> QED
      BY <1>3, <3>1, <3>2 DEF SetSaved
  <2>4. DataTypes'
    BY <1>0, <2>1, <2>3 DEF DataTypes
  <2>5. ThreadTypes'
    BY <1>0, <1>n, <2>1 DEF ThreadTypes
  <2>6. OperationTypes'
    BY <1>0, <1>n, <2>1 DEF OperationTypes
  <2> QED
    BY <2>4, <2>5, <2>6 DEF Typed
<1>4. CASE Control
  <2>1. UNCHANGED <<file, mem, path, registered, thread, snapshot, mutexes, ghosts,
                    calls, damages>>
    BY <1>4 DEF Control, ConfigureBegins, QuiesceBegins, Validate, Quiesce, Refuse,
                Return, bounds
  <2>2. /\ op' \in Operation /\ op'.since <= damages
        /\ op.kind # "display" /\ op'.kind # "display" /\ closed' \in BOOLEAN
        /\ op'.pc \in {"validate", "close", "read", "refused"} => op'.kind = "configure"
        /\ op'.pc \in {"quiesce", "drained"} => op'.kind \in {"configure", "quiesce"}
    <3>0. /\ op \in Operation /\ op.since <= damages /\ damages \in Nat
          /\ {registered, closed} \subseteq BOOLEAN
      BY <1>0 DEF OperationTypes
    <3>1. CASE ConfigureBegins
      <4>1. HadState \in BOOLEAN /\ (~closed) \in BOOLEAN
        BY DEF HadState
      <4>2. PICK target \in Path :
              op' = [NoOp EXCEPT !.kind = "configure", !.target = target,
                                 !.pc = IF target # path THEN "validate" ELSE "quiesce",
                                 !.had = HadState, !.open = ~closed,
                                 !.since = damages]
        BY <3>1 DEF ConfigureBegins
      <4>3. op' = [kind |-> "configure",
                   pc |-> IF target # path THEN "validate" ELSE "quiesce",
                   target |-> target, enabled |-> FALSE, had |-> HadState,
                   open |-> ~closed, since |-> damages]
        BY <4>2 DEF NoOp
      <4> HIDE DEF HadState
      <4>4. op' \in Operation
        BY <3>0, <4>1, <4>3 DEF Operation
      <4> QED
        BY <1>n, <3>0, <3>1, <4>3, <4>4 DEF ConfigureBegins
    <3>2. CASE QuiesceBegins
      <4>1. op' = [kind |-> "quiesce", pc |-> "quiesce", target |-> DefaultPath,
                   enabled |-> FALSE, had |-> FALSE, open |-> FALSE, since |-> 0]
        BY <3>2 DEF QuiesceBegins, NoOp
      <4> QED
        BY <1>n, <3>0, <3>2, <4>1, StateFileAssumption DEF QuiesceBegins, Operation
    <3>3. CASE Validate \/ Quiesce \/ Refuse
      <4>1. PICK pc \in {"quiesce", "close", "refused", "drained", "read"} :
              op' = [op EXCEPT !.pc = pc]
        BY <3>3 DEF Validate, Quiesce, Refuse
      <4>2. op' \in Operation /\ op'.kind = op.kind /\ op'.since = op.since
        BY <3>0, <4>1 DEF Operation
      <4>3. /\ op.pc \in {"validate", "quiesce", "close", "read"}
            /\ op'.pc = pc
            /\ op.pc \in {"validate", "read"} => pc # "drained"
            /\ op.pc = "quiesce" /\ op.kind = "quiesce" => pc = "drained"
        BY <3>0, <3>3, <4>1 DEF Validate, Quiesce, Refuse, Operation
      <4>4. closed' \in BOOLEAN
        BY <3>0, <3>3 DEF Validate, Quiesce, Refuse
      <4> QED
        BY <1>0, <3>0, <4>2, <4>3, <4>4 DEF OperationTypes
    <3>4. CASE Return
      BY <1>0, <1>n, <3>0, <3>4 DEF Return, Returns, OperationTypes
    <3> QED
      BY <1>4, <3>1, <3>2, <3>3, <3>4 DEF Control
  <2>3. ThreadTypes'
    BY <1>t, <2>1, <2>2
  <2>4. OperationTypes'
    BY <1>0, <2>1, <2>2 DEF OperationTypes
  <2> QED
    BY <1>d, <2>1, <2>3, <2>4 DEF Typed
<1>5. CASE Install
  <2>1. /\ op.pc = "read" /\ op' = NoOp /\ op.target \in Path /\ op.kind = "configure"
        /\ mem' = Imported(file[op.target].state) /\ path' = op.target
        /\ registered' = TRUE /\ closed' = FALSE
        /\ UNCHANGED <<file, thread, snapshot, mutexes, damaged, calls, damages>>
    BY <1>0, <1>5 DEF Install, Returns, Read, bounds, OperationTypes, Operation
  <2>2. mem' \in State
    BY <1>0, <2>1, ReadAdds DEF DataTypes
  <2>3. /\ paid' \in [Path -> SUBSET Call] /\ confirmed' \in [Path -> BOOLEAN]
    <3>1. /\ paid' = paid \/ paid' = [paid EXCEPT ![path] = {}]
          /\ confirmed' = confirmed \/ confirmed' = [confirmed EXCEPT ![path] = FALSE]
      BY <1>5 DEF Install
    <3> QED
      BY <1>0, <3>1 DEF DataTypes
  <2>4. DataTypes'
    BY <1>0, <2>1, <2>2, <2>3 DEF DataTypes
  <2>5. OperationTypes'
    <3>1. damages \in Nat /\ \A w \in Worker : thread[w] # "idle" => registered
      BY <1>0 DEF OperationTypes
    <3>2. {registered', closed'} \subseteq BOOLEAN
      BY <2>1
    <3>3. damages' \in Nat /\ op'.since <= damages' /\ op' \in Operation
          /\ op'.kind = "none" /\ op'.pc = "idle" /\ path' \in Path
      BY <1>n, <2>1, <3>1
    <3>4. registered'
      BY <2>1
    <3> QED
      BY <3>2, <3>3, <3>4 DEF OperationTypes
  <2> QED
    BY <1>t, <1>n, <2>1, <2>4, <2>5 DEF Typed
<1>6. CASE Damage
  <2>1. PICK p \in Path, what \in {"missing", "corrupt"} :
          /\ file' = [file EXCEPT ![p] = NoFile(what)]
          /\ damaged' = damaged \cup {p}
          /\ IF p # path \/ ~registered
             THEN /\ paid' = [paid EXCEPT ![p] = {}]
                  /\ confirmed' = [confirmed EXCEPT ![p] = FALSE]
             ELSE UNCHANGED <<paid, confirmed>>
    BY <1>6 DEF Damage
  <2>2. /\ damages' = damages + 1
        /\ UNCHANGED <<mem, path, registered, closed, op, thread, snapshot, mutexes,
                       calls>>
    BY <1>6 DEF Damage
  <2>3. NoFile(what) \in [is : {"ok", "missing", "corrupt"}, state : State]
    BY NewStates
  <2>4. file' \in [Path -> [is : {"ok", "missing", "corrupt"}, state : State]]
    BY <1>0, <2>1, <2>3 DEF DataTypes
  <2>5. paid' \in [Path -> SUBSET Call] /\ confirmed' \in [Path -> BOOLEAN]
    BY <1>0, <2>1 DEF DataTypes
  <2>6. DataTypes'
    BY <1>0, <2>1, <2>2, <2>4, <2>5 DEF DataTypes
  <2>7. ThreadTypes'
    BY <1>0, <2>2 DEF ThreadTypes, mutexes
  <2>8. op.since \in Nat
    BY <1>0 DEF OperationTypes, Operation
  <2>9. OperationTypes'
    BY <1>0, <2>2, <2>8 DEF OperationTypes
  <2> QED
    BY <2>6, <2>7, <2>9 DEF Typed
<1>7. CASE CrashAndRestart
  <2>1. /\ mem' = NewState /\ path' = DefaultPath /\ registered' = FALSE
        /\ closed' = FALSE /\ op' = NoOp
        /\ thread' = [w \in Worker |-> "idle"]
        /\ snapshot' = [w \in Worker |-> NewState]
        /\ persistMu' = "free" /\ displayMu' = "free"
        /\ UNCHANGED <<file, damaged, calls, damages>>
    BY <1>7 DEF CrashAndRestart
  <2>2. /\ paid' \in [Path -> SUBSET Call] /\ confirmed' \in [Path -> BOOLEAN]
    BY <1>0, <1>7 DEF CrashAndRestart, DataTypes
  <2>3. DataTypes'
    BY <1>0, <2>1, <2>2, NewStates DEF DataTypes
  <2>4. ThreadTypes'
    BY <1>n, <2>1 DEF ThreadTypes, Worker
  <2>5. OperationTypes'
    <3>1. /\ op' \in Operation /\ op'.kind = "none" /\ op'.pc = "idle" /\ op'.since = 0
          /\ path' \in Path /\ \A w \in Worker : thread'[w] = "idle"
      BY <1>n, <2>1, StateFileAssumption
    <3>2. {registered', closed'} \subseteq BOOLEAN
      BY <2>1
    <3>3. damages \in Nat
      BY <1>0 DEF OperationTypes
    <3>4. damages' \in Nat /\ op'.since <= damages'
      BY <2>1, <3>1, <3>3
    <3> QED
      BY <3>1, <3>2, <3>4 DEF OperationTypes
  <2> QED
    BY <2>3, <2>4, <2>5 DEF Typed
<1>8. CASE UNCHANGED vars
  <2>1. ThreadTypes' /\ OperationTypes'
    BY <1>0, <1>8 DEF vars, bounds, mutexes, ThreadTypes, OperationTypes
  <2> QED
    BY <1>d, <1>8, <2>1 DEF vars, bounds, Typed
<1> QED
  BY <1>1, <1>2, <1>3, <1>4, <1>5, <1>6, <1>7, <1>8 DEF Next

LEMMA TypedCorrect == Spec => []Typed
  BY InitTyped, TypedStep, PTL DEF Spec

(* Every variable keeps its type, and each mutex is with the one that is   *)
(* inside its critical section.                                            *)
THEOREM TypeCorrect == Spec => []TypeOK
  BY TypedCorrect, TypedImplies, PTL

-----------------------------------------------------------------------------
(* The calls.                                                              *)

LEMMA InitStored == Init => Destroyed /\ Stored
<1> SUFFICES ASSUME Init PROVE Destroyed /\ Stored
  OBVIOUS
<1>1. Destroyed
  BY DEF Init, Destroyed
<1>2. \A p \in Path : paid[p] \subseteq Read(p).attempts
  <2> TAKE p \in Path
  <2>1. CASE file[p] = NoFile("missing")
    BY <2>1 DEF Init, Missing, NoFile
  <2>2. CASE file[p] = V04File
    <3>1. file[p].state.attempts = {} /\ file[p].state.history = {0}
      BY <2>2 DEF V04File, NewState
    <3>2. file[p].state \in State
      BY <2>2, NewStates
    <3>3. Read(p).attempts = {0}
      BY <3>1, <3>2 DEF Read, Imported, State
    <3>4. paid[p] \subseteq {0}
      BY DEF Init
    <3> QED
      BY <3>3, <3>4
  <2> QED
    BY <2>1, <2>2 DEF Init
<1> QED
  BY <1>1, <1>2 DEF Init, Stored, CallsAreStored, CallsAreRemembered, Worker

(* A write of a state that holds the calls puts them on disk, and what is  *)
(* on disk for the other files stays.                                      *)
LEMMA WrittenKeeps ==
  ASSUME Typed, Destroyed, CallsAreStored, NEW s \in State, Written(s),
         paid[path] \subseteq s.attempts,
         UNCHANGED <<paid, path, registered>>,
         \A p \in Path \ {path} : confirmed'[p] = confirmed[p]
  PROVE  CallsAreStored' /\ Destroyed' /\ s.attempts \subseteq Read(path)'.attempts
<1>0. DataTypes /\ path \in Path
  BY DEF Typed, OperationTypes
<1>1. /\ damaged' = damaged \ {path} /\ file'[path] = [is |-> "ok", state |-> s]
      /\ \A p \in Path \ {path} : file'[p] = file[p]
  BY <1>0 DEF Written, DataTypes
<1>2. s.attempts \subseteq Read(path)'.attempts
  BY <1>1, ReadAdds DEF Read
<1>3. \A p \in Path \ {path} : Read(p)' = Read(p)
  BY <1>1 DEF Read
<1>4. CallsAreStored'
  BY <1>0, <1>1, <1>2, <1>3 DEF CallsAreStored
<1>5. Destroyed'
  BY <1>0, <1>1 DEF Destroyed, DataTypes
<1> QED
  BY <1>2, <1>4, <1>5

(* Nothing of it changes when nothing is written or paid. *)
LEMMA DiskKept ==
  ASSUME UNCHANGED <<file, damaged, paid, confirmed, path, registered>>
  PROVE  /\ CallsAreStored => CallsAreStored'
         /\ Destroyed => Destroyed'
         /\ Read(path)' = Read(path)
  BY DEF CallsAreStored, Destroyed, Read

LEMMA StoredWork ==
  ASSUME Typed, Destroyed, Stored, Work
  PROVE  Destroyed' /\ Stored'
<1>0. /\ DataTypes /\ ThreadTypes /\ OperationTypes /\ path \in Path
      /\ mem \in State /\ \A w \in Worker : snapshot[w] \in State
  BY DEF Typed, OperationTypes, DataTypes
<1>f. UNCHANGED <<path, registered, closed, op, damages>>
  BY DEF Work
<1>w. "round" \in Worker /\ "loop" \in Worker /\ Worker = {"round", "loop"}
  BY DEF Worker
<1>1. ASSUME NEW w \in Worker, NEW from,
             NEW to \in {"write", "writeRun"}, Clone(w, from, to),
             w = "round" /\ to = "write" => from = "clone",
             from # "idle" \/ registered
      PROVE  Destroyed' /\ Stored'
  <2>1. /\ persistMu = "free" /\ persistMu' = w /\ thread[w] = from
        /\ snapshot' = [snapshot EXCEPT ![w] = mem]
        /\ thread' = [thread EXCEPT ![w] = to]
        /\ UNCHANGED <<file, mem, paid, confirmed, damaged, calls>>
    BY <1>1 DEF Clone, ghosts
  <2>2. registered
    BY <1>0, <1>1, <2>1 DEF OperationTypes
  <2>3. paid[path] \subseteq mem.attempts
    BY <2>2 DEF Stored, CallsAreRemembered
  <2>4. snapshot'[w] = mem
    BY <1>0, <2>1 DEF DataTypes
  <2>5. CallsAreStored' /\ Destroyed' /\ Read(path)' = Read(path)
    BY <1>f, <2>1, DiskKept DEF Stored
  <2>6. CallsAreRemembered'
    BY <1>f, <2>1 DEF Stored, CallsAreRemembered
  <2>7. \A v \in Worker : persistMu' = v => paid'[path'] \subseteq snapshot'[v].attempts
    BY <1>f, <2>1, <2>3, <2>4
  <2>8. thread'["round"] \in {"clone", "write", "send"} => calls' \in mem'.attempts
    BY <1>0, <1>1, <1>w, <2>1 DEF Stored, ThreadTypes
  <2>9. thread'["round"] = "write" => calls' \in snapshot'["round"].attempts
    BY <1>0, <1>1, <1>w, <2>1, <2>4 DEF Stored, ThreadTypes
  <2>10. thread'["round"] = "send" =>
           /\ persistMu' = "loop" => calls' \in snapshot'["loop"].attempts
           /\ path' \notin damaged' => calls' \in Read(path)'.attempts
    BY <1>0, <1>1, <1>f, <1>w, <2>1, <2>4, <2>5 DEF Stored, ThreadTypes
  <2> QED
    BY <2>5, <2>6, <2>7, <2>8, <2>9, <2>10 DEF Stored
<1>2. ASSUME NEW w \in Worker, thread[w] \in {"write", "writeRun"},
             NEW to \in {"idle", "send", "append"},
             \/ Written(snapshot[w])
             \/ NotWritten /\ to # "send",
             to = "send" => w = "round" /\ thread[w] = "write",
             Release(w, to), mem'.attempts = mem.attempts,
             UNCHANGED <<paid, confirmed, calls>>
      PROVE  Destroyed' /\ Stored'
  <2>1. /\ persistMu = w /\ persistMu' = "free"
        /\ thread' = [thread EXCEPT ![w] = to]
    BY <1>0, <1>2 DEF ThreadTypes, Release
  <2>2. paid[path] \subseteq snapshot[w].attempts
    BY <2>1 DEF Stored
  <2>3. CallsAreStored' /\ Destroyed'
    BY <1>0, <1>2, <1>f, <2>2, WrittenKeeps, DiskKept DEF Stored, NotWritten
  <2>5. thread'["round"] = "send" =>
          (path' \notin damaged' => calls' \in Read(path)'.attempts)
    <3>1. CASE Written(snapshot[w])
      <4>1. snapshot[w].attempts \subseteq Read(path)'.attempts
        BY <1>0, <1>f, <1>2, <2>2, <3>1, WrittenKeeps DEF Stored
      <4>2. thread'["round"] = "send" => calls \in snapshot[w].attempts
        BY <1>0, <1>2, <1>w, <2>1 DEF Stored, ThreadTypes
      <4> QED
        BY <1>2, <4>1, <4>2
    <3>2. CASE NotWritten /\ to # "send"
      <4>1. Read(path)' = Read(path) /\ damaged' = damaged
        BY <1>f, <1>2, <3>2, DiskKept DEF NotWritten
      <4>2. thread'["round"] = "send" => thread["round"] = "send"
        BY <1>0, <1>w, <2>1, <3>2 DEF ThreadTypes
      <4> QED
        BY <1>2, <1>f, <4>1, <4>2 DEF Stored
    <3> QED
      BY <1>2, <3>1, <3>2
  <2>6. CallsAreRemembered'
    BY <1>f, <1>2 DEF Stored, CallsAreRemembered
  <2>7. thread'["round"] \in {"clone", "write", "send"} => calls' \in mem'.attempts
    BY <1>0, <1>2, <1>w, <2>1 DEF Stored, ThreadTypes
  <2>8. thread'["round"] # "write"
    BY <1>0, <1>w, <2>1 DEF ThreadTypes
  <2>9. \A v \in Worker : persistMu' # v
    BY <1>w, <2>1
  <2> QED
    BY <2>3, <2>5, <2>6, <2>7, <2>8, <2>9, <1>w DEF Stored
<1>3. ASSUME NEW to \in {"refresh", "load", "query", "cloneRun"},
             thread' = [thread EXCEPT !["round"] = to],
             UNCHANGED <<file, damaged, snapshot, persistMu, paid, confirmed, calls>>,
             mem'.attempts = mem.attempts
      PROVE  Destroyed' /\ Stored'
  <2>1. thread'["round"] = to
    BY <1>0, <1>3, <1>w DEF ThreadTypes
  <2>2. CallsAreStored' /\ Destroyed' /\ CallsAreRemembered'
    BY <1>3, <1>f, DiskKept DEF Stored, CallsAreRemembered
  <2> QED
    BY <1>3, <1>f, <2>1, <2>2 DEF Stored
<1>4. ASSUME thread["round"] # "idle", NEW to \in {"query", "reserve"},
             thread' = [thread EXCEPT !["round"] = to], persistMu = "free",
             NEW next \in State, next.attempts = mem.attempts,
             Written(next) \/ NotWritten, mem' \in {next, mem},
             UNCHANGED <<snapshot, persistMu, paid, confirmed, calls>>
      PROVE  Destroyed' /\ Stored'
  <2>1. registered /\ thread'["round"] = to
    BY <1>0, <1>w, <1>4 DEF ThreadTypes, OperationTypes
  <2>2. paid[path] \subseteq mem.attempts
    BY <2>1 DEF Stored, CallsAreRemembered
  <2>3. CallsAreStored' /\ Destroyed'
    BY <1>f, <1>4, <2>2, WrittenKeeps, DiskKept DEF Stored, NotWritten
  <2>4. CallsAreRemembered'
    BY <1>f, <1>4, <2>2 DEF CallsAreRemembered
  <2>5. \A w \in Worker : persistMu' # w
    BY <1>w, <1>4
  <2> QED
    BY <1>4, <2>1, <2>3, <2>4, <2>5 DEF Stored
<1>s. CASE RefreshSaved
  <2> DEFINE next == [mem EXCEPT !.display = TRUE]
  <2>1. next \in State /\ next.attempts = mem.attempts
    BY <1>0 DEF State
  <2>2. (Written(next) /\ mem' = next) \/ (NotWritten /\ mem' = mem)
    BY <1>s DEF RefreshSaved, SaveDisplay
  <2> HIDE DEF next
  <2>3. /\ thread["round"] = "load" /\ thread' = [thread EXCEPT !["round"] = "query"]
        /\ persistMu = "free"
        /\ UNCHANGED <<snapshot, persistMu, paid, confirmed, calls>>
    BY <1>s DEF RefreshSaved, Goes, SaveDisplay
  <2> QED
    BY <1>4, <2>1, <2>2, <2>3
<1>q. CASE SaveQuota
  <2>1. mem' \in State /\ mem'.attempts = mem.attempts
    BY <1>0, <1>q, Changes
  <2>2. /\ thread["round"] = "query" /\ thread' = [thread EXCEPT !["round"] = "reserve"]
        /\ persistMu = "free"
        /\ Written(mem') \/ NotWritten
        /\ UNCHANGED <<snapshot, persistMu, paid, confirmed, calls>>
    BY <1>q DEF SaveQuota, Goes, mutexes
  <2> QED
    BY <1>4, <2>1, <2>2
<1>5. CASE Reserve
  <2>1. /\ thread["round"] = "reserve" /\ thread' = [thread EXCEPT !["round"] = "clone"]
        /\ calls' = calls + 1
        /\ mem' = [mem EXCEPT !.attempts = @ \cup {calls + 1}, !.other = {}]
        /\ UNCHANGED <<file, snapshot, persistMu, paid, confirmed, damaged>>
    BY <1>5 DEF Reserve, Goes, mutexes, ghosts
  <2>2. mem'.attempts = mem.attempts \cup {calls'} /\ thread'["round"] = "clone"
    BY <1>0, <1>w, <2>1 DEF State, ThreadTypes
  <2>3. CallsAreStored' /\ Destroyed' /\ CallsAreRemembered'
    BY <1>f, <2>1, <2>2, DiskKept DEF Stored, CallsAreRemembered
  <2> QED
    BY <1>f, <2>1, <2>2, <2>3 DEF Stored
<1>6. CASE Send
  <2>1. /\ thread["round"] = "send" /\ thread' = [thread EXCEPT !["round"] = "append"]
        /\ paid' = [paid EXCEPT ![path] = @ \cup {calls}]
        /\ UNCHANGED <<file, mem, snapshot, persistMu, confirmed, damaged, calls>>
    BY <1>6 DEF Send, Goes, mutexes
  <2>2. /\ paid'[path] = paid[path] \cup {calls} /\ thread'["round"] = "append"
        /\ \A p \in Path \ {path} : paid'[p] = paid[p]
    BY <1>0, <1>w, <2>1 DEF DataTypes, ThreadTypes
  <2>3. registered /\ persistMu # "round"
    BY <1>0, <1>w, <2>1 DEF ThreadTypes, OperationTypes
  <2>4. \A p \in Path : Read(p)' = Read(p)
    BY <2>1 DEF Read
  <2>5. CallsAreStored'
    BY <1>f, <2>1, <2>2, <2>4 DEF Stored, CallsAreStored
  <2>6. Destroyed'
    BY <1>0, <1>f, <2>1, <2>2, <2>3 DEF Destroyed, DataTypes
  <2>7. CallsAreRemembered'
    BY <1>f, <2>1, <2>2 DEF Stored, CallsAreRemembered
  <2>8. \A w \in Worker : persistMu' = w => paid'[path'] \subseteq snapshot'[w].attempts
    BY <1>f, <1>w, <2>1, <2>2, <2>3 DEF Stored
  <2> QED
    BY <2>2, <2>5, <2>6, <2>7, <2>8 DEF Stored
<1>7. CASE LoopPersists
  <2>1. CASE Clone("loop", "clone", "write")
    BY <1>1, <1>w, <2>1
  <2>2. CASE ~closed /\ registered /\ Clone("loop", "idle", "write")
    BY <1>1, <1>w, <2>2
  <2>3. CASE LoopChanges
    <3>1. mem'.attempts = mem.attempts
      BY <1>0, <2>3, Changes
    <3>2. /\ thread' = [thread EXCEPT !["loop"] = "clone"]
          /\ UNCHANGED <<file, damaged, snapshot, persistMu, paid, confirmed, calls>>
      BY <2>3 DEF LoopChanges, Goes, mutexes, ghosts
    <3>3. thread'["round"] = thread["round"]
      BY <1>0, <1>w, <3>2 DEF ThreadTypes
    <3>4. CallsAreStored' /\ Destroyed' /\ CallsAreRemembered'
      BY <1>f, <3>1, <3>2, DiskKept DEF Stored, CallsAreRemembered
    <3>5. Read(path)' = Read(path)
      BY <1>f, <3>2, DiskKept
    <3> QED
      BY <1>f, <3>1, <3>2, <3>3, <3>4, <3>5 DEF Stored
  <2>4. CASE LoopWrites
    <3>1. mem'.attempts = mem.attempts
      BY <1>0, <2>4, Changes
    <3> QED
      BY <1>2, <1>w, <2>4, <3>1 DEF LoopWrites
  <2> QED
    BY <1>7, <2>1, <2>2, <2>3, <2>4 DEF LoopPersists
<1>8. CASE WriteReservation
  <2>1. /\ thread["round"] = "write" /\ UNCHANGED <<mem, paid, confirmed, calls>>
        /\ \/ Written(snapshot["round"]) /\ Release("round", "send")
           \/ NotWritten /\ Release("round", "append")
    BY <1>8 DEF WriteReservation
  <2> QED
    BY <1>2, <1>w, <2>1
<1>9. CASE WriteRun
  <2>1. /\ thread["round"] = "writeRun" /\ UNCHANGED <<mem, paid, confirmed, calls>>
        /\ Written(snapshot["round"]) \/ NotWritten
        /\ Release("round", "idle")
    BY <1>9 DEF WriteRun
  <2> QED
    BY <1>2, <1>w, <2>1
<1>10. CASE RoundBegins \/ RefreshBegins \/ LoadFails
  <2>1. PICK to \in {"refresh", "load", "query"} :
          thread' = [thread EXCEPT !["round"] = to]
    BY <1>10 DEF RoundBegins, RefreshBegins, LoadFails, Goes
  <2>2. UNCHANGED <<file, damaged, snapshot, persistMu, paid, confirmed, calls, mem>>
    BY <1>10 DEF RoundBegins, RefreshBegins, LoadFails, mutexes, ghosts
  <2> QED
    BY <1>3, <2>1, <2>2
<1>11. CASE AppendRun
  <2>1. /\ thread' = [thread EXCEPT !["round"] = "cloneRun"]
        /\ UNCHANGED <<file, damaged, snapshot, persistMu, paid, confirmed, calls>>
    BY <1>11 DEF AppendRun, Goes, mutexes, ghosts
  <2>2. mem'.attempts = mem.attempts
    BY <1>0, <1>11, Changes
  <2> QED
    BY <1>3, <2>1, <2>2
<1>12. CASE Clone("round", "clone", "write") \/ Clone("round", "cloneRun", "writeRun")
  BY <1>1, <1>12, <1>w
<1> QED
  BY <1>s, <1>q, <1>5, <1>6, <1>7, <1>8, <1>9, <1>10, <1>11, <1>12 DEF Work

LEMMA StoredStep ==
  Typed /\ Destroyed /\ Stored /\ [Next]_vars => Destroyed' /\ Stored'
<1> SUFFICES ASSUME Typed, Destroyed, Stored, [Next]_vars
             PROVE  Destroyed' /\ Stored'
  OBVIOUS
<1>0. /\ DataTypes /\ ThreadTypes /\ OperationTypes /\ path \in Path
      /\ mem \in State
  BY DEF Typed, OperationTypes, DataTypes
<1>w. Worker = {"round", "loop"}
  BY DEF Worker
<1>f. ASSUME UNCHANGED <<file, damaged, paid, confirmed, path, registered, mem, snapshot,
                         persistMu, calls, thread>>
      PROVE  Destroyed' /\ Stored'
  <2>1. CallsAreStored' /\ Destroyed' /\ Read(path)' = Read(path)
    BY <1>f, DiskKept DEF Stored
  <2> QED
    BY <1>f, <2>1 DEF Stored, CallsAreRemembered
<1>i. ASSUME \A w \in Worker : thread[w] = "idle", UNCHANGED thread,
             persistMu' = persistMu
      PROVE  thread'["round"] = "idle" /\ \A w \in Worker : persistMu' # w
  BY <1>0, <1>i, <1>w DEF ThreadTypes
<1>1. CASE Work
  BY <1>1, StoredWork
<1>2. CASE SetBegins
  BY <1>2, <1>f DEF SetBegins, ghosts, bounds
<1>3. CASE SetSaved
  <2>1. /\ op.kind = "display"
        /\ UNCHANGED <<path, registered, thread, snapshot, persistMu, paid, calls>>
    BY <1>3 DEF SetSaved, bounds
  <2>2. registered
    BY <1>0, <2>1 DEF OperationTypes
  <2>3. CASE UNCHANGED <<file, mem, confirmed, damaged, failures>>
    BY <1>f, <2>1, <2>3
  <2>4. CASE SaveDisplay(op.enabled)
             /\ confirmed' = IF file' # file
                             THEN [confirmed EXCEPT ![path] = op.enabled]
                             ELSE confirmed
    <3> DEFINE next == [mem EXCEPT !.display = op.enabled]
    <3>1. next \in State /\ next.attempts = mem.attempts
      BY <1>0 DEF State, OperationTypes, Operation
    <3>2. persistMu = "free" /\ ((Written(next) /\ mem' = next) \/ (NotWritten /\ mem' = mem))
      BY <2>4 DEF SaveDisplay
    <3> HIDE DEF next
    <3>3. paid[path] \subseteq mem.attempts
      BY <2>2 DEF Stored, CallsAreRemembered
    <3>4. \A p \in Path \ {path} : confirmed'[p] = confirmed[p]
      BY <1>0, <2>4 DEF DataTypes
    <3>5. CASE Written(next) /\ mem' = next
      <4>1. CallsAreStored' /\ Destroyed' /\ next.attempts \subseteq Read(path)'.attempts
        BY <2>1, <3>1, <3>3, <3>4, <3>5, WrittenKeeps DEF Stored
      <4>2. thread'["round"] \in {"clone", "write", "send"} => calls' \in mem'.attempts
        BY <2>1, <3>1, <3>5 DEF Stored
      <4>3. thread["round"] # "write"
        BY <1>0, <1>w, <3>2 DEF ThreadTypes
      <4>4. \A w \in Worker : persistMu' # w
        BY <1>w, <2>1, <3>2
      <4>5. CallsAreRemembered'
        BY <2>1, <3>1, <3>3, <3>5 DEF CallsAreRemembered
      <4> QED
        BY <2>1, <3>1, <3>5, <4>1, <4>2, <4>3, <4>4, <4>5, <1>w DEF Stored
    <3>6. CASE NotWritten /\ mem' = mem
      BY <1>f, <2>1, <2>4, <3>6 DEF NotWritten
    <3> QED
      BY <3>2, <3>5, <3>6
  <2> QED
    BY <1>3, <2>3, <2>4 DEF SetSaved
<1>4. CASE Control
  BY <1>4, <1>f DEF Control, ConfigureBegins, QuiesceBegins, Validate, Quiesce, Refuse,
                    Return, mutexes, ghosts, bounds
<1>5. CASE Install
  <2> DEFINE target == op.target
  <2>1. /\ op.pc = "read" /\ target \in Path /\ mem' = Read(target) /\ path' = target
        /\ registered' = TRUE
        /\ UNCHANGED <<file, thread, snapshot, persistMu, damaged, calls>>
        /\ \A w \in Worker : thread[w] = "idle"
    BY <1>0, <1>5 DEF Install, Idle, OperationTypes, Operation, mutexes, bounds
  <2>2. /\ paid' = IF path \in damaged /\ target # path
                   THEN [paid EXCEPT ![path] = {}] ELSE paid
        /\ confirmed' = IF path \in damaged
                        THEN [confirmed EXCEPT ![path] = FALSE] ELSE confirmed
        /\ ~(Corrupt(target) \/ (Missing(target) /\ HadState))
    BY <1>5 DEF Install, Usable, Unusable
  <2> HIDE DEF target
  <2>3. \A p \in Path : /\ p # path => paid'[p] = paid[p] /\ confirmed'[p] = confirmed[p]
                        /\ paid'[p] \subseteq paid[p]
                        /\ path \in damaged => confirmed'[path] = FALSE
                        /\ path \in damaged /\ target # path => paid'[path] = {}
    BY <1>0, <2>2 DEF DataTypes
  <2>4. \A p \in Path : Read(p)' = Read(p)
    BY <2>1 DEF Read
  <2>5. CallsAreStored'
    BY <2>1, <2>3, <2>4 DEF Stored, CallsAreStored
  <2>6. Destroyed'
    <3> SUFFICES ASSUME NEW p \in damaged, p # target
                 PROVE  paid'[p] = {} /\ confirmed'[p] = FALSE
      BY <2>1 DEF Destroyed
    <3>1. p \in Path
      BY <1>0 DEF DataTypes
    <3>2. CASE p = path
      BY <2>3, <3>1, <3>2
    <3>3. CASE p # path
      BY <2>3, <3>1, <3>3 DEF Destroyed
    <3> QED
      BY <3>2, <3>3
  <2>7. paid'[target] \subseteq Read(target).attempts
    <3>1. CASE target \notin damaged
      BY <2>1, <2>3, <3>1 DEF Stored, CallsAreStored
    <3>2. CASE target \in damaged /\ (target # path \/ ~registered)
      BY <2>1, <2>3, <3>2 DEF Destroyed
    <3>3. CASE target \in damaged /\ target = path /\ registered
      <4>1. file[target].is \in {"missing", "corrupt"}
        BY <1>0, <2>1, <3>3 DEF Destroyed, DataTypes
      <4>2. ~HadState
        BY <2>2, <4>1 DEF Corrupt, Missing
      <4>3. paid[path] \subseteq {}
        BY <3>3, <4>2 DEF HadState, Stored, CallsAreRemembered
      <4> QED
        BY <2>1, <2>3, <3>3, <4>3
    <3> QED
      BY <3>1, <3>2, <3>3
  <2>8. CallsAreRemembered'
    BY <2>1, <2>7 DEF CallsAreRemembered
  <2> QED
    BY <1>i, <2>1, <2>5, <2>6, <2>8 DEF Stored
<1>6. CASE Damage
  <2>1. PICK p \in Path, what \in {"missing", "corrupt"} :
          /\ file' = [file EXCEPT ![p] = NoFile(what)]
          /\ damaged' = damaged \cup {p}
          /\ IF p # path \/ ~registered
             THEN /\ paid' = [paid EXCEPT ![p] = {}]
                  /\ confirmed' = [confirmed EXCEPT ![p] = FALSE]
             ELSE UNCHANGED <<paid, confirmed>>
    BY <1>6 DEF Damage
  <2>2. UNCHANGED <<mem, path, registered, thread, snapshot, persistMu, calls>>
    BY <1>6 DEF Damage, mutexes
  <2>3. /\ file'[p].is # "ok" /\ file'[p].state = NewState
        /\ \A q \in Path \ {p} : file'[q] = file[q]
    BY <1>0, <2>1 DEF NoFile, DataTypes
  <2>4. \A q \in Path : /\ q # p => paid'[q] = paid[q] /\ confirmed'[q] = confirmed[q]
                        /\ paid'[q] \subseteq paid[q]
                        /\ p # path \/ ~registered => paid'[p] = {} /\ confirmed'[p] = FALSE
    BY <1>0, <2>1 DEF DataTypes
  <2>5. Destroyed'
    BY <1>0, <2>1, <2>2, <2>3, <2>4 DEF Destroyed, DataTypes
  <2>6. \A q \in Path \ {p} : Read(q)' = Read(q)
    BY <2>3 DEF Read
  <2>7. CallsAreStored'
    BY <2>1, <2>4, <2>6 DEF Stored, CallsAreStored
  <2>8. paid'[path] \subseteq paid[path]
    BY <1>0, <2>4
  <2>9. CallsAreRemembered'
    BY <2>2, <2>8 DEF Stored, CallsAreRemembered
  <2>10. \A w \in Worker : persistMu' = w => paid'[path'] \subseteq snapshot'[w].attempts
    BY <2>2, <2>8 DEF Stored
  <2>11. path \notin damaged' => path \notin damaged /\ Read(path)' = Read(path)
    BY <1>0, <2>1, <2>2, <2>3 DEF Read
  <2> QED
    BY <2>2, <2>5, <2>7, <2>9, <2>10, <2>11 DEF Stored
<1>7. CASE CrashAndRestart
  <2>1. /\ registered' = FALSE /\ persistMu' = "free"
        /\ thread' = [w \in Worker |-> "idle"]
        /\ paid' = [p \in Path |-> IF p \in damaged THEN {} ELSE paid[p]]
        /\ confirmed' = [p \in Path |-> IF p \in damaged THEN FALSE ELSE confirmed[p]]
        /\ UNCHANGED <<file, damaged>>
    BY <1>7 DEF CrashAndRestart
  <2>2. damaged \subseteq Path
    BY <1>0 DEF DataTypes
  <2>3. Destroyed'
    BY <2>1, <2>2 DEF Destroyed
  <2>4. CallsAreStored'
    BY <2>1 DEF Stored, CallsAreStored, Read
  <2> QED
    BY <1>w, <2>1, <2>3, <2>4 DEF Stored, CallsAreRemembered
<1>8. CASE UNCHANGED vars
  BY <1>8, <1>f DEF vars, mutexes, ghosts, bounds
<1> QED
  BY <1>1, <1>2, <1>3, <1>4, <1>5, <1>6, <1>7, <1>8 DEF Next

LEMMA StoredCorrect == Spec => [](Typed /\ Destroyed /\ Stored)
  BY InitTyped, TypedStep, InitStored, StoredStep, PTL DEF Spec

(* A call that was made is in the file that was installed when it was made,*)
(* whoever else writes it, until somebody destroys the file                *)
(* (reserveAttempt, persistState).                                         *)
THEOREM CallsStored == Spec => []CallsAreStored
<1>1. Stored => CallsAreStored
  BY DEF Stored
<1> QED
  BY <1>1, StoredCorrect, PTL

(* While the plugin is configured the call is in its memory, whatever was  *)
(* reconfigured, refused or destroyed (configure).                         *)
THEOREM CallsRemembered == Spec => []CallsAreRemembered
<1>1. Stored => CallsAreRemembered
  BY DEF Stored
<1> QED
  BY <1>1, StoredCorrect, PTL

-----------------------------------------------------------------------------
(* The setting of the display.                                             *)

LEMMA InitShown == Init => Shown
<1> SUFFICES ASSUME Init PROVE Shown
  OBVIOUS
<1>1. \A p \in Path : file[p].state.display = FALSE
  <2> TAKE p \in Path
  <2>1. NoFile("missing").state.display = FALSE /\ V04File.state.display = FALSE
    BY DEF NoFile, V04File, NewState
  <2> QED
    BY <2>1 DEF Init
<1> QED
  BY <1>1 DEF Init, Shown, Worker

(* A write of a state with the confirmed setting puts it on disk. *)
LEMMA WrittenShows ==
  ASSUME Typed, Shown, NEW s, Written(s), path' = path,
         s.display = confirmed'[path],
         \A p \in Path \ {path} : confirmed'[p] = confirmed[p]
  PROVE  \A p \in Path \ damaged' : file'[p].state.display = confirmed'[p]
<1>1. path \in Path /\ file'[path].state.display = s.display /\ damaged' = damaged \ {path}
      /\ \A p \in Path \ {path} : file'[p] = file[p]
  BY DEF Typed, OperationTypes, DataTypes, Written
<1> QED
  BY <1>1 DEF Shown

LEMMA ShownWork ==
  ASSUME Typed, Shown, Work
  PROVE  Shown'
<1>0. /\ DataTypes /\ ThreadTypes /\ OperationTypes /\ path \in Path
      /\ mem \in State
  BY DEF Typed, OperationTypes, DataTypes
<1>f. UNCHANGED <<path, registered>>
  BY DEF Work
<1>w. Worker = {"round", "loop"} /\ "round" \in Worker /\ "loop" \in Worker
  BY DEF Worker
<1>1. ASSUME NEW w \in Worker, NEW from,
             NEW to \in {"write", "writeRun"}, Clone(w, from, to),
             from # "idle" \/ registered
      PROVE  Shown'
  <2>1. /\ persistMu' = w /\ thread[w] = from
        /\ snapshot' = [snapshot EXCEPT ![w] = mem]
        /\ thread' = [thread EXCEPT ![w] = to]
        /\ UNCHANGED <<file, mem, confirmed, damaged>>
    BY <1>1 DEF Clone, ghosts
  <2>2. registered /\ snapshot'[w] = mem
    BY <1>0, <1>1, <2>1 DEF OperationTypes, DataTypes
  <2>3. thread'["round"] = "load" => thread["round"] = "load"
    BY <1>0, <1>w, <2>1 DEF ThreadTypes
  <2> QED
    BY <1>f, <1>w, <2>1, <2>2, <2>3 DEF Shown
<1>2. ASSUME NEW w \in Worker, thread[w] \in {"write", "writeRun"},
             NEW to \in {"idle", "send", "append"},
             Written(snapshot[w]) \/ NotWritten,
             Release(w, to), mem'.display = mem.display, UNCHANGED confirmed
      PROVE  Shown'
  <2>1. /\ persistMu = w /\ persistMu' = "free"
        /\ thread' = [thread EXCEPT ![w] = to]
    BY <1>0, <1>2 DEF ThreadTypes, Release
  <2>2. snapshot[w].display = confirmed[path]
    BY <2>1 DEF Shown
  <2>3. \A p \in Path \ damaged' : file'[p].state.display = confirmed'[p]
    <3>1. CASE Written(snapshot[w])
      BY <1>2, <1>f, <2>2, <3>1, WrittenShows
    <3>2. CASE NotWritten
      BY <1>2, <3>2 DEF NotWritten, Shown
    <3> QED
      BY <1>2, <3>1, <3>2
  <2>4. thread'["round"] = "load" => thread["round"] = "load"
    BY <1>0, <1>w, <2>1 DEF ThreadTypes
  <2> QED
    BY <1>f, <1>w, <1>2, <2>1, <2>3, <2>4 DEF Shown
<1>3. ASSUME NEW to, thread' = [thread EXCEPT !["round"] = to],
             to = "load" => mem.display = TRUE,
             UNCHANGED <<file, damaged, snapshot, persistMu, confirmed>>,
             mem'.display = mem.display
      PROVE  Shown'
  <2>1. thread'["round"] = to
    BY <1>0, <1>3, <1>w DEF ThreadTypes
  <2> QED
    BY <1>3, <1>f, <2>1 DEF Shown
<1>4. ASSUME thread["round"] # "idle", NEW to \in {"query", "reserve"},
             thread' = [thread EXCEPT !["round"] = to],
             NEW next, next.display = confirmed[path],
             Written(next) \/ NotWritten, mem' \in {next, mem},
             UNCHANGED <<snapshot, persistMu, confirmed>>
      PROVE  Shown'
  <2>1. registered /\ thread'["round"] = to
    BY <1>0, <1>w, <1>4 DEF ThreadTypes, OperationTypes
  <2>2. \A p \in Path \ damaged' : file'[p].state.display = confirmed'[p]
    <3>1. CASE Written(next)
      BY <1>f, <1>4, <3>1, WrittenShows
    <3>2. CASE NotWritten
      BY <1>4, <3>2 DEF NotWritten, Shown
    <3> QED
      BY <1>4, <3>1, <3>2
  <2>3. mem.display = confirmed[path]
    BY <2>1 DEF Shown
  <2> QED
    BY <1>f, <1>4, <2>1, <2>2, <2>3 DEF Shown
<1>s. CASE RefreshSaved
  <2> DEFINE next == [mem EXCEPT !.display = TRUE]
  <2>1. next.display = TRUE
    BY <1>0 DEF State
  <2>2. (Written(next) /\ mem' = next) \/ (NotWritten /\ mem' = mem)
    BY <1>s DEF RefreshSaved, SaveDisplay
  <2> HIDE DEF next
  <2>3. /\ thread["round"] = "load" /\ thread' = [thread EXCEPT !["round"] = "query"]
        /\ UNCHANGED <<snapshot, persistMu, confirmed>>
    BY <1>s DEF RefreshSaved, Goes
  <2>4. confirmed[path] = TRUE
    BY <1>0, <1>w, <2>3 DEF Shown, OperationTypes
  <2> QED
    BY <1>4, <2>1, <2>2, <2>3, <2>4
<1>q. CASE SaveQuota
  <2>1. mem'.display = mem.display
    BY <1>0, <1>q, Changes
  <2>2. /\ thread["round"] = "query" /\ thread' = [thread EXCEPT !["round"] = "reserve"]
        /\ Written(mem') \/ NotWritten
        /\ UNCHANGED <<snapshot, persistMu, confirmed>>
    BY <1>q DEF SaveQuota, Goes, mutexes
  <2>3. mem.display = confirmed[path]
    BY <1>0, <1>w, <2>2 DEF Shown, OperationTypes
  <2> QED
    BY <1>4, <2>1, <2>2, <2>3
<1>5. CASE RoundBegins \/ RefreshBegins \/ LoadFails
  <2>1. PICK to \in {"refresh", "load", "query"} :
          /\ thread' = [thread EXCEPT !["round"] = to]
          /\ to = "load" => mem.display
    BY <1>5 DEF RoundBegins, RefreshBegins, LoadFails, Goes
  <2>2. UNCHANGED <<file, damaged, snapshot, persistMu, confirmed, mem>>
    BY <1>5 DEF RoundBegins, RefreshBegins, LoadFails, mutexes, ghosts
  <2>3. mem.display \in BOOLEAN
    BY <1>0 DEF State
  <2> QED
    BY <1>3, <2>1, <2>2, <2>3
<1>6. CASE Reserve \/ Send \/ AppendRun
  <2>1. PICK to \in {"clone", "append", "cloneRun"} :
          thread' = [thread EXCEPT !["round"] = to]
    BY <1>6 DEF Reserve, Send, AppendRun, Goes
  <2>2. UNCHANGED <<file, damaged, snapshot, persistMu, confirmed>>
    BY <1>6 DEF Reserve, Send, AppendRun, mutexes, ghosts
  <2>3. mem'.display = mem.display
    <3>1. CASE Reserve
      BY <1>0, <3>1 DEF Reserve, State
    <3>2. CASE Send
      BY <3>2 DEF Send
    <3>3. CASE AppendRun
      BY <1>0, <3>3, Changes
    <3> QED
      BY <1>6, <3>1, <3>2, <3>3
  <2> QED
    BY <1>3, <2>1, <2>2, <2>3
<1>7. CASE LoopPersists
  <2>1. CASE Clone("loop", "clone", "write")
    BY <1>1, <1>w, <2>1
  <2>2. CASE ~closed /\ registered /\ Clone("loop", "idle", "write")
    BY <1>1, <1>w, <2>2
  <2>3. CASE LoopChanges
    <3>1. mem'.display = mem.display
      BY <1>0, <2>3, Changes
    <3>2. /\ thread' = [thread EXCEPT !["loop"] = "clone"]
          /\ UNCHANGED <<file, damaged, snapshot, persistMu, confirmed>>
      BY <2>3 DEF LoopChanges, Goes, mutexes, ghosts
    <3>3. thread'["round"] = thread["round"]
      BY <1>0, <1>w, <3>2 DEF ThreadTypes
    <3> QED
      BY <1>f, <3>1, <3>2, <3>3 DEF Shown
  <2>4. CASE LoopWrites
    <3>1. mem'.display = mem.display
      BY <1>0, <2>4, Changes
    <3> QED
      BY <1>2, <1>w, <2>4, <3>1 DEF LoopWrites
  <2> QED
    BY <1>7, <2>1, <2>2, <2>3, <2>4 DEF LoopPersists
<1>8. CASE WriteReservation \/ WriteRun
  <2>1. PICK to \in {"idle", "send", "append"} : Release("round", to)
    BY <1>8 DEF WriteReservation, WriteRun
  <2>2. /\ thread["round"] \in {"write", "writeRun"} /\ UNCHANGED <<mem, confirmed>>
        /\ Written(snapshot["round"]) \/ NotWritten
    BY <1>8 DEF WriteReservation, WriteRun
  <2> QED
    BY <1>2, <1>w, <2>1, <2>2
<1>9. CASE Clone("round", "clone", "write") \/ Clone("round", "cloneRun", "writeRun")
  BY <1>1, <1>9, <1>w
<1> QED
  BY <1>s, <1>q, <1>5, <1>6, <1>7, <1>8, <1>9 DEF Work

LEMMA ShownStep ==
  Typed /\ Destroyed /\ Shown /\ [Next]_vars => Shown'
<1> SUFFICES ASSUME Typed, Destroyed, Shown, [Next]_vars PROVE Shown'
  OBVIOUS
<1>0. /\ DataTypes /\ ThreadTypes /\ OperationTypes /\ path \in Path
      /\ mem \in State
  BY DEF Typed, OperationTypes, DataTypes
<1>w. Worker = {"round", "loop"} /\ "round" \in Worker
  BY DEF Worker
<1>f. UNCHANGED <<file, damaged, confirmed, path, registered, mem, snapshot, persistMu,
                  thread>> => Shown'
  BY DEF Shown
<1>1. CASE Work
  BY <1>1, ShownWork
<1>2. CASE SetBegins
  BY <1>2, <1>f DEF SetBegins, ghosts
<1>3. CASE SetSaved
  <2>1. /\ op.kind = "display" /\ op.enabled \in BOOLEAN
        /\ UNCHANGED <<path, registered, thread, snapshot, persistMu>>
    BY <1>0, <1>3 DEF SetSaved, OperationTypes, Operation
  <2>2. registered /\ thread["round"] # "load"
    BY <1>0, <1>w, <2>1 DEF OperationTypes, ThreadTypes
  <2>3. CASE UNCHANGED <<file, mem, confirmed, damaged, failures>>
    BY <1>f, <2>1, <2>3
  <2>4. CASE SaveDisplay(op.enabled)
             /\ confirmed' = IF file' # file
                             THEN [confirmed EXCEPT ![path] = op.enabled]
                             ELSE confirmed
    <3> DEFINE next == [mem EXCEPT !.display = op.enabled]
    <3>1. next.display = op.enabled
      BY <1>0 DEF State
    <3>2. persistMu = "free" /\ ((Written(next) /\ mem' = next) \/ (NotWritten /\ mem' = mem))
      BY <2>4 DEF SaveDisplay
    <3> HIDE DEF next
    <3>3. CASE NotWritten /\ mem' = mem
      BY <1>f, <2>1, <2>4, <3>3 DEF NotWritten
    <3>4. CASE Written(next) /\ mem' = next
      <4>1. file'[path] = [is |-> "ok", state |-> next] /\ damaged' = damaged \ {path}
        BY <1>0, <3>4 DEF Written, DataTypes
      <4>2. confirmed'[path] = op.enabled
        <5>1. CASE file' # file
          BY <1>0, <2>4, <5>1 DEF DataTypes
        <5>2. CASE file' = file
          <6>1. file[path].is = "ok" /\ file[path].state.display = op.enabled
            BY <3>1, <4>1, <5>2
          <6>2. path \notin damaged
            BY <6>1 DEF Destroyed
          <6> QED
            BY <1>0, <2>4, <5>2, <6>1, <6>2 DEF Shown
        <5> QED
          BY <5>1, <5>2
      <4>3. \A p \in Path \ {path} : confirmed'[p] = confirmed[p]
        BY <1>0, <2>4 DEF DataTypes
      <4>4. \A p \in Path \ damaged' : file'[p].state.display = confirmed'[p]
        BY <2>1, <3>1, <3>4, <4>2, <4>3, WrittenShows
      <4>5. \A w \in Worker : persistMu' # w
        BY <1>w, <2>1, <3>2
      <4> QED
        BY <2>1, <2>2, <3>1, <3>4, <4>2, <4>4, <4>5 DEF Shown
    <3> QED
      BY <3>2, <3>3, <3>4
  <2> QED
    BY <1>3, <2>3, <2>4 DEF SetSaved
<1>4. CASE Control
  BY <1>4, <1>f DEF Control, ConfigureBegins, QuiesceBegins, Validate, Quiesce, Refuse,
                    Return, mutexes, ghosts, bounds
<1>5. CASE Install
  <2> DEFINE target == op.target
  <2>1. /\ target \in Path /\ mem' = Read(target) /\ path' = target
        /\ UNCHANGED <<file, thread, snapshot, persistMu, damaged>>
        /\ \A w \in Worker : thread[w] = "idle"
        /\ confirmed' = IF path \in damaged
                        THEN [confirmed EXCEPT ![path] = FALSE] ELSE confirmed
    BY <1>0, <1>5 DEF Install, Idle, OperationTypes, Operation, mutexes
  <2> HIDE DEF target
  <2>2. file[target].state \in State
    BY <1>0, <2>1 DEF DataTypes
  <2>3. mem'.display = file[target].state.display
    BY <2>1, <2>2, ReadAdds DEF Read
  <2>4. \A p \in Path : /\ p # path \/ path \notin damaged => confirmed'[p] = confirmed[p]
                        /\ path \in damaged => confirmed'[path] = FALSE
    BY <1>0, <2>1 DEF DataTypes
  <2>5. file[target].state.display = confirmed'[target]
    <3>1. CASE target \notin damaged
      BY <2>1, <2>4, <3>1 DEF Shown
    <3>2. CASE target \in damaged
      <4>1. file[target].state.display = FALSE
        BY <3>2 DEF Destroyed, NewState
      <4>2. confirmed'[target] = FALSE
        BY <2>1, <2>4, <3>2 DEF Destroyed
      <4> QED
        BY <4>1, <4>2
    <3> QED
      BY <3>1, <3>2
  <2>6. \A p \in Path \ damaged' : file'[p].state.display = confirmed'[p]
    BY <2>1, <2>4 DEF Shown
  <2>7. \A w \in Worker : persistMu' # w
    BY <1>0, <1>w, <2>1 DEF ThreadTypes
  <2>8. thread'["round"] # "load"
    BY <1>w, <2>1
  <2> QED
    BY <2>1, <2>3, <2>5, <2>6, <2>7, <2>8 DEF Shown
<1>6. CASE Damage
  <2>1. PICK p \in Path, what \in {"missing", "corrupt"} :
          /\ file' = [file EXCEPT ![p] = NoFile(what)]
          /\ damaged' = damaged \cup {p}
          /\ IF p # path \/ ~registered
             THEN /\ paid' = [paid EXCEPT ![p] = {}]
                  /\ confirmed' = [confirmed EXCEPT ![p] = FALSE]
             ELSE UNCHANGED <<paid, confirmed>>
    BY <1>6 DEF Damage
  <2>2. UNCHANGED <<mem, path, registered, thread, snapshot, persistMu>>
    BY <1>6 DEF Damage, mutexes
  <2>3. \A q \in Path \ {p} : file'[q] = file[q] /\ confirmed'[q] = confirmed[q]
    BY <1>0, <2>1 DEF DataTypes
  <2>4. registered => confirmed'[path] = confirmed[path]
    BY <1>0, <2>1, <2>3
  <2>5. \A w \in Worker : persistMu = w => registered
    BY <1>0 DEF ThreadTypes, OperationTypes
  <2>6. \A q \in Path \ damaged' : file'[q].state.display = confirmed'[q]
    BY <2>1, <2>3 DEF Shown
  <2> QED
    BY <2>2, <2>4, <2>5, <2>6 DEF Shown
<1>7. CASE CrashAndRestart
  <2>1. /\ registered' = FALSE /\ persistMu' = "free"
        /\ thread' = [w \in Worker |-> "idle"]
        /\ confirmed' = [p \in Path |-> IF p \in damaged THEN FALSE ELSE confirmed[p]]
        /\ UNCHANGED <<file, damaged>>
    BY <1>7 DEF CrashAndRestart
  <2>2. thread'["round"] = "idle" /\ \A w \in Worker : persistMu' # w
    BY <1>w, <2>1
  <2> QED
    BY <2>1, <2>2 DEF Shown
<1>8. CASE UNCHANGED vars
  BY <1>8, <1>f DEF vars, mutexes, ghosts
<1> QED
  BY <1>1, <1>2, <1>3, <1>4, <1>5, <1>6, <1>7, <1>8 DEF Next

(* The setting confirmed to the user is the one in force and in the file:  *)
(* a refresh under way when the names are switched off does not bring them *)
(* back, and a save that fails changes nothing (setAccountDisplay,         *)
(* refreshAccountDisplay, saveAccountDisplay).                             *)
THEOREM DisplayConfirmed == Spec => []DisplayAsConfirmed
<1>1. Typed /\ Shown => DisplayAsConfirmed
  BY DEF Typed, OperationTypes, Shown, DisplayAsConfirmed
<1>2. Init => Shown
  BY InitShown
<1>3. (Typed /\ Destroyed /\ Stored) /\ Shown /\ [Next]_vars => Shown'
  BY ShownStep
<1> QED
  BY <1>1, <1>2, <1>3, StoredCorrect, PTL DEF Spec

-----------------------------------------------------------------------------
(* A refused configure.                                                    *)

LEMMA InitVetted == Init => Vetted
  BY DEF Init, Vetted, NoOp

LEMMA VettedStep == Typed /\ Vetted /\ [Next]_vars => Vetted'
<1> SUFFICES ASSUME Typed, Vetted, [Next]_vars PROVE Vetted'
  OBVIOUS
<1>0. /\ DataTypes /\ ThreadTypes /\ OperationTypes /\ path \in Path /\ mem \in State
      /\ op \in Operation /\ op.target \in Path /\ op.since \in Nat
      /\ op.since <= damages /\ damages \in Nat
  BY DEF Typed, OperationTypes, DataTypes, Operation
<1>n. NoOp.pc = "idle"
  BY DEF NoOp
<1>i. op'.pc \in {"idle", "save", "drained", "close"} => Vetted'
  BY DEF Vetted
(* Nothing but the file installed is written, and once everything is over  *)
(* nothing is taken back.                                                  *)
<1>k. ASSUME UNCHANGED <<op, closed, damages, path>>,
             \A p \in Path \ {path} : file'[p] = file[p],
             closed /\ Idle => HadState' = HadState /\ Idle'
      PROVE  Vetted'
  BY <1>0, <1>k DEF Vetted, Unusable, Corrupt, Missing
<1>1. CASE Work
  <2>1. UNCHANGED <<op, closed, damages, path>>
    BY <1>1 DEF Work
  <2>2. ~(closed /\ Idle)
    <3> SUFFICES ASSUME closed, thread["round"] = "idle", thread["loop"] = "idle"
                 PROVE  FALSE
      BY DEF Idle, Worker
    <3> QED
      BY <1>1 DEF Work, LoopPersists, LoopChanges, LoopWrites, Clone, Goes, RoundBegins,
         RefreshBegins, LoadFails, RefreshSaved, SaveQuota, Reserve, WriteReservation,
         Send, AppendRun, WriteRun
  <2>3. \A p \in Path \ {path} : file'[p] = file[p]
    <3>1. CASE UNCHANGED file
      BY <3>1
    <3>2. CASE \E s : Written(s)
      BY <1>0, <3>2 DEF Written, DataTypes
    <3>3. UNCHANGED file \/ \E s : Written(s)
      BY <1>1 DEF Work, LoopPersists, LoopChanges, LoopWrites, Clone, RoundBegins,
         RefreshBegins, LoadFails, RefreshSaved, SaveDisplay, SaveQuota, Reserve, WriteReservation, Send, AppendRun,
         WriteRun, NotWritten
    <3> QED
      BY <3>1, <3>2, <3>3
  <2> QED
    BY <1>k, <2>1, <2>2, <2>3
<1>2. CASE SetBegins
  <2>1. op'.pc = "save"
    BY <1>2 DEF SetBegins, NoOp
  <2> QED
    BY <1>i, <2>1
<1>3. CASE SetSaved \/ Install \/ CrashAndRestart
  BY <1>3, <1>i, <1>n DEF SetSaved, SetReturns, Install, Returns, CrashAndRestart
<1>4. CASE Control
  <2>0. UNCHANGED <<file, mem, damages, path>>
    BY <1>4 DEF Control, ConfigureBegins, QuiesceBegins, Validate, Quiesce, Refuse,
                Return, bounds
  <2>h. HadState' = HadState /\ \A had : Unusable(op.target, had)' <=> Unusable(op.target', had)
    BY <2>0 DEF HadState, Unusable, Corrupt, Missing
  <2>1. CASE ConfigureBegins
    <3>1. PICK target \in Path :
            op' = [NoOp EXCEPT !.kind = "configure", !.target = target,
                               !.pc = IF target # path THEN "validate" ELSE "quiesce",
                               !.had = HadState, !.open = ~closed, !.since = damages]
      BY <2>1 DEF ConfigureBegins
    <3>2. /\ op'.target = target /\ op'.open = ~closed /\ closed' = closed
          /\ op'.pc = IF target # path THEN "validate" ELSE "quiesce"
      BY <2>1, <3>1 DEF NoOp, ConfigureBegins
    <3> QED
      BY <2>0, <3>2 DEF Vetted
  <2>2. CASE QuiesceBegins
    <3>1. op'.pc = "quiesce" /\ op'.kind = "quiesce"
      BY <2>2 DEF QuiesceBegins, NoOp
    <3> QED
      BY <3>1 DEF Vetted
  <2>3. CASE Validate
    <3>1. /\ op.pc = "validate" /\ closed' = closed
          /\ op' = [op EXCEPT !.pc = IF ~Unusable(op.target, op.had) THEN "quiesce"
                                     ELSE IF Corrupt(path) THEN "close" ELSE "refused"]
      BY <2>3 DEF Validate
    <3>2. /\ op'.target = op.target /\ op'.had = op.had /\ op'.open = op.open
          /\ op'.pc = IF ~Unusable(op.target, op.had) THEN "quiesce"
                      ELSE IF Corrupt(path) THEN "close" ELSE "refused"
      BY <1>0, <3>1 DEF Operation
    <3>3. op.open = ~closed
      BY <3>1 DEF Vetted
    <3>4. Unusable(op.target, op.had)' <=> Unusable(op.target, op.had)
      BY <2>0, <3>2 DEF Unusable, Corrupt, Missing
    <3>5. op.open /\ closed => FALSE
      BY <3>3
    <3>6. ~(op'.open /\ closed')
      BY <3>1, <3>2, <3>5
    <3>7. CASE ~Unusable(op.target, op.had)
      <4>1. op'.pc = "quiesce" /\ ~Unusable(op.target, op.had)'
        BY <3>2, <3>4, <3>7
      <4> QED
        BY <3>2, <3>6, <4>1 DEF Vetted
    <3>8. CASE Unusable(op.target, op.had)
      <4>1. op'.pc \in {"close", "refused"}
        BY <3>2, <3>8
      <4> QED
        BY <1>i, <3>6, <4>1 DEF Vetted
    <3> QED
      BY <3>7, <3>8
  <2>4. CASE Quiesce
    <3>1. /\ op.pc \in {"quiesce", "close"}
          /\ op' = [op EXCEPT !.pc = IF op.pc = "close" THEN "drained"
                             ELSE IF op.kind = "quiesce" THEN "drained" ELSE "read"]
      BY <2>4 DEF Quiesce
    <3>2. /\ op'.target = op.target /\ op'.had = op.had /\ op'.since = op.since
          /\ op'.kind = op.kind
          /\ op'.pc = "read" => op.pc = "quiesce"
          /\ op'.pc \in {"drained", "read"}
      BY <1>0, <3>1 DEF Operation
    <3>3. Unusable(op.target, op.had)' <=> Unusable(op.target, op.had)
      BY <2>0, <3>2 DEF Unusable, Corrupt, Missing
    <3> QED
      BY <2>0, <3>2, <3>3 DEF Vetted
  <2>5. CASE Refuse
    <3>1. /\ op.pc = "read" /\ op' = [op EXCEPT !.pc = "refused"]
          /\ Unusable(op.target, HadState)
      BY <2>5 DEF Refuse
    <3>2. /\ op'.target = op.target /\ op'.had = op.had /\ op'.since = op.since
          /\ op'.kind = op.kind /\ op'.pc = "refused" /\ op.kind = "configure"
      BY <1>0, <3>1 DEF Operation, OperationTypes
    <3>3. op.target # path /\ damages = op.since => ~Unusable(op.target, op.had)
      BY <3>1, <3>2 DEF Vetted
    <3>4. op.target # path /\ damages = op.since
            => ~op.had /\ HadState /\ Missing(op.target)
      BY <3>1, <3>3 DEF Unusable
    <3>5. Idle' /\ Missing(op.target)' = Missing(op.target)
      BY <1>4, <2>0, <2>5, <3>2 DEF Control, Refuse, Idle, Missing
    <3> QED
      BY <2>0, <2>h, <3>2, <3>4, <3>5 DEF Vetted
  <2>6. CASE Return
    BY <1>i, <1>n, <2>6 DEF Return, Returns
  <2> QED
    BY <1>4, <2>1, <2>2, <2>3, <2>4, <2>5, <2>6 DEF Control
<1>5. CASE Damage
  <2>1. UNCHANGED <<op, closed>> /\ damages' = damages + 1
    BY <1>5 DEF Damage
  <2>2. damages' # op'.since
    BY <1>0, <2>1
  <2> QED
    BY <2>1, <2>2 DEF Vetted
<1>6. CASE UNCHANGED vars
  BY <1>6, <1>k DEF vars, bounds, HadState, Idle
<1> QED
  BY <1>1, <1>2, <1>3, <1>4, <1>5, <1>6 DEF Next

(* A configure refused because of the file it was to change to leaves the  *)
(* plugin running as it was, unless a file was destroyed meanwhile, or the *)
(* new file is missing and the first state of the process, be it a slot or *)
(* a record, came about after the first look at hadState (configure:       *)
(* validate a different target before stopping the healthy old scheduler). *)
THEOREM HealthyStays == Spec => []HealthyKeepsRunning
<1>1. Typed /\ Vetted => HealthyKeepsRunning
  BY DEF Vetted, HealthyKeepsRunning
<1>2. Init => Vetted
  BY InitVetted
<1>3. Typed /\ Vetted /\ [Next]_vars => Vetted'
  BY VettedStep
<1> QED
  BY <1>1, <1>2, <1>3, TypedCorrect, PTL DEF Spec
=============================================================================
