----------------------------- MODULE RoundProofs -----------------------------
(***************************************************************************)
(* Proofs about Round for every set of accounts, for every pace of the     *)
(* clock and for every setting that RoundAssumption admits.                *)
(*                                                                         *)
(* That a window confirmed was idle says nothing of how the two answers    *)
(* came about, so it is not inductive.  Control says where the queries and *)
(* the account in hand are; Evidence says what an answer tells about the   *)
(* window it is about, and how far apart the two observations are at each  *)
(* step of executeRun; Accounted follows the entries of the record through *)
(* the deferred part to the report.                                        *)
(***************************************************************************)
EXTENDS Round, FiniteSetTheorems, WellFoundedInduction, TLAPS

-----------------------------------------------------------------------------
(* The invariants.                                                         *)

Place == {"start", "inventory", "fetch", "next", "check", "spacing", "refresh",
          "confirm", "second", "confirmed", "call", "calling", "finish",
          "requeue", "notify", "append", "done"}

(* The deferred part of executeRun. *)
Deferred == {"finish", "requeue", "notify", "append", "done"}

ControlTypes ==
  /\ pc \in Place
  /\ found \subseteq Account
  /\ fetch \in [Account -> {"none", "waiting", "holding", "asked", "answered", "done"}]
  /\ acct \in found \cup {0}
  /\ outcome \in [Account -> {"none", "skipped", "failed", "succeeded", "cut"}]
  /\ stopped \in BOOLEAN

InProgress(a) == fetch[a] \in {"waiting", "holding", "asked", "answered"}

(* A query is under way only where executeRun waits for it. *)
Queries ==
  /\ \A a \in found : fetch[a] # "none"
  /\ \A a \in Account : InProgress(a) =>
       /\ a \in found
       /\ pc = "fetch" \/ (pc \in {"refresh", "second"} /\ a = acct)
  /\ pc \in {"start", "inventory"} => found = {}

Holders == {a \in Account : Holding(a)}

Control ==
  /\ ControlTypes /\ Queries
  /\ InHand => acct \in found /\ outcome[acct] = "none"
  /\ Cardinality(Holders) <= MaxFetches

DataTypes ==
  /\ now \in Nat /\ opened \in [Account -> Nat]
  /\ answer \in [Account -> Observation] /\ first \in Observation
  /\ deadline \in Nat /\ checkedAge \in Nat /\ lastModelFinishedAt \in Nat

ReportTypes ==
  /\ trigger \in Triggers /\ readOnly \in BOOLEAN
  /\ success \in BOOLEAN /\ putBack \in BOOLEAN
  /\ writeFailed \in BOOLEAN /\ dirty \in BOOLEAN
  /\ error \in {"", "unavailable", "interrupted", "failed", "state_write_failed"}

(* What an observation tells of the window of a. *)
Genuine(a, o) ==
  o.ok => /\ o.checked <= now
          /\ ~o.idle => opened[a] # 0 /\ o.reset = opened[a]

Answered(a) == fetch[a] \in {"answered", "done"} /\ answer[a].ok

(* The reset point of an idle window is close to the time of the answer. *)
Answers ==
  \A a \in Account : Answered(a) =>
    /\ Genuine(a, answer[a])
    /\ fetch[a] = "answered" /\ answer[a].idle => answer[a].reset = answer[a].checked
    /\ fetch[a] = "done" /\ answer[a].idle => Remaining(answer[a])

NotAsked ==
  \A a \in Account :
    fetch[a] \in {"waiting", "holding"} \/ pc \in {"start", "inventory"} => ~answer[a].ok

First ==
  /\ InHand => Genuine(acct, first) /\ (first.ok /\ first.idle => Remaining(first))
  /\ InHand /\ pc # "check" => first.ok

(* How far apart the observations are. *)
Apart ==
  /\ pc = "confirm" => deadline >= first.checked + ConfirmWait
  /\ pc = "second" =>
       /\ now >= first.checked + ConfirmWait
       /\ Answered(acct) => /\ answer[acct].checked >= first.checked + ConfirmWait
                            /\ ~first.idle => ~answer[acct].idle
  /\ pc = "refresh" =>
       /\ checkedAge <= now
       /\ Answered(acct) => answer[acct].checked >= checkedAge
  /\ pc \in {"confirm", "second"} => checkedAge <= first.checked + MaxAge

Evidence ==
  /\ now > 0
  /\ Answers /\ NotAsked /\ First /\ Apart
  /\ pc = "confirmed" => first.idle

(* Some account found gets no entry, or its prewarm was interrupted. *)
Unfinished == \E a \in found : outcome[a] \in {"none", "cut"}

Accounted ==
  /\ pc \in {"start", "inventory", "fetch"} => \A a \in Account : outcome[a] = "none"
  /\ pc \notin Deferred => /\ error # "interrupted"
                          /\ \A a \in Account : outcome[a] # "cut"
  /\ pc = "finish" => /\ Unfinished => error = "interrupted"
                      /\ error = "interrupted" => found = {} \/ Unfinished
  /\ pc \in Deferred \ {"finish"} =>
       /\ CutShort /\ trigger # "manual" => putBack
       /\ putBack => found = {} \/ Unfinished
       /\ success => /\ ~putBack /\ found # {}
                     /\ \A a \in found : outcome[a] \in {"succeeded", "skipped"}
  /\ pc = "done" => (success => ~dirty) /\ (~dirty \/ error = "state_write_failed")

-----------------------------------------------------------------------------
(* The next account is one of those that are left.                         *)
LEMMA MinIsMember ==
  ASSUME NEW S, S \subseteq Nat, S # {}
  PROVE  Min(S) \in S
<1> DEFINE Below == {0..x : x \in S}
<1>1. Below \subseteq FiniteSubsetsOf(Nat) /\ Below # {}
  <2>1. \A x \in S : 0..x \in SUBSET Nat /\ IsFiniteSet(0..x)
    BY FS_Interval
  <2> QED
    BY <2>1 DEF FiniteSubsetsOf
<1>2. PICK T \in Below : \A U \in Below : <<U, T>> \notin StrictSubsetOrdering(Nat)
  BY <1>1, WFMin, FS_StrictSubsetOrderingWellFounded
<1>3. PICK x \in S : T = 0..x
  OBVIOUS
<1>4. \A y \in S : x <= y
  <2> TAKE y \in S
  <2>1. SUFFICES ASSUME y < x PROVE FALSE
    OBVIOUS
  <2>2. 0..y \subseteq 0..x /\ x \in 0..x /\ x \notin 0..y
    BY <2>1
  <2>3. <<0..y, 0..x>> \in StrictSubsetOrdering(Nat)
    BY <2>2 DEF StrictSubsetOrdering
  <2> QED
    BY <1>2, <1>3, <2>3
<1> QED
  BY <1>4 DEF Min

(* The semaphore. *)
LEMMA HoldersFinite == IsFiniteSet(Holders) /\ Cardinality(Holders) \in Nat
<1>1. Holders \in SUBSET Account
  BY DEF Holders
<1> QED
  BY <1>1, RoundAssumption, FS_Subset, FS_CardinalityType

LEMMA FewerHolders ==
  ASSUME Cardinality(Holders) <= MaxFetches, Holders' \subseteq Holders
  PROVE  Cardinality(Holders') <= MaxFetches
<1>1. /\ Cardinality(Holders') <= Cardinality(Holders)
      /\ Cardinality(Holders') \in Nat
  BY HoldersFinite, FS_Subset, FS_CardinalityType
<1> QED
  BY <1>1, HoldersFinite, RoundAssumption

LEMMA OneHolder ==
  ASSUME NEW a, Holders' \subseteq {a}
  PROVE  Cardinality(Holders') <= MaxFetches
<1>1. IsFiniteSet({a}) /\ Cardinality({a}) = 1
  BY FS_Singleton
<1>2. Cardinality(Holders') <= 1 /\ Cardinality(Holders') \in Nat
  BY <1>1, FS_Subset, FS_CardinalityType
<1> QED
  BY <1>2, RoundAssumption

LEMMA OneMoreHolder ==
  ASSUME NEW a, Cardinality(Holders) < MaxFetches, Holders' = Holders \cup {a}
  PROVE  Cardinality(Holders') <= MaxFetches
<1>1. Cardinality(Holders') = IF a \in Holders THEN Cardinality(Holders)
                              ELSE Cardinality(Holders) + 1
  BY HoldersFinite, FS_AddElement
<1>2. Cardinality(Holders') <= Cardinality(Holders) + 1 /\ Cardinality(Holders') \in Nat
  BY <1>1, HoldersFinite
<1> QED
  BY <1>2, HoldersFinite, RoundAssumption

-----------------------------------------------------------------------------
(* Where the round is.                                                     *)

LEMMA InitControl == Init => Control
<1> SUFFICES ASSUME Init PROVE Control
  OBVIOUS
<1>1. \A a \in Account : fetch[a] = "none"
  BY DEF Init
<1>2. Holders = {}
  BY <1>1 DEF Holders, Holding
<1>3. Cardinality(Holders) <= MaxFetches
  BY <1>2, FS_EmptySet, RoundAssumption
<1>4. ControlTypes
  BY DEF Init, ControlTypes, Place
<1>5. Queries
  BY <1>1 DEF Init, Queries, InProgress
<1>6. ~InHand
  BY DEF Init, InHand
<1> QED
  BY <1>3, <1>4, <1>5, <1>6 DEF Control

(* While nothing is asked and no account found, only the account in hand   *)
(* changes.                                                                *)
LEMMA ControlMoves ==
  ASSUME Control, pc' \in Place, UNCHANGED <<found, fetch, stopped>>,
         acct' \in found \cup {0},
         outcome' \in [Account -> {"none", "skipped", "failed", "succeeded", "cut"}],
         InHand' => acct' \in found /\ outcome'[acct'] = "none",
         pc' \in {"start", "inventory"} => pc' = pc,
         \A a \in Account : InProgress(a) =>
           pc' = "fetch" \/ (pc' \in {"refresh", "second"} /\ a = acct')
  PROVE  Control'
<1>1. Holders' = Holders
  BY DEF Holders, Holding
<1>2. ControlTypes'
  BY DEF Control, ControlTypes
<1>3. Queries'
  <2>1. \A a \in Account : InProgress(a)' <=> InProgress(a)
    BY DEF InProgress
  <2>2. pc' \in {"start", "inventory"} => found' = {}
    BY DEF Control, Queries
  <2>3. \A a \in found' : fetch'[a] # "none"
    BY DEF Control, Queries
  <2>4. \A a \in Account : InProgress(a) => a \in found'
    BY DEF Control, Queries
  <2> QED
    BY <2>1, <2>2, <2>3, <2>4 DEF Queries
<1> QED
  BY <1>1, <1>2, <1>3 DEF Control

(* Nothing that Control mentions changes but the stop. *)
LEMMA ControlKept ==
  ASSUME Control, UNCHANGED <<pc, found, fetch, acct, outcome>>, stopped' \in BOOLEAN
  PROVE  Control'
<1>1. Holders' = Holders
  BY DEF Holders, Holding
<1>2. ControlTypes'
  BY DEF Control, ControlTypes
<1>3. Queries' /\ (InHand' <=> InHand)
  BY DEF Control, Queries, InProgress, InHand
<1> QED
  BY <1>1, <1>2, <1>3 DEF Control

(* One query moves on: it takes the semaphore if there is room, or it does *)
(* not hold it longer than before.                                         *)
LEMMA QueryMoves ==
  ASSUME Control, UNCHANGED <<pc, found, acct, outcome, stopped>>,
         NEW a \in Account, NEW next \in {"holding", "asked", "answered", "done"},
         fetch' = [fetch EXCEPT ![a] = next], InProgress(a),
         next \in {"asked", "answered"} => Holding(a),
         next = "holding" => Cardinality(Holders) < MaxFetches
  PROVE  Control'
<1>1. fetch'[a] = next /\ \A b \in Account : b # a => fetch'[b] = fetch[b]
  BY DEF Control, ControlTypes
<1>2. Cardinality(Holders') <= MaxFetches
  <2>1. CASE next = "holding"
    <3>1. Holders' = Holders \cup {a}
      BY <1>1, <2>1 DEF Holders, Holding
    <3> QED
      BY <2>1, <3>1, OneMoreHolder
  <2>2. CASE next # "holding"
    <3>1. Holders' \subseteq Holders
      BY <1>1, <2>2 DEF Holders, Holding
    <3> QED
      BY <3>1, FewerHolders DEF Control
  <2> QED
    BY <2>1, <2>2
<1>3. ControlTypes'
  BY DEF Control, ControlTypes
<1>4. Queries'
  BY <1>1 DEF Control, ControlTypes, Queries, InProgress
<1>5. InHand' <=> InHand
  BY DEF InHand
<1> QED
  BY <1>2, <1>3, <1>4, <1>5 DEF Control

(* The account in hand is asked about once more. *)
LEMMA AsksAgain ==
  ASSUME Control, pc \in {"spacing", "confirm"}, pc' \in {"refresh", "second"},
         AskAgain, UNCHANGED <<found, acct, outcome, stopped>>
  PROVE  Control'
<1>1. acct \in found /\ acct \in Account /\ outcome[acct] = "none"
  BY DEF Control, ControlTypes, InHand
<1>2. /\ fetch'[acct] = "asked"
      /\ \A a \in Account : a # acct => fetch'[a] = fetch[a] /\ ~InProgress(a)
  BY <1>1 DEF Control, ControlTypes, Queries, AskAgain
<1>3. Holders' \subseteq {acct}
  BY <1>2 DEF Holders, Holding, InProgress
<1>4. ControlTypes'
  BY <1>1 DEF Control, ControlTypes, Place, AskAgain
<1>5. Queries'
  BY <1>1, <1>2 DEF Control, ControlTypes, Queries, InProgress
<1> QED
  BY <1>1, <1>3, <1>4, <1>5, OneHolder DEF Control

(* After the deferred part has begun no account is in hand, and an entry   *)
(* ends the work on it.                                                    *)
LEMMA EntryMade ==
  ASSUME Control, InHand, ~InProgress(acct),
         NEW result \in {"skipped", "failed", "succeeded", "cut"},
         outcome' = [outcome EXCEPT ![acct] = result], pc' \in {"next", "finish"},
         UNCHANGED <<found, fetch, acct, stopped>>
  PROVE  Control'
<1>1. outcome' \in [Account -> {"none", "skipped", "failed", "succeeded", "cut"}]
  BY DEF Control, ControlTypes
<1>2. pc' \in Place /\ pc' \notin {"start", "inventory"} /\ ~InHand'
  BY DEF Place, InHand
<1>3. \A a \in Account : ~InProgress(a)
  BY DEF Control, Queries, InHand
<1> QED
  BY <1>1, <1>2, <1>3, ControlMoves DEF Control, ControlTypes

LEMMA ControlStep == Control /\ [Next]_vars => Control'
<1> SUFFICES ASSUME Control, [Next]_vars PROVE Control'
  OBVIOUS
<1>0. /\ pc \in Place /\ found \subseteq Account /\ stopped \in BOOLEAN
      /\ fetch \in [Account -> {"none", "waiting", "holding", "asked", "answered", "done"}]
      /\ acct \in found \cup {0}
      /\ outcome \in [Account -> {"none", "skipped", "failed", "succeeded", "cut"}]
  BY DEF Control, ControlTypes
<1>q. /\ pc \notin {"fetch", "refresh", "second"} => \A a \in Account : ~InProgress(a)
      /\ \A a \in Account : a # acct /\ pc # "fetch" => ~InProgress(a)
      /\ pc \in {"start", "inventory"} => found = {}
      /\ \A a \in found : fetch[a] # "none"
      /\ \A a \in Account : InProgress(a) => a \in found
  BY DEF Control, Queries
<1>h. InHand => acct \in found /\ acct \in Account /\ outcome[acct] = "none"
  BY <1>0 DEF Control
(* The deferred part and the stops. *)
<1>e. ASSUME pc \notin {"fetch", "refresh", "second"}, pc' \in Deferred,
             UNCHANGED <<found, fetch, outcome, stopped>>, acct' \in {acct, 0}
      PROVE  Control'
  <2>1. pc' \in Place /\ pc' \notin {"start", "inventory"} /\ ~InHand'
    BY <1>e DEF Place, InHand, Deferred
  <2> QED
    BY <1>0, <1>e, <1>q, <2>1, ControlMoves
(* The account in hand stays in hand. *)
<1>s. ASSUME InHand, ~InProgress(acct), pc # "fetch",
             pc' \in {"spacing", "confirm", "confirmed", "call", "calling"},
             UNCHANGED <<found, fetch, outcome, stopped, acct>>
      PROVE  Control'
  <2>1. pc' \in Place /\ pc' \notin {"start", "inventory"}
    BY <1>s DEF Place
  <2>2. \A a \in Account : ~InProgress(a)
    BY <1>s, <1>q
  <2> QED
    BY <1>0, <1>s, <1>h, <2>1, <2>2, ControlMoves
<1>1. CASE Step
  <2>0. UNCHANGED stopped
    BY <1>1 DEF Step
  <2>1. CASE Start
    <3>1. pc' \in {"inventory", "finish"} /\ UNCHANGED <<found, fetch, acct, outcome>> /\ pc = "start"
      BY <2>1 DEF Start, Interrupted, queries, account
    <3>2. CASE pc' = "finish"
      BY <1>e, <2>0, <3>1, <3>2 DEF Deferred
    <3>3. CASE pc' = "inventory"
      <4>1. ~InHand' /\ \A a \in Account : ~InProgress(a)
        BY <1>q, <3>1, <3>3 DEF InHand
      <4>2. ControlTypes'
        BY <1>0, <2>0, <3>1, <3>3 DEF ControlTypes, Place
      <4>3. Queries'
        BY <1>q, <3>1, <4>1 DEF Queries, InProgress
      <4>4. Holders' = Holders
        BY <3>1 DEF Holders, Holding
      <4> QED
        BY <4>1, <4>2, <4>3, <4>4 DEF Control
    <3> QED
      BY <3>1, <3>2, <3>3
  <2>2. CASE Inventory
    <3>1. CASE pc' = "finish" /\ UNCHANGED <<found, fetch>>
      BY <1>e, <2>0, <2>2, <3>1 DEF Inventory, account, Deferred
    <3>2. CASE \E selected \in SUBSET Account :
                 /\ found' = selected /\ pc' = "fetch"
                 /\ fetch' = [a \in Account |-> IF a \in selected THEN "waiting" ELSE "none"]
      <4>1. /\ fetch' \in [Account -> {"waiting", "none"}] /\ pc' = "fetch"
            /\ found' \subseteq Account
            /\ \A a \in found' : fetch'[a] = "waiting"
            /\ \A a \in Account \ found' : fetch'[a] = "none"
        BY <3>2
      <4>2. acct' = 0 /\ outcome' = outcome
        BY <1>0, <1>q, <2>2 DEF Inventory, account
      <4>3. Holders' \subseteq {0}
        BY <4>1 DEF Holders, Holding
      <4>4. ControlTypes'
        BY <1>0, <2>0, <4>1, <4>2 DEF ControlTypes, Place
      <4>5. Queries' /\ ~InHand'
        BY <4>1 DEF Queries, InHand, InProgress
      <4> QED
        BY <4>3, <4>4, <4>5, OneHolder DEF Control
    <3>3. \A listed \in SUBSET Account :
            \A selected \in {listed} \cup {listed \cap {a} : a \in Account} : selected \in SUBSET Account
      OBVIOUS
    <3> QED
      BY <2>2, <3>1, <3>2, <3>3 DEF Inventory
  <2>3. CASE FetchesDone
    <3>1. /\ pc = "fetch" /\ pc' \in {"next", "finish"}
          /\ \A a \in found : fetch[a] = "done"
          /\ UNCHANGED <<found, fetch, acct, outcome>>
      BY <2>3 DEF FetchesDone, Interrupted, queries, account
    <3>2. \A a \in Account : ~InProgress(a)
      BY <1>q, <3>1 DEF InProgress
    <3>3. pc' \in Place /\ pc' \notin {"start", "inventory"} /\ ~InHand'
      BY <3>1 DEF Place, InHand
    <3> QED
      BY <1>0, <2>0, <3>1, <3>2, <3>3, ControlMoves
  <2>4. CASE NextAccount
    <3>1. CASE Left = {} \/ stopped
      <4>1. /\ pc = "next" /\ pc' = "finish" /\ acct' \in {acct, 0}
            /\ UNCHANGED <<found, fetch, outcome>>
        BY <2>4, <3>1 DEF NextAccount, Interrupted
      <4> QED
        BY <1>e, <2>0, <4>1 DEF Deferred
    <3>2. CASE Left # {} /\ ~stopped
      <4>1. Min(Left) \in Left
        <5>1. Left \subseteq Nat
          BY <1>0, RoundAssumption DEF Left
        <5> QED
          BY <3>2, <5>1, MinIsMember
      <4>2. /\ pc = "next" /\ pc' = "check" /\ acct' = Min(Left)
            /\ UNCHANGED <<found, fetch, outcome>>
        BY <2>4, <3>2 DEF NextAccount
      <4>3. acct' \in found /\ outcome'[acct'] = "none"
        BY <4>1, <4>2 DEF Left
      <4>4. pc' \in Place /\ pc' \notin {"start", "inventory"}
        BY <4>2 DEF Place
      <4>5. \A a \in Account : ~InProgress(a)
        BY <1>q, <4>2
      <4> QED
        BY <1>0, <2>0, <4>2, <4>3, <4>4, <4>5, ControlMoves
    <3> QED
      BY <3>1, <3>2
  <2>5. CASE CheckAccount
    <3>1. /\ pc = "check" /\ InHand /\ ~InProgress(acct)
          /\ UNCHANGED <<found, fetch, acct>>
      BY <1>h, <1>q, <2>5 DEF CheckAccount, queries, InHand
    <3>2. CASE Counted("failed") \/ Counted("skipped")
      BY <2>0, <3>1, <3>2, EntryMade DEF Counted
    <3>3. CASE pc' = "spacing" /\ UNCHANGED outcome
      BY <1>s, <2>0, <3>1, <3>3
    <3> QED
      BY <2>5, <3>2, <3>3 DEF CheckAccount
  <2>6. CASE WaitStopped
    <3>1. /\ pc \in {"spacing", "confirm"} /\ pc' = "finish"
          /\ UNCHANGED <<found, fetch, acct, outcome>>
      BY <2>6 DEF WaitStopped, Interrupted, queries, account
    <3> QED
      BY <1>e, <2>0, <3>1 DEF Deferred
  <2>7. CASE SpacingOver
    <3>1. /\ pc = "spacing" /\ InHand /\ ~InProgress(acct)
          /\ UNCHANGED <<found, acct, outcome>>
      BY <1>h, <1>q, <2>7 DEF SpacingOver, Waited, InHand
    <3>2. CASE TooOld
      BY <2>0, <2>7, <3>1, <3>2, AsksAgain DEF SpacingOver
    <3>3. CASE ~TooOld
      BY <1>s, <2>0, <2>7, <3>1, <3>3 DEF SpacingOver
    <3> QED
      BY <3>2, <3>3
  <2>8. CASE Refreshed
    <3>1. /\ pc = "refresh" /\ InHand /\ ~InProgress(acct)
          /\ UNCHANGED <<found, fetch, acct>>
      BY <2>8 DEF Refreshed, InHand, InProgress
    <3>2. CASE Counted("failed") \/ Counted("skipped")
      BY <2>0, <3>1, <3>2, EntryMade DEF Counted
    <3>3. CASE pc' = "confirm" /\ UNCHANGED outcome
      BY <1>s, <2>0, <3>1, <3>3
    <3> QED
      BY <2>8, <3>2, <3>3 DEF Refreshed
  <2>9. CASE ConfirmOver
    BY <2>0, <2>9, AsksAgain DEF ConfirmOver, Waited, account
  <2>10. CASE Judge
    <3>1. /\ pc = "second" /\ InHand /\ ~InProgress(acct)
          /\ UNCHANGED <<found, fetch, acct>>
      BY <2>10 DEF Judge, InHand, InProgress
    <3>2. CASE Counted("failed") \/ Counted("skipped")
      BY <2>0, <3>1, <3>2, EntryMade DEF Counted
    <3>3. CASE pc' = "confirmed" /\ UNCHANGED outcome
      BY <1>s, <2>0, <3>1, <3>3
    <3> QED
      BY <2>10, <3>2, <3>3 DEF Judge
  <2>11. CASE Confirmed
    <3>1. /\ pc = "confirmed" /\ InHand /\ ~InProgress(acct)
          /\ UNCHANGED <<found, fetch, acct>>
      BY <1>h, <1>q, <2>11 DEF Confirmed, InHand, queries, account
    <3>2. CASE Counted("skipped")
      BY <2>0, <3>1, <3>2, EntryMade DEF Counted
    <3>3. CASE Interrupted /\ UNCHANGED outcome
      BY <1>e, <2>0, <3>1, <3>3 DEF Interrupted, Deferred
    <3>4. CASE pc' = "call" /\ UNCHANGED outcome
      BY <1>s, <2>0, <3>1, <3>4
    <3> QED
      BY <2>11, <3>2, <3>3, <3>4 DEF Confirmed
  <2>12. CASE CallRefused
    <3>1. /\ pc = "call" /\ InHand /\ ~InProgress(acct)
          /\ UNCHANGED <<found, fetch, acct>>
      BY <1>h, <1>q, <2>12 DEF CallRefused, InHand, queries, account
    <3>2. /\ pc' \in {"next", "finish"}
          /\ \E result \in {"failed", "cut"} : outcome' = [outcome EXCEPT ![acct] = result]
      BY <2>12 DEF CallRefused, Counted, Interrupted
    <3> QED
      BY <2>0, <3>1, <3>2, EntryMade
  <2>13. CASE CallBegins
    <3>1. /\ pc = "call" /\ InHand /\ ~InProgress(acct) /\ pc' = "calling"
          /\ UNCHANGED <<found, fetch, acct, outcome>>
      BY <1>h, <1>q, <2>13 DEF CallBegins, InHand, queries, account
    <3> QED
      BY <1>s, <2>0, <3>1
  <2>14. CASE CallEnds
    <3>1. /\ pc = "calling" /\ InHand /\ ~InProgress(acct)
          /\ UNCHANGED <<found, fetch, acct>>
      BY <1>h, <1>q, <2>14 DEF CallEnds, InHand, queries, account
    <3>2. /\ pc' \in {"next", "finish"}
          /\ \E result \in {"succeeded", "failed", "cut"} :
               outcome' = [outcome EXCEPT ![acct] = result]
      BY <2>14 DEF CallEnds, Counted, Interrupted
    <3> QED
      BY <2>0, <3>1, <3>2, EntryMade
  <2>15. CASE Finish \/ SaveRequeue \/ RecordNotifications \/ AppendRun
    <3>1. /\ pc \in {"finish", "requeue", "notify", "append"} /\ pc' \in Deferred
          /\ UNCHANGED <<found, fetch, acct, outcome>>
      BY <2>15 DEF Finish, SaveRequeue, RecordNotifications, AppendRun, Deferred, queries,
         account
    <3> QED
      BY <1>e, <2>0, <3>1
  <2> QED
    BY <1>1, <2>1, <2>2, <2>3, <2>4, <2>5, <2>6, <2>7, <2>8, <2>9, <2>10, <2>11,
       <2>12, <2>13, <2>14, <2>15 DEF Step
<1>2. CASE FirstQueries
  <2>1. PICK a \in found : Acquire(a) \/ AskFirst(a) \/ GiveUp(a)
    BY <1>2 DEF FirstQueries
  <2>2. a \in Account /\ UNCHANGED <<pc, found, acct, outcome, stopped>>
    BY <1>0, <1>2 DEF FirstQueries, account
  <2>3. CASE Acquire(a)
    <3>1. InProgress(a) /\ Cardinality(Holders) < MaxFetches
      BY <2>3 DEF Acquire, InProgress, Holders
    <3> QED
      BY <2>2, <2>3, <3>1, QueryMoves DEF Acquire
  <2>4. CASE AskFirst(a)
    <3>1. InProgress(a) /\ Holding(a)
      BY <2>4 DEF AskFirst, InProgress, Holding
    <3> QED
      BY <2>2, <2>4, <3>1, QueryMoves DEF AskFirst
  <2>5. CASE GiveUp(a)
    <3>1. InProgress(a)
      BY <2>5 DEF GiveUp, InProgress
    <3> QED
      BY <2>2, <2>5, <3>1, QueryMoves DEF GiveUp
  <2> QED
    BY <2>1, <2>3, <2>4, <2>5
<1>3. CASE FetchUsage
  <2>1. PICK a \in Account : AnswerMade(a) \/ AnswerRead(a) \/ NoAnswerRead(a)
    BY <1>3 DEF FetchUsage
  <2>2. UNCHANGED <<pc, found, acct, outcome, stopped>>
    BY <1>3 DEF FetchUsage, account
  <2>3. InProgress(a) /\ Holding(a)
    BY <2>1 DEF AnswerMade, AnswerRead, NoAnswerRead, InProgress, Holding
  <2>4. \E next \in {"answered", "done"} : fetch' = [fetch EXCEPT ![a] = next]
    BY <2>1 DEF AnswerMade, AnswerRead, NoAnswerRead
  <2> QED
    BY <2>2, <2>3, <2>4, QueryMoves
<1>4. CASE Tick \/ UserOpens \/ Stop \/ OtherWrite \/ UNCHANGED vars
  <2>1. UNCHANGED <<pc, found, fetch, acct, outcome>> /\ stopped' \in BOOLEAN
    BY <1>0, <1>4 DEF Tick, UserOpens, Stop, OtherWrite, vars, queries, account
  <2> QED
    BY <2>1, ControlKept
<1> QED
  BY <1>1, <1>2, <1>3, <1>4 DEF Next, Work

LEMMA ControlCorrect == Spec => []Control
  BY InitControl, ControlStep, PTL DEF Spec
-----------------------------------------------------------------------------
(* Types.                                                                  *)

LEMMA NoAnswerType == NoAnswer \in Observation /\ ~NoAnswer.ok
  BY DEF NoAnswer, Observation

LEMMA InitTypes == Init => DataTypes /\ ReportTypes
<1>1. Init => DataTypes
  <2> SUFFICES ASSUME Init PROVE DataTypes
    OBVIOUS
  <2>1. /\ now = 1 /\ opened = [a \in Account |-> 0] /\ answer = [a \in Account |-> NoAnswer]
        /\ first = NoAnswer /\ deadline = 0 /\ checkedAge = 0 /\ lastModelFinishedAt = 0
    BY DEF Init
  <2> QED
    BY <2>1, NoAnswerType DEF DataTypes
<1>2. Init => ReportTypes
  BY DEF Init, ReportTypes
<1> QED
  BY <1>1, <1>2

LEMMA DataStep == Control /\ DataTypes /\ [Next]_vars => DataTypes'
<1> SUFFICES ASSUME Control, DataTypes, [Next]_vars PROVE DataTypes'
  OBVIOUS
<1>0. /\ now \in Nat /\ opened \in [Account -> Nat]
      /\ answer \in [Account -> Observation] /\ first \in Observation
      /\ deadline \in Nat /\ checkedAge \in Nat /\ lastModelFinishedAt \in Nat
      /\ Spacing \in Nat /\ ConfirmWait \in Nat
  BY RoundAssumption DEF DataTypes
<1>a. /\ found \subseteq Account /\ acct \in found \cup {0}
      /\ InHand => acct \in Account
  BY DEF Control, ControlTypes
<1>n. \A a : [answer EXCEPT ![a] = NoAnswer] \in [Account -> Observation]
  BY <1>0, NoAnswerType
<1>1. CASE UNCHANGED <<now, opened, answer, first, deadline, checkedAge, lastModelFinishedAt>>
  BY <1>0, <1>1 DEF DataTypes
<1>2. CASE Tick \/ UserOpens
  <2>1. now' \in Nat /\ opened' \in [Account -> Nat]
    BY <1>0, <1>2 DEF Tick, UserOpens
  <2> QED
    BY <1>0, <1>2, <2>1 DEF Tick, UserOpens, DataTypes, queries, account
<1>3. CASE FetchUsage
  <2>1. answer' \in [Account -> Observation]
    <3>1. PICK a \in Account : AnswerMade(a) \/ AnswerRead(a) \/ NoAnswerRead(a)
      BY <1>3 DEF FetchUsage
    <3>2. CASE AnswerMade(a)
      <4>1. PICK candidate \in BOOLEAN :
              answer' = [answer EXCEPT ![a] =
                    [checked |-> now,
                     reset |-> IF opened[a] = 0 THEN now ELSE opened[a],
                     candidate |-> candidate, idle |-> opened[a] = 0,
                     ok |-> TRUE]]
        BY <3>2 DEF AnswerMade
      <4>2. [checked |-> now,
             reset |-> IF opened[a] = 0 THEN now ELSE opened[a],
             candidate |-> candidate, idle |-> opened[a] = 0, ok |-> TRUE] \in Observation
        BY <1>0 DEF Observation
      <4> QED
        BY <1>0, <4>1, <4>2
    <3>3. CASE AnswerRead(a)
      <4>1. [answer[a] EXCEPT !.checked = now] \in Observation
        BY <1>0 DEF Observation
      <4>2. \/ answer' = [answer EXCEPT ![a] = [answer[a] EXCEPT !.checked = now]]
            \/ answer' = [answer EXCEPT ![a] = NoAnswer]
        BY <1>0, <3>3 DEF AnswerRead
      <4> QED
        BY <1>0, <1>n, <4>1, <4>2
    <3>4. CASE NoAnswerRead(a)
      BY <1>n, <3>4 DEF NoAnswerRead
    <3> QED
      BY <3>1, <3>2, <3>3, <3>4
  <2> QED
    BY <1>0, <1>3, <2>1 DEF FetchUsage, DataTypes, clocks, account
<1>4. CASE Step
  <2>0. UNCHANGED <<now, opened>>
    BY <1>4 DEF Step, clocks
  <2>1. CASE NextAccount
    <3>1. first' \in Observation
      <4>1. CASE Left = {} \/ stopped
        BY <1>0, <2>1, <4>1, NoAnswerType DEF NextAccount
      <4>2. CASE Left # {} /\ ~stopped
        <5>1. Left \subseteq Nat /\ Left \subseteq Account
          BY <1>a, RoundAssumption DEF Left
        <5>2. Min(Left) \in Account
          BY <4>2, <5>1, MinIsMember
        <5> QED
          BY <1>0, <2>1, <4>2, <5>2 DEF NextAccount
      <4> QED
        BY <4>1, <4>2
    <3>2. answer' \in [Account -> Observation]
      BY <1>0, <1>n, <2>1 DEF NextAccount
    <3> QED
      BY <1>0, <2>0, <2>1, <3>1, <3>2 DEF NextAccount, DataTypes
  <2>2. CASE CheckAccount
    BY <1>0, <2>0, <2>2 DEF CheckAccount, DataTypes, TurnAt, queries
  <2>3. CASE SpacingOver
    BY <1>0, <2>0, <2>3 DEF SpacingOver, DataTypes, ConfirmDeadline
  <2>4. CASE Refreshed
    <3>1. answer' \in [Account -> Observation]
      BY <1>n, <2>4 DEF Refreshed
    <3>2. first' \in Observation
      BY <1>0, <1>a, <2>4 DEF Refreshed, InHand
    <3>3. deadline' \in Nat
      BY <1>0, <2>4 DEF Refreshed, ConfirmDeadline
    <3> QED
      BY <1>0, <2>0, <2>4, <3>1, <3>2, <3>3 DEF Refreshed, DataTypes
  <2>5. CASE Judge
    BY <1>0, <1>n, <2>0, <2>5 DEF Judge, DataTypes
  <2>6. CASE CallEnds
    BY <1>0, <2>0, <2>6 DEF CallEnds, DataTypes, queries, account
  <2>7. CASE Start \/ Inventory \/ FetchesDone \/ WaitStopped \/ ConfirmOver \/ Confirmed
             \/ CallRefused \/ CallBegins \/ Finish \/ SaveRequeue
             \/ RecordNotifications \/ AppendRun
    BY <1>1, <2>0, <2>7 DEF Start, Inventory, FetchesDone, WaitStopped, ConfirmOver,
       Confirmed, CallRefused, CallBegins, Finish, SaveRequeue, RecordNotifications,
       AppendRun, queries, account
  <2> QED
    BY <1>4, <2>1, <2>2, <2>3, <2>4, <2>5, <2>6, <2>7 DEF Step
<1>5. CASE FirstQueries \/ Stop \/ OtherWrite \/ UNCHANGED vars
  BY <1>1, <1>5 DEF FirstQueries, Stop, OtherWrite, vars, clocks, queries, account
<1> QED
  BY <1>2, <1>3, <1>4, <1>5 DEF Next, Work

LEMMA ReportStep == ReportTypes /\ [Next]_vars => ReportTypes'
<1> SUFFICES ASSUME ReportTypes, [Next]_vars PROVE ReportTypes'
  OBVIOUS
<1>r. UNCHANGED <<trigger, readOnly>>
  BY DEF Next, Work, Step, FirstQueries, FetchUsage, Tick, UserOpens, Stop, OtherWrite, vars,
     request
<1>w. UNCHANGED writes \/ WriteTried \/ Finish
  BY DEF Next, Work, Step, FirstQueries, FetchUsage, Tick, UserOpens, Stop, OtherWrite, vars,
     Start, Inventory, FetchesDone, NextAccount, CheckAccount, WaitStopped, SpacingOver,
     Refreshed, ConfirmOver, Judge, Confirmed, CallRefused, CallBegins, CallEnds, SaveRequeue,
     RecordNotifications, AppendRun, WriteTried
<1>1. writeFailed' \in BOOLEAN /\ dirty' \in BOOLEAN
  BY <1>w DEF ReportTypes, writes, WriteTried, Written, NotWritten, Finish
<1>e. \/ error' \in {error, "unavailable", "interrupted", "failed"} /\ UNCHANGED <<success, putBack>>
      \/ Finish \/ AppendRun
  BY DEF Next, Work, Step, FirstQueries, FetchUsage, Tick, UserOpens, Stop, OtherWrite, vars,
     Start, Inventory, FetchesDone, NextAccount, CheckAccount, WaitStopped, SpacingOver,
     Refreshed, ConfirmOver, Judge, Confirmed, CallRefused, CallBegins, CallEnds,
     SaveRequeue, RecordNotifications, Interrupted, Counted, report
<1>2. error' \in {"", "unavailable", "interrupted", "failed", "state_write_failed"}
  BY <1>e DEF ReportTypes, Finish, Reported, AppendRun, AppendFailed
<1>3. success' \in BOOLEAN /\ putBack' \in BOOLEAN
  BY <1>e DEF ReportTypes, Finish, AppendRun, AppendFailed
<1> QED
  BY <1>r, <1>1, <1>2, <1>3 DEF ReportTypes

LEMMA TypesCorrect == Spec => [](DataTypes /\ ReportTypes)
<1>1. Control /\ (DataTypes /\ ReportTypes) /\ [Next]_vars => (DataTypes /\ ReportTypes)'
  BY DataStep, ReportStep
<1> QED
  BY <1>1, InitTypes, ControlCorrect, PTL DEF Spec

(* Every variable has its type, no more queries than the semaphore admits  *)
(* are under way, and the account in hand has no entry in the record       *)
(* (executeRun, fetchInitialUsagesUntil).                                  *)
THEOREM TypeCorrect == Spec => []TypeOK
<1>1. Control /\ DataTypes /\ ReportTypes => TypeOK
  <2> SUFFICES ASSUME Control, DataTypes, ReportTypes PROVE TypeOK
    OBVIOUS
  <2>1. Cardinality({a \in Account : Holding(a)}) <= MaxFetches
    BY DEF Control, Holders
  <2>2. {success, putBack, writeFailed, dirty} \subseteq BOOLEAN
    BY DEF ReportTypes
  <2>3. {deadline, checkedAge, lastModelFinishedAt} \subseteq Nat
    BY DEF DataTypes
  <2>4. InHand => outcome[acct] = "none"
    BY DEF Control
  <2> QED
    BY <2>1, <2>2, <2>3, <2>4 DEF TypeOK, Control, ControlTypes, Place, DataTypes, ReportTypes
<1> QED
  BY <1>1, ControlCorrect, TypesCorrect, PTL
-----------------------------------------------------------------------------
(* What the answers are evidence of.                                       *)

LEMMA InitEvidence == Init => Evidence
<1> SUFFICES ASSUME Init PROVE Evidence
  OBVIOUS
<1>1. \A a \in Account : fetch[a] = "none" /\ ~answer[a].ok
  BY NoAnswerType DEF Init
<1>2. pc = "start" /\ now = 1
  BY DEF Init
<1> QED
  BY <1>1, <1>2 DEF Evidence, Answers, Answered, NotAsked, First, Apart, InHand

(* A window once opened stays as it is, and the clock only moves on. *)
WorldMovesOn ==
  /\ now' \in Nat /\ now <= now'
  /\ opened' \in [Account -> Nat]
  /\ \A a \in Account : opened[a] # 0 => opened'[a] = opened[a]

LEMMA AnswersKept ==
  ASSUME DataTypes, Answers, WorldMovesOn,
         \A a \in Account : Answered(a)' =>
           Answered(a) /\ answer'[a] = answer[a] /\ fetch'[a] = fetch[a]
  PROVE  Answers'
<1> SUFFICES ASSUME NEW a \in Account, Answered(a)'
             PROVE  /\ Genuine(a, answer[a])'
                    /\ fetch'[a] = "answered" /\ answer'[a].idle => answer'[a].reset = answer'[a].checked
                    /\ fetch'[a] = "done" /\ answer'[a].idle => Remaining(answer[a])'
  BY DEF Answers
<1>1. Answered(a) /\ answer'[a] = answer[a] /\ fetch'[a] = fetch[a] /\ answer[a] \in Observation
  BY DEF DataTypes
<1>2. Genuine(a, answer[a])
  BY <1>1 DEF Answers
<1>3. Genuine(a, answer[a])'
  <2>1. /\ answer'[a].checked <= now'
        /\ ~answer'[a].idle => opened'[a] # 0 /\ answer'[a].reset = opened'[a]
        => Genuine(a, answer[a])'
    BY DEF Genuine
  <2>2. /\ now \in Nat /\ now' \in Nat /\ now <= now' /\ answer[a].checked \in Nat
        /\ opened[a] # 0 => opened'[a] = opened[a]
    BY <1>1 DEF WorldMovesOn, DataTypes, Observation
  <2>3. answer[a].ok /\ answer[a].checked <= now
        /\ (~answer[a].idle => opened[a] # 0 /\ answer[a].reset = opened[a])
    BY <1>1, <1>2 DEF Genuine, Answered
  <2> QED
    BY <1>1, <2>1, <2>2, <2>3
<1> QED
  BY <1>1, <1>3 DEF Answers, Remaining

(* What is left after an entry was made, or before an account is in hand.  *)
LEMMA NothingInHand ==
  ASSUME Evidence, now' = now, Answers', NotAsked', ~InHand'
  PROVE  Evidence'
  BY DEF Evidence, First, Apart, InHand

(* The account in hand waits, or is called. *)
LEMMA StillInHand ==
  ASSUME Control, DataTypes, Evidence, InHand, pc' \in {"spacing", "confirmed", "call", "calling"},
         UNCHANGED <<now, opened, fetch, answer, acct, first>>, first.ok,
         pc' = "confirmed" => first.idle
  PROVE  Evidence'
<1>1. Answers'
  BY DEF Evidence, Answers, Answered, Genuine, Remaining
<1>2. NotAsked'
  BY DEF Evidence, NotAsked
<1>3. First'
  BY DEF Evidence, First, Genuine, Remaining, InHand
<1>4. Apart'
  BY DEF Apart
<1> QED
  BY <1>1, <1>2, <1>3, <1>4 DEF Evidence

(* The answer in hand is taken from the record of the queries. *)
LEMMA AnswerTaken ==
  ASSUME DataTypes, Evidence, NEW a \in Account, answer' = [answer EXCEPT ![a] = NoAnswer],
         UNCHANGED <<now, opened, fetch>>, pc' \notin {"start", "inventory"}
  PROVE  Answers' /\ NotAsked'
<1>1. \A b \in Account : answer'[b].ok => answer'[b] = answer[b] /\ answer[b].ok
  BY NoAnswerType DEF DataTypes
<1>2. WorldMovesOn
  BY DEF WorldMovesOn, DataTypes
<1>3. Answers'
  BY <1>1, <1>2, AnswersKept DEF Evidence, Answered
<1>4. NotAsked'
  BY <1>1 DEF Evidence, NotAsked
<1> QED
  BY <1>3, <1>4

(* Two observations that ConfirmedIdle accepts are not of a window that    *)
(* was in use when the first one was made.                                 *)
LEMMA ConfirmedMeansIdle ==
  ASSUME Control, DataTypes, Evidence, pc = "second", fetch[acct] = "done", answer[acct].ok,
         ConfirmedIdle(first, answer[acct])
  PROVE  first.idle
<1>1. acct \in Account /\ InHand
  BY DEF Control, ControlTypes, InHand
<1>2. first \in Observation /\ answer[acct] \in Observation /\ opened \in [Account -> Nat]
  BY <1>1 DEF DataTypes
<1>3. /\ Genuine(acct, first) /\ first.ok
      /\ Answered(acct) /\ Genuine(acct, answer[acct])
      /\ answer[acct].checked >= first.checked + ConfirmWait
  BY <1>1 DEF Evidence, First, Apart, Answers, Answered
<1>4. answer[acct].reset + Tolerance >= first.reset + (answer[acct].checked - first.checked)
  BY DEF ConfirmedIdle
<1>5. SUFFICES ASSUME ~first.idle PROVE FALSE
  OBVIOUS
<1>6. ~answer[acct].idle
  BY <1>3, <1>5 DEF Evidence, Apart
<1>7. answer[acct].reset = first.reset
  BY <1>3, <1>5, <1>6 DEF Genuine
<1>8. Tolerance < ConfirmWait /\ Tolerance \in Nat /\ ConfirmWait \in Nat
  BY RoundAssumption
<1> QED
  BY <1>2, <1>3, <1>4, <1>7, <1>8 DEF Observation

LEMMA FetchEvidence == Control /\ DataTypes /\ Evidence /\ FetchUsage => Evidence'
<1> SUFFICES ASSUME Control, DataTypes, Evidence, FetchUsage PROVE Evidence'
  OBVIOUS
<1>1. PICK a \in Account : AnswerMade(a) \/ AnswerRead(a) \/ NoAnswerRead(a)
  BY DEF FetchUsage
<1>2. /\ UNCHANGED <<now, opened, pc, found, acct, first, deadline, checkedAge>>
  BY DEF FetchUsage, clocks, account
<1>3. /\ fetch'[a] \in {"answered", "done"} /\ Holding(a) /\ InProgress(a)
      /\ \A b \in Account \ {a} : fetch'[b] = fetch[b] /\ answer'[b] = answer[b]
  BY <1>1 DEF AnswerMade, AnswerRead, NoAnswerRead, Holding, InProgress, Control, ControlTypes, DataTypes
<1>4. /\ pc \notin {"start", "inventory"}
      /\ pc = "fetch" \/ (pc \in {"refresh", "second"} /\ a = acct)
  BY <1>3 DEF Control, Queries
<1>5. now \in Nat /\ now > 0 /\ opened[a] \in Nat /\ answer[a] \in Observation /\ answer'[a] \in Observation
      /\ first \in Observation /\ ConfirmWait \in Nat /\ Slack \in Nat
  <2>1. DataTypes'
    BY DataStep DEF Next, Work
  <2> QED
    BY <2>1, RoundAssumption DEF DataTypes, Evidence
(* What the answer says of the window. *)
<1>6. answer'[a].ok =>
        /\ Genuine(a, answer'[a])
        /\ answer'[a].checked = now
        /\ fetch'[a] = "answered" => fetch[a] = "asked" /\ (answer'[a].idle <=> opened[a] = 0)
        /\ fetch'[a] = "answered" /\ answer'[a].idle => answer'[a].reset = answer'[a].checked
        /\ fetch'[a] = "done" => Answered(a) /\ (answer'[a].idle <=> answer[a].idle)
        /\ fetch'[a] = "done" /\ answer'[a].idle => Remaining(answer'[a])
  <2>1. CASE AnswerMade(a)
    <3>1. PICK candidate \in BOOLEAN :
              answer'[a] = [checked |-> now,
                     reset |-> IF opened[a] = 0 THEN now ELSE opened[a],
                     candidate |-> candidate, idle |-> opened[a] = 0,
                     ok |-> TRUE]
      BY <2>1 DEF AnswerMade, DataTypes
    <3>2. /\ answer'[a].checked = now /\ (answer'[a].idle <=> opened[a] = 0)
          /\ answer'[a].reset = IF opened[a] = 0 THEN now ELSE opened[a]
      <4>1. answer'[a].checked = now /\ answer'[a].reset = IF opened[a] = 0 THEN now ELSE opened[a]
        BY <3>1
      <4>2. answer'[a].idle = (opened[a] = 0)
        BY <3>1, SMT
      <4> QED
        BY <4>1, <4>2, Zenon
    <3>3. fetch'[a] = "answered" /\ fetch[a] = "asked"
      <4>1. fetch[a] = "asked" /\ fetch' = [fetch EXCEPT ![a] = "answered"]
        BY <2>1, Zenon DEF AnswerMade
      <4> QED
        BY <4>1 DEF Control, ControlTypes
    <3>4. Genuine(a, answer'[a])
      <4>1. answer'[a].ok => now <= now
        BY <1>5
      <4> QED
        BY <1>2, <1>5, <3>2, <4>1 DEF Genuine
    <3> QED
      BY <3>2, <3>3, <3>4
  <2>2. CASE AnswerRead(a)
    <3>1. fetch[a] = "answered" /\ fetch'[a] = "done"
      BY <2>2 DEF AnswerRead, Control, ControlTypes
    <3>2. SUFFICES ASSUME answer'[a].ok
                   PROVE  /\ Genuine(a, answer'[a]) /\ answer'[a].checked = now
                          /\ Answered(a) /\ (answer'[a].idle <=> answer[a].idle)
                          /\ answer'[a].idle => Remaining(answer'[a])
      BY <3>1
    <3>3. /\ answer'[a] = [answer[a] EXCEPT !.checked = now]
          /\ now - answer[a].checked <= Slack
      BY <2>2, <3>2, NoAnswerType DEF AnswerRead, DataTypes
    <3>4. /\ answer'[a].checked = now /\ (answer'[a].idle <=> answer[a].idle)
          /\ answer'[a].ok = answer[a].ok /\ answer'[a].reset = answer[a].reset
      BY <1>5, <3>3 DEF Observation
    <3>5. Answered(a) /\ Genuine(a, answer[a])
      BY <3>1, <3>2, <3>4 DEF Answered, Evidence, Answers
    <3>6. Genuine(a, answer'[a])
      BY <1>5, <3>4, <3>5 DEF Genuine
    <3>7. answer[a].idle => answer[a].reset = answer[a].checked
      BY <3>1, <3>5 DEF Evidence, Answers
    <3> QED
      BY <1>5, <3>3, <3>4, <3>5, <3>6, <3>7 DEF Remaining
  <2>3. CASE NoAnswerRead(a)
    BY <2>3, NoAnswerType DEF NoAnswerRead, DataTypes
  <2> QED
    BY <1>1, <2>1, <2>2, <2>3
<1>7. Answers'
  <2>1. \A b \in Account \ {a} : Answered(b)' => Answered(b)
    BY <1>3 DEF Answered
  <2> QED
    BY <1>2, <1>3, <1>6, <2>1 DEF Evidence, Answers, Answered, Genuine, Remaining
<1>8. NotAsked'
  BY <1>2, <1>3, <1>4 DEF Evidence, NotAsked
<1>9. First'
  BY <1>2 DEF Evidence, First, Genuine, Remaining, InHand
<1>10. Apart'
  <2>1. CASE pc = "fetch"
    BY <1>2, <2>1 DEF Apart
  <2>2. CASE pc = "refresh"
    BY <1>2, <1>4, <1>5, <1>6, <2>2 DEF Evidence, Apart, Answered
  <2>3. CASE pc = "second"
    <3>1. a = acct /\ first.ok /\ Genuine(acct, first)
      BY <1>4, <2>3 DEF Evidence, First, InHand
    <3>2. answer'[a].ok /\ ~first.idle => ~answer'[a].idle
      BY <1>3, <1>6, <2>3, <3>1 DEF Evidence, Apart, Genuine
    <3> QED
      BY <1>2, <1>5, <1>6, <2>3, <3>1, <3>2 DEF Evidence, Apart, Answered
  <2> QED
    BY <1>4, <2>1, <2>2, <2>3
<1> QED
  BY <1>2, <1>4, <1>7, <1>8, <1>9, <1>10 DEF Evidence

LEMMA WorldEvidence ==
  Control /\ DataTypes /\ Evidence /\ (Tick \/ UserOpens \/ FirstQueries) => Evidence'
<1> SUFFICES ASSUME Control, DataTypes, Evidence, Tick \/ UserOpens \/ FirstQueries PROVE Evidence'
  OBVIOUS
<1>1. UNCHANGED <<pc, acct, first, deadline, checkedAge, answer, found>>
  BY DEF Tick, UserOpens, FirstQueries, queries, account
<1>2. WorldMovesOn
  BY DEF WorldMovesOn, Tick, UserOpens, FirstQueries, clocks, DataTypes
<1>3. \A a \in Account :
        \/ fetch'[a] = fetch[a]
        \/ pc = "fetch" /\ fetch[a] \in {"waiting", "holding"}
  BY DEF Tick, UserOpens, FirstQueries, queries, Control, ControlTypes, Acquire, AskFirst, GiveUp
<1>4. Answers'
  <2>1. \A a \in Account : Answered(a)' => Answered(a) /\ fetch'[a] = fetch[a]
    BY <1>1, <1>3 DEF Answered, Evidence, NotAsked
  <2> QED
    BY <1>1, <1>2, <2>1, AnswersKept DEF Evidence
<1>5. NotAsked'
  BY <1>1, <1>3 DEF Evidence, NotAsked
<1>6. First'
  <2>1. InHand => acct \in Account /\ first \in Observation
    BY DEF Control, ControlTypes, DataTypes
  <2>2. InHand => Genuine(acct, first)'
    <3>1. InHand => Genuine(acct, first)
      BY DEF Evidence, First
    <3> QED
      BY <1>1, <1>2, <2>1, <3>1 DEF WorldMovesOn, Genuine, DataTypes, Observation
  <2>3. InHand' <=> InHand
    BY <1>1 DEF InHand
  <2> QED
    BY <1>1, <2>2, <2>3 DEF Evidence, First, Remaining, Genuine
<1>7. Apart'
  <2>1. now \in Nat /\ now' \in Nat /\ now <= now' /\ checkedAge \in Nat /\ first.checked \in Nat
        /\ ConfirmWait \in Nat
    BY <1>2, RoundAssumption DEF WorldMovesOn, DataTypes, Observation
  <2>2. pc \in {"refresh", "second"} => fetch'[acct] = fetch[acct]
    BY <1>3 DEF Control, ControlTypes, InHand
  <2> QED
    BY <1>1, <2>1, <2>2 DEF Evidence, Apart, Answered
<1> QED
  BY <1>1, <1>2, <1>4, <1>5, <1>6, <1>7 DEF Evidence, WorldMovesOn, DataTypes
(* An action of executeRun. *)
LEMMA StepEvidence == Control /\ DataTypes /\ Evidence /\ Step => Evidence'
<1> SUFFICES ASSUME Control, DataTypes, Evidence, Step PROVE Evidence'
  OBVIOUS
<1>0. UNCHANGED <<now, opened>>
  BY DEF Step, clocks
<1>c. /\ InHand => acct \in found /\ acct \in Account /\ Genuine(acct, first)
      /\ InHand => (first.ok /\ first.idle => Remaining(first))
      /\ InHand /\ pc # "check" => first.ok
  BY DEF Control, ControlTypes, Evidence, First
<1>t. /\ now \in Nat /\ deadline \in Nat /\ checkedAge \in Nat /\ first \in Observation
      /\ first.checked \in Nat /\ ConfirmWait \in Nat /\ MaxAge \in Nat
  BY RoundAssumption DEF DataTypes, Observation
(* The answers stay as they are. *)
<1>k. ASSUME UNCHANGED <<fetch, answer>>,
             pc' \in {"start", "inventory"} => pc = "start"
      PROVE  Answers' /\ NotAsked'
  <2>1. Answers'
    BY <1>0, <1>k DEF Evidence, Answers, Answered, Genuine, Remaining
  <2>2. NotAsked'
    BY <1>k DEF Evidence, NotAsked
  <2> QED
    BY <2>1, <2>2
<1>n. ASSUME UNCHANGED <<fetch, answer>>,
             pc' \in Deferred \cup {"next", "fetch"} \/ pc = "start",
             ~InHand'
      PROVE  Evidence'
  BY <1>0, <1>k, <1>n, NothingInHand DEF Deferred
<1>1. CASE Start \/ FetchesDone \/ WaitStopped \/ Finish \/ SaveRequeue
           \/ RecordNotifications \/ AppendRun
           \/ CallRefused \/ CallEnds
  <2>1. UNCHANGED <<fetch, answer>>
    BY <1>1 DEF Start, FetchesDone, WaitStopped, Finish, SaveRequeue, RecordNotifications,
       AppendRun, CallRefused, CallEnds, queries
  <2>2. /\ pc' \in Deferred \cup {"next", "fetch"} \/ pc = "start"
        /\ ~InHand'
    BY <1>1 DEF Start, FetchesDone, WaitStopped, Finish, SaveRequeue, RecordNotifications,
       AppendRun, CallRefused, CallEnds, Interrupted, Counted, InHand, Deferred
  <2> QED
    BY <1>n, <2>1, <2>2
<1>2. CASE Inventory
  <2>1. /\ pc = "inventory" /\ pc' \in {"fetch", "finish"} /\ UNCHANGED answer
    BY <1>2 DEF Inventory
  <2>2. \A a \in Account : ~answer[a].ok
    BY <2>1 DEF Evidence, NotAsked
  <2>3. Answers' /\ NotAsked' /\ ~InHand'
    BY <2>1, <2>2 DEF Answers, Answered, NotAsked, InHand
  <2> QED
    BY <1>0, <2>3, NothingInHand
<1>3. CASE NextAccount
  <2>1. pc = "next" /\ UNCHANGED fetch
    BY <1>3 DEF NextAccount
  <2>2. CASE Left = {} \/ stopped
    <3>1. pc' = "finish" /\ UNCHANGED answer
      BY <1>3, <2>2 DEF NextAccount, Interrupted
    <3> QED
      BY <1>n, <2>1, <3>1 DEF InHand, Deferred
  <2>3. CASE Left # {} /\ ~stopped
    <3>1. Min(Left) \in Left
      <4>1. Left \subseteq Nat
        BY RoundAssumption DEF Left, Control, ControlTypes
      <4> QED
        BY <2>3, <4>1, MinIsMember
    <3>2. PICK a \in Left : acct' = a /\ first' = answer[a] /\ pc' = "check"
                            /\ answer' = [answer EXCEPT ![a] = NoAnswer]
      BY <1>3, <2>3, <3>1 DEF NextAccount
    <3>3. a \in found /\ a \in Account
      BY DEF Left, Control, ControlTypes
    <3>4. fetch[a] = "done"
      BY <2>1, <3>3 DEF Control, ControlTypes, Queries, InProgress
    <3>5. answer[a].ok => Genuine(a, answer[a]) /\ (answer[a].idle => Remaining(answer[a]))
      BY <3>3, <3>4 DEF Evidence, Answers, Answered
    <3>6. Answers' /\ NotAsked'
      BY <1>0, <2>1, <3>2, <3>3, AnswerTaken
    <3>7. First'
      BY <1>0, <3>2, <3>5 DEF First, Genuine, Remaining
    <3>8. Apart'
      BY <3>2 DEF Apart
    <3> QED
      BY <1>0, <3>2, <3>6, <3>7, <3>8 DEF Evidence
  <2> QED
    BY <2>2, <2>3
<1>4. CASE CheckAccount
  <2>1. pc = "check" /\ UNCHANGED <<fetch, answer, acct, first>>
    BY <1>4 DEF CheckAccount, queries
  <2>2. CASE pc' = "next"
    BY <1>n, <2>1, <2>2 DEF InHand
  <2>3. CASE pc' = "spacing" /\ first.ok
    BY <1>0, <2>1, <2>3, StillInHand DEF InHand
  <2> QED
    BY <1>4, <2>2, <2>3 DEF CheckAccount, Counted
<1>5. CASE SpacingOver
  <2>1. /\ pc = "spacing" /\ UNCHANGED <<answer, acct, first>> /\ checkedAge' = now /\ InHand
    BY <1>5 DEF SpacingOver, Waited, InHand
  <2>2. First' /\ now' > 0
    BY <1>0, <1>c, <2>1 DEF First, Genuine, Remaining, Evidence
  <2>3. CASE TooOld
    <3>1. pc' = "refresh" /\ fetch' = [fetch EXCEPT ![acct] = "asked"]
      BY <1>5, <2>3 DEF SpacingOver, AskAgain
    <3>2. \A a \in Account : Answered(a)' => Answered(a) /\ fetch'[a] = fetch[a]
      BY <2>1, <3>1 DEF Answered, Control, ControlTypes
    <3>3. Answers'
      BY <1>0, <1>t, <2>1, <3>2, AnswersKept DEF Evidence, WorldMovesOn, DataTypes
    <3>4. NotAsked'
      BY <2>1, <3>1 DEF Evidence, NotAsked, Control, ControlTypes
    <3>5. fetch'[acct] = "asked"
      BY <1>c, <2>1, <3>1 DEF Control, ControlTypes
    <3>6. Apart'
      BY <1>0, <1>t, <2>1, <3>1, <3>5 DEF Apart, Answered
    <3> QED
      BY <2>2, <3>1, <3>3, <3>4, <3>6 DEF Evidence
  <2>4. CASE ~TooOld
    <3>1. pc' = "confirm" /\ deadline' = now + ConfirmWait /\ UNCHANGED fetch
      BY <1>5, <2>4 DEF SpacingOver, ConfirmDeadline
    <3>2. first.ok /\ first.checked <= now /\ now - first.checked <= MaxAge
      BY <1>c, <1>t, <2>1, <2>4 DEF TooOld, Genuine
    <3>3. Apart'
      BY <1>0, <1>t, <2>1, <3>1, <3>2 DEF Apart
    <3> QED
      BY <1>k, <2>1, <2>2, <3>1, <3>3 DEF Evidence
  <2> QED
    BY <2>3, <2>4
<1>6. CASE Refreshed
  <2>1. /\ pc = "refresh" /\ fetch[acct] = "done" /\ UNCHANGED <<fetch, acct, checkedAge>>
        /\ answer' = [answer EXCEPT ![acct] = NoAnswer] /\ acct \in Account
    BY <1>6, <1>c DEF Refreshed, InHand
  <2>2. pc' \in {"next", "confirm"}
    BY <1>6 DEF Refreshed, Counted
  <2>3. Answers' /\ NotAsked'
    BY <1>0, <2>1, <2>2, AnswerTaken
  <2>4. CASE pc' = "next"
    BY <1>0, <2>3, <2>4, NothingInHand DEF InHand
  <2>5. CASE pc' = "confirm"
    <3>1. /\ answer[acct].ok /\ first' = answer[acct] /\ deadline' = now + ConfirmWait
      BY <1>6, <2>5 DEF Refreshed, Counted, ConfirmDeadline
    <3>2. /\ Genuine(acct, answer[acct]) /\ answer[acct].checked >= checkedAge
          /\ answer[acct].idle => Remaining(answer[acct])
          /\ answer[acct].checked \in Nat
      BY <2>1, <3>1 DEF Evidence, Answers, Answered, Apart, DataTypes, Observation
    <3>3. First'
      BY <1>0, <2>1, <2>5, <3>1, <3>2 DEF First, Genuine, Remaining
    <3>4. Apart'
      BY <1>0, <1>t, <2>1, <2>5, <3>1, <3>2 DEF Apart, Genuine
    <3> QED
      BY <1>0, <2>3, <2>5, <3>3, <3>4 DEF Evidence
  <2> QED
    BY <2>2, <2>4, <2>5
<1>7. CASE ConfirmOver
  <2>1. /\ pc = "confirm" /\ pc' = "second" /\ now >= deadline /\ InHand
        /\ UNCHANGED <<answer, acct, first, checkedAge>>
        /\ fetch' = [fetch EXCEPT ![acct] = "asked"]
    BY <1>7 DEF ConfirmOver, Waited, AskAgain, account, InHand
  <2>2. First' /\ now' > 0
    BY <1>0, <1>c, <2>1 DEF First, Genuine, Remaining, Evidence
  <2>3. fetch'[acct] = "asked"
    BY <1>c, <2>1 DEF Control, ControlTypes
  <2>4. \A a \in Account : Answered(a)' => Answered(a) /\ fetch'[a] = fetch[a]
    BY <2>1 DEF Answered, Control, ControlTypes
  <2>5. Answers'
    BY <1>0, <1>t, <2>1, <2>4, AnswersKept DEF Evidence, WorldMovesOn, DataTypes
  <2>6. NotAsked'
    BY <2>1 DEF Evidence, NotAsked, Control, ControlTypes
  <2>7. Apart'
    BY <1>0, <1>t, <2>1, <2>3 DEF Evidence, Apart, Answered
  <2> QED
    BY <2>1, <2>2, <2>5, <2>6, <2>7 DEF Evidence
<1>8. CASE Judge
  <2>1. /\ pc = "second" /\ fetch[acct] = "done" /\ UNCHANGED <<fetch, acct, first>>
        /\ answer' = [answer EXCEPT ![acct] = NoAnswer] /\ acct \in Account /\ InHand
    BY <1>8, <1>c DEF Judge, InHand
  <2>2. pc' \in {"next", "confirmed"}
    BY <1>8 DEF Judge, Counted
  <2>3. Answers' /\ NotAsked'
    BY <1>0, <2>1, <2>2, AnswerTaken
  <2>4. CASE pc' = "next"
    BY <1>0, <2>3, <2>4, NothingInHand DEF InHand
  <2>5. CASE pc' = "confirmed"
    <3>1. answer[acct].ok /\ ConfirmedIdle(first, answer[acct])
      BY <1>8, <2>5 DEF Judge, Counted
    <3>2. first.idle
      BY <2>1, <3>1, ConfirmedMeansIdle
    <3>3. First'
      BY <1>0, <1>c, <2>1 DEF First, Genuine, Remaining
    <3>4. Apart'
      BY <2>5 DEF Apart
    <3> QED
      BY <1>0, <2>1, <2>3, <2>5, <3>2, <3>3, <3>4 DEF Evidence
  <2> QED
    BY <2>2, <2>4, <2>5
<1>9. CASE Confirmed
  <2>1. pc = "confirmed" /\ UNCHANGED <<fetch, answer, acct, first>> /\ InHand
    BY <1>9 DEF Confirmed, queries, account, InHand
  <2>2. CASE pc' \in {"next", "finish"}
    BY <1>n, <2>1, <2>2 DEF InHand, Deferred
  <2>3. CASE pc' = "call"
    BY <1>0, <1>c, <2>1, <2>3, StillInHand
  <2> QED
    BY <1>9, <2>2, <2>3 DEF Confirmed, Counted, Interrupted
<1>10. CASE CallBegins
  <2>1. pc = "call" /\ pc' = "calling" /\ UNCHANGED <<fetch, answer, acct, first>> /\ InHand
    BY <1>10 DEF CallBegins, queries, account, InHand
  <2> QED
    BY <1>0, <1>c, <2>1, StillInHand
<1> QED
  BY <1>1, <1>2, <1>3, <1>4, <1>5, <1>6, <1>7, <1>8, <1>9, <1>10 DEF Step

LEMMA EvidenceStep == Control /\ DataTypes /\ Evidence /\ [Next]_vars => Evidence'
<1>1. ASSUME Control, DataTypes, Evidence, Stop \/ OtherWrite \/ UNCHANGED vars PROVE Evidence'
  <2>1. UNCHANGED <<now, opened, pc, fetch, answer, acct, first, deadline, checkedAge>>
    BY <1>1 DEF Stop, OtherWrite, vars, clocks, queries, account
  <2>2. Answers' /\ NotAsked'
    BY <1>1, <2>1 DEF Evidence, Answers, Answered, Genuine, Remaining, NotAsked
  <2>3. First' /\ Apart'
    BY <1>1, <2>1 DEF Evidence, First, Apart, Answered, Genuine, Remaining, InHand
  <2> QED
    BY <1>1, <2>1, <2>2, <2>3 DEF Evidence
<1> QED
  BY <1>1, StepEvidence, FetchEvidence, WorldEvidence DEF Next, Work

LEMMA EvidenceCorrect == Spec => []Evidence
<1>1. (Control /\ (DataTypes /\ ReportTypes)) /\ Evidence /\ [Next]_vars => Evidence'
  BY EvidenceStep
<1> QED
  BY <1>1, InitEvidence, ControlCorrect, TypesCorrect, PTL DEF Spec

(* A window in use when the first answer was made is never confirmed idle, *)
(* however late the answers and the turn of the account are: its reset     *)
(* point stays, and between the observations passes more than the          *)
(* tolerance (confirmedIdle, waitForRun).                                  *)
THEOREM IdleConfirmed == Spec => []ConfirmedWasIdle
<1>1. Evidence => ConfirmedWasIdle
  BY DEF Evidence, ConfirmedWasIdle
<1> QED
  BY <1>1, EvidenceCorrect, PTL

(* An idle account whose second answer is prompt is confirmed: the age of  *)
(* the first observation is looked at before the wait, so that the two are *)
(* never further apart than confirmedIdle admits (executeRun).             *)
THEOREM IdlePrewarmed == Spec => IdleIsConfirmed
<1> DEFINE Idle == /\ pc = "second" /\ pc' # "second"
                   /\ first.candidate /\ answer[acct].candidate
                   /\ first.idle /\ answer[acct].idle /\ Prompt(answer[acct])
                   => pc' = "confirmed" \/ outcome'[acct] = "failed"
<1>1. ASSUME Control, DataTypes, Evidence, [Next]_vars PROVE Idle
  <2> SUFFICES ASSUME pc = "second", pc' # "second", first.candidate, answer[acct].candidate,
                      first.idle, answer[acct].idle, Prompt(answer[acct])
               PROVE  pc' = "confirmed" \/ outcome'[acct] = "failed"
    OBVIOUS
  <2>1. Judge
    BY <1>1 DEF Next, Work, Step, Start, Inventory, FetchesDone, NextAccount, CheckAccount,
       WaitStopped, SpacingOver, Waited, Refreshed, ConfirmOver, Confirmed, CallRefused,
       CallBegins, CallEnds, Finish, SaveRequeue, RecordNotifications, AppendRun,
       FirstQueries, FetchUsage, Tick, UserOpens, Stop, OtherWrite, vars
  <2>2. InHand /\ acct \in Account /\ outcome \in [Account -> {"none", "skipped", "failed", "succeeded", "cut"}]
    BY <1>1 DEF InHand, Control, ControlTypes
  <2>3. CASE Counted("failed")
    BY <2>2, <2>3 DEF Counted
  <2>4. CASE answer[acct].ok
    <3>1. /\ Answered(acct) /\ fetch[acct] = "done" /\ first.ok
          /\ Remaining(first) /\ Remaining(answer[acct])
          /\ answer[acct].checked >= first.checked + ConfirmWait
          /\ checkedAge <= first.checked + MaxAge
      BY <1>1, <2>1, <2>2, <2>4 DEF Judge, Evidence, Answers, Answered, First, Apart
    <3>2. /\ first \in Observation /\ answer[acct] \in Observation /\ checkedAge \in Nat
      BY <1>1, <2>2 DEF DataTypes
    <3>3. /\ MinDelta \in Nat /\ MaxDelta \in Nat /\ ConfirmWait \in Nat /\ MaxAge \in Nat
          /\ Tolerance \in Nat /\ MinDelta <= ConfirmWait
      BY RoundAssumption
    <3>4. /\ answer[acct].checked >= first.checked + MinDelta
          /\ answer[acct].checked <= first.checked + MaxDelta
          /\ answer[acct].reset + Tolerance >= first.reset + (answer[acct].checked - first.checked)
      BY <3>1, <3>2, <3>3 DEF Prompt, Observation
    <3>5. ConfirmedIdle(first, answer[acct])
      BY <3>1, <3>4 DEF ConfirmedIdle
    <3> QED
      BY <2>1, <2>3, <3>5 DEF Judge
  <2> QED
    BY <2>1, <2>3, <2>4 DEF Judge
<1>2. (Control /\ (DataTypes /\ ReportTypes)) /\ Evidence /\ [Next]_vars => [Idle]_vars
  BY <1>1
<1> QED
  BY <1>2, ControlCorrect, TypesCorrect, EvidenceCorrect, PTL DEF Spec, IdleIsConfirmed

(* No query begins after a stop: a goroutine that gets the semaphore looks *)
(* at the stop once more, and a wait that is over begins none              *)
(* (fetchInitialUsagesUntil, waitForRun).                                  *)
THEOREM NoLateQuery == Spec => NoQueryAfterStop
<1> DEFINE Late == stopped => \A a \in Account : fetch'[a] = "asked" => fetch[a] = "asked"
<1>1. ASSUME Control, [Next]_vars PROVE Late
  <2> SUFFICES ASSUME stopped, NEW a \in Account, fetch'[a] = "asked" PROVE fetch[a] = "asked"
    OBVIOUS
  <2>0. fetch \in [Account -> {"none", "waiting", "holding", "asked", "answered", "done"}]
    BY <1>1 DEF Control, ControlTypes
  <2>1. CASE UNCHANGED fetch
    BY <2>1
  <2>2. CASE FirstQueries
    BY <2>0, <2>2 DEF FirstQueries, Acquire, AskFirst, GiveUp
  <2>3. CASE FetchUsage
    <3>1. \E b \in Account : \E next \in {"answered", "done"} : fetch' = [fetch EXCEPT ![b] = next]
      BY <2>3 DEF FetchUsage, AnswerMade, AnswerRead, NoAnswerRead
    <3> QED
      BY <2>0, <3>1
  <2>4. CASE Inventory
    <3>1. \/ UNCHANGED fetch
          \/ \E selected : fetch' = [b \in Account |-> IF b \in selected THEN "waiting" ELSE "none"]
      BY <2>4 DEF Inventory
    <3> QED
      BY <2>1, <3>1
  <2>5. ~SpacingOver /\ ~ConfirmOver
    BY DEF SpacingOver, ConfirmOver, Waited
  <2>6. UNCHANGED fetch \/ FirstQueries \/ FetchUsage \/ Inventory \/ SpacingOver \/ ConfirmOver
    BY <1>1 DEF Next, Work, Step, Start, FetchesDone, NextAccount, CheckAccount,
       WaitStopped, Refreshed, Judge, Confirmed, CallRefused, CallBegins, CallEnds, Finish,
       SaveRequeue, RecordNotifications, AppendRun, Tick, UserOpens, Stop, OtherWrite, vars, queries
  <2> QED
    BY <2>1, <2>2, <2>3, <2>4, <2>5, <2>6
<1>2. Control /\ [Next]_vars => [Late]_vars
  BY <1>1
<1> QED
  BY <1>2, ControlCorrect, PTL DEF Spec, NoQueryAfterStop

-----------------------------------------------------------------------------
(* What the round reports.                                                 *)

LEMMA InitAccounted == Init => Accounted
  BY DEF Init, Accounted, Deferred

(* Until the record is completed only an interrupt leaves an entry open,   *)
(* and an interrupt leaves one open.                                       *)
LEMMA EntriesOpen ==
  ASSUME Control, Accounted, found' = found, pc \notin Deferred,
         pc' \notin Deferred \ {"finish"},
         pc' \in {"start", "inventory", "fetch"} => pc \in {"start", "inventory", "fetch"}
                                                    /\ UNCHANGED outcome,
         \/ UNCHANGED outcome
         \/ pc' # "finish"
            /\ \E result \in {"skipped", "failed", "succeeded"} : outcome' = [outcome EXCEPT ![acct] = result]
         \/ error' = "interrupted" /\ pc' = "finish"
            /\ acct \in found /\ outcome' = [outcome EXCEPT ![acct] = "cut"],
         pc' # "finish" => UNCHANGED error,
         pc' = "finish" => \/ error' = "interrupted"
                           \/ Left = {} /\ error' \in {"failed", error} /\ UNCHANGED outcome,
         error' = "interrupted" /\ UNCHANGED outcome => found = {} \/ Unfinished
  PROVE  Accounted'
<1>1. /\ \A a \in Account : outcome[a] # "cut"
      /\ found \subseteq Account
      /\ outcome \in [Account -> {"none", "skipped", "failed", "succeeded", "cut"}]
      /\ error # "interrupted"
  BY DEF Accounted, Control, ControlTypes
<1>2. CASE UNCHANGED outcome
  <2>1. Left = {} => ~Unfinished
    BY <1>1 DEF Left, Unfinished
  <2>2. Unfinished' <=> Unfinished
    BY <1>2 DEF Unfinished
  <2> QED
    BY <1>1, <1>2, <2>1, <2>2 DEF Accounted, Deferred
<1>3. CASE pc' # "finish"
           /\ \E result \in {"skipped", "failed", "succeeded"} : outcome' = [outcome EXCEPT ![acct] = result]
  <2>1. /\ \A a \in Account : outcome'[a] # "cut"
        /\ pc' \notin {"start", "inventory", "fetch"} \/ UNCHANGED outcome
    BY <1>1, <1>3
  <2> QED
    BY <1>1, <1>2, <1>3, <2>1 DEF Accounted, Deferred
<1>4. CASE error' = "interrupted" /\ pc' = "finish" /\ acct \in found
           /\ outcome' = [outcome EXCEPT ![acct] = "cut"]
  <2>1. Unfinished'
    BY <1>1, <1>4 DEF Unfinished
  <2> QED
    BY <1>4, <2>1 DEF Accounted, Deferred
<1> QED
  BY <1>2, <1>3, <1>4

LEMMA AccountedStep == Control /\ ReportTypes /\ Accounted /\ [Next]_vars => Accounted'
<1> SUFFICES ASSUME Control, ReportTypes, Accounted, [Next]_vars PROVE Accounted'
  OBVIOUS
<1>t. trigger' = trigger
  BY DEF Next, Work, Step, FirstQueries, FetchUsage, Tick, UserOpens, Stop, OtherWrite, vars,
     request
<1>h. InHand => acct \in found /\ Unfinished
  BY DEF Control, Unfinished
<1>1. CASE Start \/ FetchesDone \/ NextAccount \/ WaitStopped \/ SpacingOver \/ ConfirmOver \/ CallBegins
  <2>1. /\ UNCHANGED <<found, outcome>>
        /\ pc \notin Deferred /\ pc' \notin Deferred \ {"finish"}
        /\ pc' \in {"start", "inventory", "fetch"} => pc \in {"start", "inventory", "fetch"}
        /\ pc' = "finish" => error' = "interrupted" \/ (Left = {} /\ error' \in {"failed", error})
        /\ pc' # "finish" => UNCHANGED error
    BY <1>1 DEF Start, FetchesDone, NextAccount, WaitStopped, SpacingOver, ConfirmOver,
       CallBegins, Interrupted, Waited, queries, report, Deferred
  <2>2. ASSUME error' = "interrupted" PROVE found = {} \/ Unfinished
    <3>1. error # "interrupted"
      BY <2>1 DEF Accounted
    <3>2. pc \in {"start", "fetch"} => found = {} \/ Unfinished
      BY DEF Accounted, Unfinished, Control, ControlTypes
    <3>3. Left # {} => Unfinished
      BY DEF Left, Unfinished
    <3>4. pc \in {"start", "fetch"} \/ Left # {} \/ InHand
      BY <1>1, <2>2, <3>1 DEF Start, FetchesDone, NextAccount, WaitStopped, SpacingOver,
         ConfirmOver, CallBegins, Interrupted, Waited, InHand, report
    <3> QED
      BY <1>h, <3>2, <3>3, <3>4
  <2> QED
    BY <2>1, <2>2, EntriesOpen
<1>2. CASE Inventory
  <2>1. /\ pc = "inventory" /\ pc' \in {"fetch", "finish"} /\ outcome' = outcome
        /\ pc' = "finish" => found' = found /\ error' = "unavailable"
        /\ pc' = "fetch" => error' = error
    BY <1>2 DEF Inventory, Control, ControlTypes
  <2>2. found = {} /\ (\A a \in Account : outcome[a] = "none") /\ error # "interrupted"
    BY <2>1 DEF Accounted, Control, Queries, Deferred
  <2>3. pc' = "finish" => ~Unfinished'
    BY <2>1, <2>2 DEF Unfinished
  <2> QED
    BY <2>1, <2>2, <2>3 DEF Accounted, Deferred
<1>3. CASE CheckAccount \/ Refreshed \/ Judge \/ Confirmed \/ CallRefused \/ CallEnds
  <2>1. /\ found' = found /\ InHand
        /\ pc \notin Deferred /\ pc' \notin Deferred \ {"finish"}
        /\ pc' \notin {"start", "inventory", "fetch"}
        /\ pc' = "finish" => error' = "interrupted"
        /\ pc' # "finish" => UNCHANGED error
    BY <1>3 DEF CheckAccount, Refreshed, Judge, Confirmed, CallRefused, CallEnds,
       Counted, Interrupted, report, InHand, Deferred
  <2>2. \/ UNCHANGED outcome
        \/ pc' # "finish"
           /\ \E result \in {"skipped", "failed", "succeeded"} : outcome' = [outcome EXCEPT ![acct] = result]
        \/ pc' = "finish" /\ outcome' = [outcome EXCEPT ![acct] = "cut"]
    BY <1>3 DEF CheckAccount, Refreshed, Judge, Confirmed, CallRefused, CallEnds,
       Counted, Interrupted
  <2> QED
    BY <1>h, <2>1, <2>2, EntriesOpen
<1>4. CASE Finish
  <2>1. /\ pc = "finish" /\ pc' \in {"requeue", "notify"} /\ UNCHANGED <<found, outcome>>
        /\ error' = Reported /\ putBack' = (error' = "interrupted" /\ MayPutBack)
        /\ success' = (error' = "" /\ found # {}
                       /\ \A a \in found : outcome[a] \in {"succeeded", "skipped"})
    BY <1>4 DEF Finish
  <2>2. error' = "interrupted" <=> error = "interrupted"
    BY <2>1 DEF Reported
  <2>3. (Unfinished' <=> Unfinished)
        /\ (CutShort' <=> Unfinished \/ (found = {} /\ error' = "interrupted"))
    BY <2>1 DEF Unfinished, CutShort
  <2>4. CutShort' /\ trigger # "manual" => putBack'
    BY <2>1, <2>2, <2>3 DEF Accounted, MayPutBack
  <2>5. putBack' => found = {} \/ Unfinished
    BY <2>1, <2>2 DEF Accounted
  <2>6. success' => error' = "" /\ found # {} /\ \A a \in found : outcome[a] \in {"succeeded", "skipped"}
    BY <2>1, Zenon
  <2>7. success' => ~putBack'
    <3>1. error' = "" => error' # "interrupted"
      OBVIOUS
    <3> QED
      BY <2>1, <2>6, <3>1, Zenon
  <2>8. found' = found /\ outcome' = outcome /\ pc' \in {"requeue", "notify"}
    BY <2>1
  <2> QED
    BY <1>t, <2>3, <2>4, <2>5, <2>6, <2>7, <2>8 DEF Accounted, Deferred
<1>5. CASE SaveRequeue \/ RecordNotifications
  <2>1. /\ pc \in {"requeue", "notify"} /\ pc' \in {"notify", "append"}
        /\ UNCHANGED <<found, outcome, error, success, putBack>>
    BY <1>5 DEF SaveRequeue, RecordNotifications, report
  <2> QED
    BY <1>t, <2>1 DEF Accounted, Unfinished, CutShort, Deferred
<1>6. CASE AppendRun
  <2>1. /\ pc = "append" /\ pc' = "done" /\ UNCHANGED <<found, outcome, putBack>>
        /\ \/ dirty' = FALSE /\ success' = success /\ error' = error
           \/ success' = FALSE /\ error' = "state_write_failed"
    BY <1>6 DEF AppendRun, Written, AppendFailed
  <2>2. CutShort' => CutShort
    BY <2>1 DEF CutShort
  <2> QED
    BY <1>t, <2>1, <2>2 DEF Accounted, Unfinished, Deferred
<1>7. CASE FirstQueries \/ FetchUsage \/ Tick \/ UserOpens \/ Stop \/ OtherWrite \/ UNCHANGED vars
  <2>1. UNCHANGED <<pc, found, outcome, error, success, putBack>>
    BY <1>7 DEF FirstQueries, FetchUsage, Tick, UserOpens, Stop, OtherWrite, vars, report
  <2>2. pc = "done" => UNCHANGED dirty
    BY <1>7 DEF FirstQueries, FetchUsage, Tick, UserOpens, Stop, OtherWrite, vars, writes
  <2> QED
    BY <1>t, <2>1, <2>2 DEF Accounted, Unfinished, CutShort
<1> QED
  BY <1>1, <1>2, <1>3, <1>4, <1>5, <1>6, <1>7 DEF Next, Work, Step

LEMMA AccountedCorrect == Spec => []Accounted
<1>1. (Control /\ (DataTypes /\ ReportTypes)) /\ Accounted /\ [Next]_vars => Accounted'
  BY AccountedStep
<1> QED
  BY <1>1, InitAccounted, ControlCorrect, TypesCorrect, PTL DEF Spec

(* A round of the scheduler cut short has its claim open again, in the     *)
(* state file too unless it reports a failed write, and a round that came  *)
(* to its end is not put back (the deferred part of executeRun,            *)
(* requeueInterrupted).                                                    *)
THEOREM PutBackIfCutShort == Spec => []CutShortIsPutBack
<1>1. Accounted => CutShortIsPutBack
  BY DEF Accounted, Unfinished, CutShort, CutShortIsPutBack, Deferred
<1> QED
  BY <1>1, AccountedCorrect, PTL

(* A round that reports success is complete and in the state file          *)
(* (the deferred part of executeRun, appendRun).                           *)
THEOREM HonestSuccess == Spec => []SuccessIsHonest
<1>1. Accounted => SuccessIsHonest
  BY DEF Accounted, SuccessIsHonest, Deferred
<1> QED
  BY <1>1, AccountedCorrect, PTL
=============================================================================
