--------------------------- MODULE WarmingProofs ----------------------------
(***************************************************************************)
(* Proofs about Warming for every set of accounts, limit, window,          *)
(* cool-down, retry count and number of models, and for every bound on the *)
(* clock and on the reservations.                                          *)
(***************************************************************************)
EXTENDS Warming, FiniteSetTheorems, TLAPS

-----------------------------------------------------------------------------
(* The inductive invariant.                                                *)

(* Memory and file are finite sets of attempts, memory respects the limit  *)
(* and remembers at least what the file holds: its live attempts and its   *)
(* last prewarm.                                                           *)
Covered(a) ==
  /\ IsFiniteSet(mem[a].attempts)
  /\ IsFiniteSet(disk[a].attempts)
  /\ Live(disk[a].attempts) \subseteq mem[a].attempts
  /\ disk[a].last <= mem[a].last
  /\ mem[a].last <= now
  /\ Cardinality(Live(mem[a].attempts)) <= Limit

MemoryCoversDisk == \A a \in Account : Covered(a)

(* The reservation in hand is where the step of the round says it is. *)
EntryInHand ==
  /\ pc \in {"write", "paid"} =>
       /\ entry \in mem[acct].attempts
       /\ entry.at <= mem[acct].last
       /\ entry \notin called[acct]
       /\ entry.n < serial
  /\ pc = "paid" =>
       /\ entry \in disk[acct].attempts
       /\ entry.at <= disk[acct].last

(* Every call is remembered by the file: its reservation while it is live, *)
(* and its time, for the cool-down, for ever.                              *)
Remembered(a) ==
  /\ Live(called[a]) \subseteq disk[a].attempts
  /\ \A c \in called[a] : c.at <= disk[a].last /\ c.n < serial

CallsOnDisk == \A a \in Account : Remembered(a)

(* The prewarm in progress began a cool-down after every older call. *)
InProgress == {"reserve", "write", "paid", "sent", "backoff", "awake"}
Spacing ==
  /\ pc \in InProgress =>
       \A c \in called[acct] : c.first # entry.first => c.at + Cooldown <= now
  /\ pc \in {"write", "paid"} =>
       \A c \in called[acct] :
         c.first # entry.first => c.at + Cooldown <= entry.at

IInv == TypeOK /\ MemoryCoversDisk /\ EntryInHand /\ CallsOnDisk
        /\ Spacing /\ PrewarmsAreSpaced

-----------------------------------------------------------------------------
(* Forgetting the old attempts and adding one to fewer than Limit live     *)
(* ones leaves at most Limit live ones.                                    *)
LEMMA ReserveKeepsLimit ==
  ASSUME NEW S, IsFiniteSet(S), NEW e, Limit \in Nat,
         Cardinality(Live(S)) < Limit
  PROVE  /\ IsFiniteSet(Live(S) \cup {e})
         /\ Cardinality(Live(Live(S) \cup {e})) <= Limit
<1> DEFINE T == Live(S) \cup {e}
<1>1. Live(S) \subseteq S
  BY DEF Live
<1>2. IsFiniteSet(Live(S)) /\ Cardinality(Live(S)) \in Nat
  BY <1>1, FS_Subset, FS_CardinalityType
<1>3. IsFiniteSet(T)
  BY <1>2, FS_AddElement
<1>4. Cardinality(T) \in Nat /\ Cardinality(T) <= Limit
  BY <1>2, FS_AddElement, FS_CardinalityType
<1>5. Live(T) \subseteq T
  BY DEF Live
<1>6. Cardinality(Live(T)) <= Cardinality(T) /\ Cardinality(Live(T)) \in Nat
  BY <1>3, <1>5, FS_Subset, FS_CardinalityType
<1> QED
  BY <1>3, <1>4, <1>6

(* Attempts only leave the window as the clock advances. *)
LEMMA TickKeepsLimit ==
  ASSUME NEW S, IsFiniteSet(S), \A e \in S : e.at \in Nat,
         now \in Nat, Window \in Nat, Limit \in Nat, now' = now + 1,
         Cardinality(Live(S)) <= Limit
  PROVE  Cardinality({e \in S : e.at + Window > now'}) <= Limit
<1> DEFINE L == {e \in S : e.at + Window > now'}
<1>1. L \subseteq Live(S)
  BY DEF Live
<1>2. IsFiniteSet(Live(S)) /\ Cardinality(Live(S)) \in Nat
  BY FS_Subset, FS_CardinalityType DEF Live
<1>3. Cardinality(L) <= Cardinality(Live(S)) /\ Cardinality(L) \in Nat
  BY <1>1, <1>2, FS_Subset, FS_CardinalityType
<1> QED
  BY <1>2, <1>3

(* The initial states satisfy the inductive invariant. *)
LEMMA InitIInv == Init => IInv
<1> SUFFICES ASSUME Init PROVE IInv
  OBVIOUS
<1> USE WarmingAssumption
<1>1. TypeOK
  BY DEF Init, TypeOK, AccountWindow, Reservation, NoEntry, Never, PcValues
<1>2. IsFiniteSet({}) /\ Cardinality({}) = 0
  BY FS_EmptySet
<1>3. Live({}) = {}
  BY DEF Live
<1>4. ASSUME NEW a \in Account
      PROVE  Covered(a)
  <2>1. mem[a].attempts = {} /\ disk[a].attempts = {}
    BY <1>4 DEF Init
  <2>2. disk[a].last <= mem[a].last /\ mem[a].last <= now
    BY <1>4 DEF Init, Never
  <2> QED
    BY <1>2, <1>3, <2>1, <2>2 DEF Covered
<1>5. CallsOnDisk
  BY <1>3 DEF Init, CallsOnDisk, Remembered
<1>6. EntryInHand /\ Spacing /\ PrewarmsAreSpaced
  BY DEF Init, EntryInHand, Spacing, InProgress, PrewarmsAreSpaced
<1> QED
  BY <1>1, <1>4, <1>5, <1>6 DEF IInv, MemoryCoversDisk

-----------------------------------------------------------------------------
(* What every write of the file preserves: it makes the file equal to the  *)
(* memory, which knows at least as much, or leaves it alone.               *)
LEMMA WriteStep ==
  ASSUME IInv, UNCHANGED <<now, mem, called, serial>>, disk' \in {disk, mem}
  PROVE  MemoryCoversDisk' /\ CallsOnDisk' /\ PrewarmsAreSpaced'
<1> USE WarmingAssumption
<1>2. ASSUME NEW a \in Account
      PROVE  Covered(a)' /\ Remembered(a)'
  <2>1. Covered(a) /\ Remembered(a)
    BY <1>2 DEF IInv, MemoryCoversDisk, CallsOnDisk
  <2>2. /\ mem[a].last \in Int /\ disk[a].last \in Int
        /\ \A c \in called[a] : c.at \in Nat /\ c.n \in Nat
    BY <1>2 DEF IInv, TypeOK, AccountWindow, Reservation, Never
  <2>3. CASE disk' = disk
    BY <2>1, <2>3 DEF Covered, Remembered, Live
  <2>4. CASE disk' = mem
    <3>1. Live(mem[a].attempts) \subseteq mem[a].attempts
      BY DEF Live
    <3>2. Covered(a)'
      BY <2>1, <2>2, <2>4, <3>1 DEF Covered, Live
    <3>3. Live(called[a]) \subseteq mem[a].attempts
      BY <2>1 DEF Covered, Remembered, Live
    <3>4. \A c \in called[a] : c.at <= mem[a].last
      BY <2>1, <2>2 DEF Covered, Remembered
    <3> QED
      BY <2>1, <2>4, <3>2, <3>3, <3>4 DEF Remembered, Live
  <2> QED
    BY <2>3, <2>4
<1>3. PrewarmsAreSpaced'
  BY DEF IInv, PrewarmsAreSpaced
<1> QED
  BY <1>2, <1>3 DEF MemoryCoversDisk, CallsOnDisk

-----------------------------------------------------------------------------
(* Every step keeps the types.                                             *)
LEMMA TypeStep ==
  ASSUME TypeOK, [Next]_vars
  PROVE  TypeOK'
<1> USE WarmingAssumption DEF TypeOK, PcValues, AccountWindow, acctVars,
        tryVars, ghosts, WriteOK, WriteTried, PrewarmOver
<1> NoEntry \in Reservation
  BY DEF NoEntry, Reservation
<1>1. ASSUME NEW T \in SUBSET Account, StartRound(T) PROVE TypeOK'
  BY <1>1 DEF StartRound
<1>2. ASSUME NEW a \in Account, SkipAccount(a) PROVE TypeOK'
  BY <1>2 DEF SkipAccount
<1>3. ASSUME NEW a \in Account, Candidate(a) PROVE TypeOK'
  BY <1>3 DEF Candidate
<1>4. CASE Confirmed
  BY <1>4 DEF Confirmed, NoEntry, Reservation
<1>5. CASE NotConfirmed
  BY <1>5 DEF NotConfirmed
<1>6. CASE Reserve
  <2>1. entry' \in Reservation /\ entry'.at \in Nat
    BY <1>6 DEF Reserve, Reservation
  <2>2. RecentAttempts(mem[acct].attempts) \subseteq Reservation
    BY <1>6 DEF Reserve, RecentAttempts, Live
  <2>3. Reserved(mem[acct], entry') \in AccountWindow
    BY <2>1, <2>2 DEF Reserved
  <2> QED
    BY <1>6, <2>1, <2>3 DEF Reserve
<1>7. CASE RefuseReservation
  BY <1>7 DEF RefuseReservation
<1>8. CASE ReservationWritten
  BY <1>8 DEF ReservationWritten
<1>9. CASE ReservationWriteFailed
  BY <1>9 DEF ReservationWriteFailed
<1>10. CASE Send
  BY <1>10 DEF Send
<1>11. CASE StopAfterReservation
  BY <1>11 DEF StopAfterReservation
<1>12. ASSUME NEW answer \in Answers, Answer(answer) PROVE TypeOK'
  <2>1. entry.first \in Nat
    BY DEF Reservation
  <2>2. settled' \in SUBSET Nat
    BY <1>12, <2>1 DEF Answer
  <2>3. /\ pc' \in {"backoff", "reserve", "record"}
        /\ model' \in Nat /\ attempt' \in Nat
    BY <1>12 DEF Answer
  <2>4. pc = "sent" /\ acct' = acct
    BY <1>12 DEF Answer
  <2> QED
    BY <1>12, <2>2, <2>3, <2>4 DEF Answer
<1>13. CASE Backoff \/ TimerFires
  <2>1. CASE Backoff
    BY <2>1 DEF Backoff
  <2>2. CASE TimerFires
    BY <2>2 DEF TimerFires
  <2> QED
    BY <1>13, <2>1, <2>2
<1>14. CASE Record
  <2>1. acct \in Account
    BY <1>14 DEF Record
  <2>2. mem' \in [Account -> AccountWindow]
    BY <1>14, <2>1 DEF Record
  <2> QED
    BY <1>14, <2>2 DEF Record
<1>15. CASE FinishRound
  BY <1>15 DEF FinishRound
<1>16. CASE OtherWrite
  BY <1>16 DEF OtherWrite
<1>17. CASE Stop
  BY <1>17 DEF Stop
<1>18. CASE Reload
  BY <1>18 DEF Reload
<1>19. CASE CrashAndRestart
  BY <1>19 DEF CrashAndRestart
<1>20. CASE Tick
  BY <1>20 DEF Tick
<1>21. CASE UNCHANGED vars
  BY <1>21 DEF vars
<1> QED
  BY <1>1, <1>2, <1>3, <1>4, <1>5, <1>6, <1>7, <1>8, <1>9, <1>10, <1>11,
     <1>12, <1>13, <1>14, <1>15, <1>16, <1>17, <1>18, <1>19, <1>20, <1>21
     DEF Next, Round, Prewarm

-----------------------------------------------------------------------------
(* A prewarm starts only a cool-down after every call of its account.      *)
LEMMA ConfirmedStep ==
  ASSUME IInv, Confirmed
  PROVE  EntryInHand' /\ Spacing'
<1> USE WarmingAssumption
<1>1. acct \in Account /\ pc = "confirm" /\ pc' = "reserve" /\ MayWarm(acct)
  BY DEF Confirmed, IInv, TypeOK
<1>2. now' = now /\ acct' = acct /\ called' = called
  BY DEF Confirmed, acctVars, ghosts
<1>3. EntryInHand'
  BY <1>1 DEF EntryInHand
<1>4. ASSUME NEW c \in called[acct] PROVE c.at + Cooldown <= now
  <2>1. c.at <= disk[acct].last /\ disk[acct].last <= mem[acct].last
    BY <1>1, <1>4 DEF IInv, CallsOnDisk, Remembered, MemoryCoversDisk, Covered
  <2>2. c.at \in Nat /\ disk[acct].last \in Int /\ mem[acct].last \in Int
        /\ now \in Nat
    BY <1>1, <1>4 DEF IInv, TypeOK, AccountWindow, Reservation, Never
  <2>3. mem[acct].last # Never
    BY <2>1, <2>2 DEF Never
  <2> QED
    BY <1>1, <2>1, <2>2, <2>3 DEF MayWarm
<1>5. Spacing'
  BY <1>1, <1>2, <1>4 DEF Spacing
<1> QED
  BY <1>3, <1>5

(* The reservation in memory. *)
LEMMA ReserveStep ==
  ASSUME IInv, Reserve
  PROVE  MemoryCoversDisk' /\ EntryInHand' /\ CallsOnDisk' /\ Spacing'
         /\ PrewarmsAreSpaced'
<1> USE WarmingAssumption
<1>1. /\ acct \in Account /\ acct' = acct /\ now' = now /\ disk' = disk
      /\ called' = called /\ serial' = serial + 1
      /\ pc = "reserve" /\ pc' = "write"
      /\ entry'.n = serial /\ entry'.at = now /\ entry'.first = entry.first
      /\ mem' = [mem EXCEPT ![acct] = Reserved(mem[acct], entry')]
      /\ HasRoom(acct)
  BY DEF Reserve, IInv, TypeOK, acctVars, ghosts, Reservation
<1>2. /\ mem'[acct].attempts = Live(mem[acct].attempts) \cup {entry'}
      /\ mem'[acct].last = now
  BY <1>1 DEF Reserved, RecentAttempts, IInv, TypeOK
<1>3. now \in Nat /\ serial \in Nat /\ \A c \in called[acct] : c.n \in Nat
  BY <1>1 DEF IInv, TypeOK, Reservation
<1>4. ASSUME NEW a \in Account
      PROVE  Covered(a)' /\ Remembered(a)'
  <2>1. Covered(a) /\ Remembered(a)
    BY <1>4 DEF IInv, MemoryCoversDisk, CallsOnDisk
  <2>2. Remembered(a)'
    <3>1. \A c \in called[a] : c.n \in Nat
      BY <1>4 DEF IInv, TypeOK, Reservation
    <3> QED
      BY <1>1, <1>3, <2>1, <3>1 DEF Remembered, Live
  <2>3. CASE a # acct
    <3>1. mem'[a] = mem[a]
      BY <1>1, <1>4, <2>3 DEF IInv, TypeOK
    <3> QED
      BY <1>1, <2>1, <3>1, <2>2 DEF Covered, Live
  <2>4. CASE a = acct
    <3>1. /\ IsFiniteSet(mem'[a].attempts)
          /\ Cardinality(Live(mem'[a].attempts)) <= Limit
      <4> DEFINE S == mem[acct].attempts
      <4>1. IsFiniteSet(S)
        BY <2>1, <2>4 DEF Covered
      <4>2. Cardinality(Live(S)) < Limit
        BY <1>1 DEF HasRoom, RecentAttempts
      <4>3. /\ IsFiniteSet(Live(S) \cup {entry'})
            /\ Cardinality(Live(Live(S) \cup {entry'})) <= Limit
        BY <4>1, <4>2, ReserveKeepsLimit
      <4> QED
        BY <4>3, <1>2, <2>4
    <3>2. Live(disk[a].attempts) \subseteq mem'[a].attempts
      BY <1>2, <2>1, <2>4 DEF Covered, Live
    <3>3. disk[a].last <= now
      BY <1>4, <2>1, <1>3 DEF Covered, IInv, TypeOK, AccountWindow, Never
    <3>4. (Cardinality(Live(mem[a].attempts)) <= Limit)'
      BY <1>1, <3>1 DEF Live
    <3>5. (Live(disk[a].attempts) \subseteq mem[a].attempts)'
      BY <1>1, <3>2 DEF Live
    <3>6. (disk[a].last <= mem[a].last /\ mem[a].last <= now)'
      BY <1>1, <1>2, <1>3, <2>4, <3>3
    <3>7. IsFiniteSet(mem[a].attempts)' /\ IsFiniteSet(disk[a].attempts)'
      BY <1>1, <2>1, <3>1 DEF Covered
    <3> QED
      BY <2>2, <3>4, <3>5, <3>6, <3>7 DEF Covered
  <2> QED
    BY <2>2, <2>3, <2>4
<1>5. EntryInHand'
  <2>1. entry' \notin called[acct]
    BY <1>1, <1>3 DEF IInv, CallsOnDisk, Remembered
  <2> QED
    BY <1>1, <1>2, <1>3, <2>1 DEF EntryInHand
<1>6. Spacing'
  BY <1>1 DEF IInv, Spacing, InProgress
<1>7. PrewarmsAreSpaced'
  BY <1>1 DEF IInv, PrewarmsAreSpaced
<1> QED
  BY <1>4, <1>5, <1>6, <1>7 DEF MemoryCoversDisk, CallsOnDisk

(* The call leaves: the file already knows it. *)
LEMMA SendStep ==
  ASSUME IInv, Send
  PROVE  MemoryCoversDisk' /\ EntryInHand' /\ CallsOnDisk' /\ Spacing'
         /\ PrewarmsAreSpaced'
<1> USE WarmingAssumption
<1>1. /\ acct \in Account /\ acct' = acct /\ now' = now /\ disk' = disk
      /\ mem' = mem /\ serial' = serial /\ entry' = entry
      /\ pc = "paid" /\ pc' = "sent"
      /\ called' = [called EXCEPT ![acct] = called[acct] \cup {entry}]
  BY DEF Send, IInv, TypeOK, acctVars, tryVars
<1>2. called'[acct] = called[acct] \cup {entry}
      /\ \A a \in Account \ {acct} : called'[a] = called[a]
  BY <1>1 DEF IInv, TypeOK
<1>3. /\ entry \in disk[acct].attempts /\ entry.at <= disk[acct].last
      /\ entry.n < serial
  BY <1>1 DEF IInv, EntryInHand
<1>4. MemoryCoversDisk'
  BY <1>1 DEF IInv, MemoryCoversDisk, Covered, Live
<1>5. CallsOnDisk'
  <2>1. ASSUME NEW a \in Account PROVE Remembered(a)'
    <3>1. Remembered(a)
      BY <2>1 DEF IInv, CallsOnDisk
    <3>2. CASE a = acct
      BY <1>1, <1>2, <1>3, <3>1, <3>2 DEF Remembered, Live
    <3>3. CASE a # acct
      BY <1>1, <1>2, <2>1, <3>1, <3>3 DEF Remembered, Live
    <3> QED
      BY <3>2, <3>3
  <2> QED
    BY <2>1 DEF CallsOnDisk
<1>6. \A c \in called[acct] :
        c.first # entry.first => c.at + Cooldown <= entry.at
  BY <1>1 DEF IInv, Spacing
<1>7. PrewarmsAreSpaced'
  <2>1. ASSUME NEW a \in Account, NEW c \in called'[a], NEW d \in called'[a],
               c.first # d.first
        PROVE  c.at + Cooldown <= d.at \/ d.at + Cooldown <= c.at
    <3>1. CASE c \in called[a] /\ d \in called[a]
      BY <2>1, <3>1 DEF IInv, PrewarmsAreSpaced
    <3>2. CASE ~(c \in called[a] /\ d \in called[a])
      BY <1>2, <1>6, <2>1, <3>2
    <3> QED
      BY <3>1, <3>2
  <2> QED
    BY <2>1, <1>1 DEF PrewarmsAreSpaced
<1>8. EntryInHand'
  BY <1>1 DEF EntryInHand
<1>9. Spacing'
  BY <1>1, <1>2 DEF IInv, Spacing, InProgress
<1> QED
  BY <1>4, <1>5, <1>7, <1>8, <1>9

(* recordAccountResult moves the last prewarm to now, in memory, then      *)
(* writes.                                                                 *)
LEMMA RecordStep ==
  ASSUME IInv, Record
  PROVE  MemoryCoversDisk' /\ EntryInHand' /\ CallsOnDisk' /\ Spacing'
         /\ PrewarmsAreSpaced'
<1> USE WarmingAssumption
<1>1. /\ now' = now /\ called' = called /\ serial' = serial
      /\ pc' = "account" /\ disk' \in {disk, mem'}
  BY DEF Record, ghosts, WriteTried
<1>2. ASSUME NEW a \in Account
      PROVE  /\ mem'[a].attempts = mem[a].attempts
             /\ mem'[a].last \in {mem[a].last, now}
  BY <1>2 DEF Record, IInv, TypeOK, AccountWindow
<1>3. ASSUME NEW a \in Account PROVE Covered(a)' /\ Remembered(a)'
  <2>1. Covered(a) /\ Remembered(a)
    BY <1>3 DEF IInv, MemoryCoversDisk, CallsOnDisk
  <2>2. /\ mem[a].last \in Int /\ disk[a].last \in Int /\ now \in Nat
        /\ \A c \in called[a] : c.at \in Nat
    BY <1>3 DEF IInv, TypeOK, AccountWindow, Reservation, Never
  <2>3. mem[a].last <= mem'[a].last /\ mem'[a].last <= now /\ mem'[a].last \in Int
    BY <1>2, <1>3, <2>1, <2>2 DEF Covered
  <2>4. CASE disk' = disk
    <3>1. Remembered(a)'
      BY <1>1, <2>1, <2>4 DEF Remembered, Live
    <3>2. Covered(a)'
      <4>1. /\ Live(mem[a].attempts)' = Live(mem[a].attempts)
            /\ Live(disk[a].attempts)' = Live(disk[a].attempts)
        BY <1>1, <1>2, <1>3, <2>4 DEF Live
      <4>2. disk'[a].last <= mem'[a].last
        BY <2>1, <2>2, <2>3, <2>4 DEF Covered
      <4> QED
        BY <1>1, <1>2, <1>3, <2>1, <2>3, <2>4, <4>1, <4>2 DEF Covered
    <3> QED
      BY <3>1, <3>2
  <2>5. CASE disk' = mem'
    <3>1. Live(called[a]) \subseteq mem[a].attempts
      BY <2>1 DEF Covered, Remembered, Live
    <3>2. \A c \in called[a] : c.at <= mem'[a].last
      BY <2>1, <2>2, <2>3 DEF Covered, Remembered
    <3>3. Remembered(a)'
      BY <1>1, <1>2, <1>3, <2>1, <2>5, <3>1, <3>2 DEF Remembered, Live
    <3>4. Covered(a)'
      BY <1>1, <1>2, <1>3, <2>1, <2>2, <2>3, <2>5 DEF Covered, Live
    <3> QED
      BY <3>3, <3>4
  <2> QED
    BY <1>1, <2>4, <2>5
<1>4. EntryInHand' /\ Spacing'
  BY <1>1 DEF EntryInHand, Spacing, InProgress
<1>5. PrewarmsAreSpaced'
  BY <1>1 DEF IInv, PrewarmsAreSpaced
<1> QED
  BY <1>3, <1>4, <1>5 DEF MemoryCoversDisk, CallsOnDisk

(* A reload or a restart makes the memory equal to the file.               *)
LEMMA LoadStep ==
  ASSUME IInv, mem' = disk, pc' = "idle",
         UNCHANGED <<now, disk, called, serial>>
  PROVE  MemoryCoversDisk' /\ EntryInHand' /\ CallsOnDisk' /\ Spacing'
         /\ PrewarmsAreSpaced'
<1> USE WarmingAssumption
<1>1. ASSUME NEW a \in Account PROVE Covered(a)' /\ Remembered(a)'
  <2>1. Covered(a) /\ Remembered(a)
    BY <1>1 DEF IInv, MemoryCoversDisk, CallsOnDisk
  <2>2. mem[a].last \in Int /\ disk[a].last \in Int /\ now \in Nat
    BY <1>1 DEF IInv, TypeOK, AccountWindow, Never
  <2>3. Cardinality(Live(disk[a].attempts)) <= Limit
    <3>1. Live(disk[a].attempts) \subseteq Live(mem[a].attempts)
      BY <2>1 DEF Covered, Live
    <3>2. IsFiniteSet(Live(mem[a].attempts))
      BY <2>1, FS_Subset DEF Covered, Live
    <3>3. /\ Cardinality(Live(disk[a].attempts)) \in Nat
          /\ Cardinality(Live(mem[a].attempts)) \in Nat
          /\ Cardinality(Live(disk[a].attempts))
               <= Cardinality(Live(mem[a].attempts))
      BY <3>1, <3>2, FS_Subset, FS_CardinalityType
    <3> QED
      BY <2>1, <3>3 DEF Covered
  <2>4. Covered(a)'
    BY <2>1, <2>2, <2>3 DEF Covered, Live
  <2>5. Remembered(a)'
    BY <2>1 DEF Remembered, Live
  <2> QED
    BY <2>4, <2>5
<1>2. EntryInHand' /\ Spacing' /\ PrewarmsAreSpaced'
  BY DEF IInv, EntryInHand, Spacing, InProgress, PrewarmsAreSpaced
<1> QED
  BY <1>1, <1>2 DEF MemoryCoversDisk, CallsOnDisk

(* The clock advances.                                                     *)
LEMMA TickStep ==
  ASSUME IInv, Tick
  PROVE  MemoryCoversDisk' /\ EntryInHand' /\ CallsOnDisk' /\ Spacing'
         /\ PrewarmsAreSpaced'
<1> USE WarmingAssumption
<1>1. /\ now' = now + 1 /\ now \in Nat
      /\ UNCHANGED <<mem, disk, pc, acct, entry, called, serial>>
  BY DEF Tick, acctVars, tryVars, ghosts, IInv, TypeOK
<1>2. ASSUME NEW a \in Account PROVE Covered(a)' /\ Remembered(a)'
  <2>1. Covered(a) /\ Remembered(a)
    BY <1>2 DEF IInv, MemoryCoversDisk, CallsOnDisk
  <2>2. /\ mem[a].last \in Int /\ disk[a].last \in Int
        /\ \A c \in called[a] : c.at \in Nat
        /\ \A c \in mem[a].attempts \cup disk[a].attempts : c.at \in Nat
    BY <1>2 DEF IInv, TypeOK, AccountWindow, Reservation, Never
  <2>3. Cardinality({e \in mem[a].attempts : e.at + Window > now'}) <= Limit
    BY <1>1, <2>1, <2>2, TickKeepsLimit DEF Covered
  <2>4. (Cardinality(Live(mem[a].attempts)) <= Limit)'
    BY <1>1, <2>3 DEF Live
  <2>5. (Live(disk[a].attempts) \subseteq mem[a].attempts)'
    BY <1>1, <2>1, <2>2 DEF Covered, Live
  <2>6. Covered(a)'
    BY <1>1, <2>1, <2>2, <2>4, <2>5 DEF Covered
  <2>7. Remembered(a)'
    BY <1>1, <2>1, <2>2 DEF Remembered, Live
  <2> QED
    BY <2>6, <2>7
<1>3. EntryInHand'
  BY <1>1 DEF IInv, EntryInHand
<1>4. Spacing'
  <2>1. ASSUME pc \in InProgress, NEW c \in called[acct]
        PROVE  c.at \in Nat
    BY <2>1 DEF IInv, TypeOK, InProgress, Reservation
  <2> QED
    BY <1>1, <2>1 DEF IInv, Spacing
<1>5. PrewarmsAreSpaced'
  BY <1>1 DEF IInv, PrewarmsAreSpaced
<1> QED
  BY <1>2, <1>3, <1>4, <1>5 DEF MemoryCoversDisk, CallsOnDisk

-----------------------------------------------------------------------------
(* Every step keeps the inductive invariant.                               *)
LEMMA IInvStep == IInv /\ [Next]_vars => IInv'
<1> SUFFICES ASSUME IInv, [Next]_vars PROVE IInv'
  OBVIOUS
<1> USE DEF acctVars, tryVars, ghosts, WriteOK, WriteTried, PrewarmOver
<1>1. TypeOK'
  BY TypeStep DEF IInv
<1> DEFINE Rest == /\ MemoryCoversDisk' /\ EntryInHand' /\ CallsOnDisk'
                   /\ Spacing' /\ PrewarmsAreSpaced'
           Quiet == /\ UNCHANGED <<now, mem, called, serial>>
                    /\ disk' \in {disk, mem}
<1> SUFFICES Rest
  BY <1>1 DEF IInv
(* A step after which no reservation is in hand and no prewarm in progress. *)
<1>2. ASSUME Quiet, pc' \in {"idle", "account", "confirm", "record"}
      PROVE  Rest
  <2>1. EntryInHand' /\ Spacing'
    BY <1>2 DEF EntryInHand, Spacing, InProgress
  <2> QED
    BY <1>2, <2>1, WriteStep
(* A step that changes neither the prewarm in progress nor, before the     *)
(* call, the file.                                                         *)
<1>3. ASSUME Quiet, acct' = acct, entry' = entry, pc' \in {pc, "reserve", "backoff", "awake"},
             pc \in InProgress \/ pc' = pc
      PROVE  Rest
  <2>1. EntryInHand'
    <3>1. CASE pc = "paid"
      BY <1>3, <3>1 DEF IInv, EntryInHand
    <3>2. CASE pc # "paid"
      BY <1>3, <3>2 DEF IInv, EntryInHand
    <3> QED
      BY <3>1, <3>2
  <2>2. Spacing'
    BY <1>3 DEF IInv, Spacing, InProgress
  <2> QED
    BY <1>3, <2>1, <2>2, WriteStep
<1>4. ASSUME NEW T \in SUBSET Account, StartRound(T) PROVE Rest
  BY <1>2, <1>4 DEF StartRound
<1>5. ASSUME NEW a \in Account, SkipAccount(a) PROVE Rest
  BY <1>2, <1>5 DEF SkipAccount
<1>6. ASSUME NEW a \in Account, Candidate(a) PROVE Rest
  BY <1>2, <1>6 DEF Candidate
<1>7. CASE Confirmed
  <2>1. Quiet
    BY <1>7 DEF Confirmed
  <2> QED
    BY <1>7, <2>1, ConfirmedStep, WriteStep
<1>8. CASE NotConfirmed
  BY <1>2, <1>8 DEF NotConfirmed
<1>9. CASE Reserve
  BY <1>9, ReserveStep
<1>10. CASE RefuseReservation
  BY <1>2, <1>10 DEF RefuseReservation
<1>11. CASE ReservationWritten
  <2>1. /\ Quiet /\ disk' = mem /\ acct' = acct /\ entry' = entry
        /\ pc = "write" /\ pc' = "paid"
    BY <1>11 DEF ReservationWritten
  <2>2. EntryInHand' /\ Spacing'
    BY <2>1 DEF IInv, EntryInHand, Spacing, InProgress
  <2> QED
    BY <2>1, <2>2, WriteStep
<1>12. CASE ReservationWriteFailed
  BY <1>2, <1>12 DEF ReservationWriteFailed
<1>13. CASE Send
  BY <1>13, SendStep
<1>14. CASE StopAfterReservation
  BY <1>2, <1>14 DEF StopAfterReservation
<1>15. ASSUME NEW answer \in Answers, Answer(answer) PROVE Rest
  BY <1>2, <1>3, <1>15 DEF Answer, InProgress
<1>16. CASE Backoff \/ TimerFires
  BY <1>2, <1>3, <1>16 DEF Backoff, TimerFires, InProgress
<1>17. CASE Record
  BY <1>17, RecordStep
<1>18. CASE FinishRound
  BY <1>2, <1>18 DEF FinishRound
<1>19. CASE OtherWrite
  BY <1>3, <1>19 DEF OtherWrite
<1>20. CASE Stop
  BY <1>3, <1>20 DEF Stop
<1>21. CASE Reload
  BY <1>21, LoadStep DEF Reload
<1>22. CASE CrashAndRestart
  BY <1>22, LoadStep DEF CrashAndRestart
<1>23. CASE Tick
  BY <1>23, TickStep
<1>24. CASE UNCHANGED vars
  BY <1>3, <1>24 DEF vars
<1> QED
  BY <1>4, <1>5, <1>6, <1>7, <1>8, <1>9, <1>10, <1>11, <1>12, <1>13, <1>14,
     <1>15, <1>16, <1>17, <1>18, <1>19, <1>20, <1>21, <1>22, <1>23, <1>24
     DEF Next, Round, Prewarm

(* IInv is invariant.                                                      *)
THEOREM IInvInvariant == Spec => []IInv
<1>1. Init => IInv
  BY InitIInv
<1>2. IInv /\ [Next]_vars => IInv'
  BY IInvStep
<1> QED
  BY <1>1, <1>2, PTL DEF Spec

-----------------------------------------------------------------------------
(* Every variable keeps its type.                                          *)
THEOREM TypeCorrect == Spec => []TypeOK
<1>1. IInv => TypeOK
  BY DEF IInv
<1> QED
  BY <1>1, IInvInvariant, PTL

(* Whatever crashes, is reloaded or fails to be written, the reservation   *)
(* of every call of the last window is in the state file.                  *)
THEOREM Prepaid == Spec => []CallsArePrepaid
<1>1. IInv => CallsArePrepaid
  BY DEF IInv, CallsOnDisk, Remembered, CallsArePrepaid
<1> QED
  BY <1>1, IInvInvariant, PTL

(* An account never has more than Limit calls in a window.                 *)
THEOREM LimitHolds == Spec => []RollingLimit
<1>1. IInv => RollingLimit
  <2> SUFFICES ASSUME IInv, NEW a \in Account
               PROVE  Cardinality(Live(called[a])) <= Limit
    BY DEF RollingLimit
  <2>1. Covered(a) /\ Remembered(a)
    BY DEF IInv, MemoryCoversDisk, CallsOnDisk
  <2>2. Live(called[a]) \subseteq Live(mem[a].attempts)
    BY <2>1 DEF Covered, Remembered, Live
  <2>3. IsFiniteSet(Live(mem[a].attempts))
    BY <2>1, FS_Subset DEF Covered, Live
  <2>4. /\ Cardinality(Live(called[a])) <= Cardinality(Live(mem[a].attempts))
        /\ Cardinality(Live(called[a])) \in Nat
        /\ Cardinality(Live(mem[a].attempts)) \in Nat
    BY <2>2, <2>3, FS_Subset, FS_CardinalityType
  <2> QED
    BY <2>1, <2>4, WarmingAssumption DEF Covered
<1> QED
  BY <1>1, IInvInvariant, PTL

(* Two prewarms of an account are a cool-down apart, across crashes.       *)
THEOREM SpacingHolds == Spec => []PrewarmsAreSpaced
<1>1. IInv => PrewarmsAreSpaced
  BY DEF IInv
<1> QED
  BY <1>1, IInvInvariant, PTL

-----------------------------------------------------------------------------
(* The refinement: the state file is the ledger of CallBudget.             *)

(* A step that only writes the file, with the memory or not, is a Commit.  *)
LEMMA WriteIsCommit ==
  ASSUME IInv, IInv', UNCHANGED <<now, called>>,
         \/ disk' = disk
         \/ disk' = mem' /\ \A a \in Account :
                              mem'[a].attempts = mem[a].attempts
  PROVE  Budget!Commit
<1> USE WarmingAssumption
<1> DEFINE led == [a \in Account |-> disk[a].attempts]
           Kept(a) == /\ Live(disk[a].attempts) \subseteq disk'[a].attempts
                      /\ IsFiniteSet(disk'[a].attempts)
                      /\ Cardinality(Live(disk'[a].attempts)) <= Limit
<1>1. ASSUME NEW a \in Account
      PROVE  Kept(a)
  <2>1. Covered(a) /\ Covered(a)'
    BY <1>1 DEF IInv, MemoryCoversDisk
  <2>2. Live(disk[a].attempts) \subseteq disk'[a].attempts
    <3>1. CASE disk' = disk
      BY <3>1 DEF Live
    <3>2. CASE disk' = mem' /\ mem'[a].attempts = mem[a].attempts
      BY <2>1, <3>2 DEF Covered
    <3> QED
      BY <1>1, <3>1, <3>2
  <2>3. IsFiniteSet(disk'[a].attempts)
    BY <2>1 DEF Covered
  <2>4. /\ Live(disk'[a].attempts) \subseteq Live(mem'[a].attempts)
        /\ IsFiniteSet(Live(mem'[a].attempts))
        /\ Live(mem[a].attempts)' = Live(mem'[a].attempts)
    <3>1. Live(disk'[a].attempts) \subseteq Live(mem'[a].attempts)
      BY <2>1 DEF Covered, Live
    <3>2. Live(mem'[a].attempts) \subseteq mem'[a].attempts
      BY DEF Live
    <3>3. IsFiniteSet(mem'[a].attempts)
      BY <2>1 DEF Covered
    <3>4. Live(mem[a].attempts)' = Live(mem'[a].attempts)
      BY DEF Live
    <3> QED
      BY <3>1, <3>2, <3>3, <3>4, FS_Subset
  <2>5. Cardinality(Live(mem'[a].attempts)) <= Limit
    BY <2>1, <2>4 DEF Covered
  <2>6. /\ Cardinality(Live(disk'[a].attempts)) \in Nat
        /\ Cardinality(Live(mem'[a].attempts)) \in Nat
        /\ Cardinality(Live(disk'[a].attempts))
             <= Cardinality(Live(mem'[a].attempts))
    BY <2>4, FS_Subset, FS_CardinalityType
  <2> QED
    BY <2>2, <2>3, <2>5, <2>6
<1>2. ASSUME NEW a \in Account
      PROVE  /\ Live(led[a]) \subseteq led'[a]
             /\ IsFiniteSet(led'[a])
             /\ Cardinality(Live(led'[a])) <= Limit
  <2>1. led[a] = disk[a].attempts /\ led'[a] = disk'[a].attempts
    BY <1>2
  <2> HIDE DEF led
  <2> QED
    BY <1>1, <1>2, <2>1
<1>3. ASSUME NEW a \in Account
      PROVE  /\ Budget!Live(led[a]) \subseteq led'[a]
             /\ IsFiniteSet(led'[a])
             /\ Cardinality(Budget!Live(led'[a])) <= Limit
  <2> HIDE DEF led
  <2>1. Budget!Live(led[a]) = Live(led[a]) /\ Budget!Live(led'[a]) = Live(led'[a])
    BY DEF Budget!Live, Live
  <2> QED
    BY <1>2, <1>3, <2>1
<1>4. /\ \A S : Budget!IsFiniteSet(S) <=> IsFiniteSet(S)
      /\ \A S : Budget!Cardinality(S) = Cardinality(S)
  BY DEF Budget!IsFiniteSet, Budget!Cardinality, IsFiniteSet, Cardinality
<1> QED
  BY <1>3, <1>4 DEF Budget!Commit

LEMMA BudgetStep ==
  ASSUME IInv, IInv', [Next]_vars
  PROVE  [Budget!Next]_(Budget!vars)
<1> USE DEF acctVars, tryVars, ghosts, WriteOK, WriteTried, PrewarmOver
<1>1. CASE Send
  <2>1. /\ acct \in Account /\ entry \in disk[acct].attempts
        /\ entry \notin called[acct]
    BY <1>1 DEF Send, IInv, TypeOK, EntryInHand
  <2>2. [a \in Account |-> disk[a].attempts][acct] = disk[acct].attempts
    BY <2>1
  <2>3. /\ called' = [called EXCEPT ![acct] = called[acct] \cup {entry}]
        /\ now' = now /\ disk' = disk
    BY <1>1 DEF Send
  <2>4. Budget!Call(acct)
    BY <2>1, <2>2, <2>3 DEF Budget!Call
  <2> QED
    BY <2>1, <2>4 DEF Budget!Next
<1>2. CASE Tick
  BY <1>2 DEF Tick, Budget!Next, Budget!Tick
<1>3. CASE Record
  <2>1. \A a \in Account : mem'[a].attempts = mem[a].attempts
    BY <1>3 DEF Record, IInv, TypeOK, AccountWindow
  <2>2. UNCHANGED <<now, called>> /\ disk' \in {disk, mem'}
    BY <1>3 DEF Record
  <2> QED
    BY <2>1, <2>2, WriteIsCommit DEF Budget!Next
<1>4. CASE \/ \E T \in SUBSET Account : StartRound(T)
           \/ RefuseReservation \/ Reserve \/ ReservationWriteFailed
           \/ StopAfterReservation \/ (\E answer \in Answers : Answer(answer))
           \/ Backoff \/ TimerFires \/ Stop \/ Reload \/ CrashAndRestart \/ UNCHANGED vars
  <2>1. UNCHANGED <<now, disk, called>>
    BY <1>4 DEF StartRound, RefuseReservation, Reserve,
                ReservationWriteFailed, StopAfterReservation, Answer, Backoff,
                TimerFires, Stop, Reload, CrashAndRestart, vars
  <2> QED
    BY <2>1 DEF Budget!vars
<1>5. CASE \/ \E a \in Account : SkipAccount(a) \/ Candidate(a)
           \/ Confirmed \/ NotConfirmed \/ ReservationWritten
           \/ FinishRound \/ OtherWrite
  <2>1. UNCHANGED <<now, mem, called>> /\ disk' \in {disk, mem}
    BY <1>5 DEF SkipAccount, Candidate, Confirmed, NotConfirmed,
                ReservationWritten, FinishRound, OtherWrite
  <2> QED
    BY <2>1, WriteIsCommit DEF Budget!Next
<1> QED
  BY <1>1, <1>2, <1>3, <1>4, <1>5 DEF Next, Round, Prewarm

(* Warming implements CallBudget.                                          *)
THEOREM Refinement == Spec => ImplementsBudget
<1>1. Init => Budget!Init
  <2> SUFFICES ASSUME Init PROVE Budget!Init
    OBVIOUS
  <2>1. \A a \in Account : disk[a].attempts = {}
    BY DEF Init
  <2> QED
    BY <2>1 DEF Init, Budget!Init
<1>2. IInv /\ IInv' /\ [Next]_vars => [Budget!Next]_(Budget!vars)
  BY BudgetStep
<1> QED
  BY <1>1, <1>2, IInvInvariant, PTL DEF Spec, ImplementsBudget, Budget!Spec

-----------------------------------------------------------------------------
(* The prewarms that got a last answer are older than the next serial      *)
(* number, and the prewarm in progress, which may be the newest one, is    *)
(* not among them.                                                         *)
PrewarmUnanswered ==
  /\ \A f \in settled : f < serial
  /\ pc \in InProgress => entry.first <= serial /\ entry.first \notin settled
  /\ pc \in InProgress \ {"reserve"} => entry.first < serial

LEMMA InitUnanswered == Init => PrewarmUnanswered
BY DEF Init, PrewarmUnanswered, InProgress

(* Only an answer settles a prewarm, and it is then over. *)
LEMMA UnansweredStep ==
  ASSUME TypeOK, PrewarmUnanswered, [Next]_vars
  PROVE  PrewarmUnanswered'
<1> USE DEF acctVars, tryVars, ghosts
<1>1. entry.first \in Nat /\ serial \in Nat /\ settled \in SUBSET Nat
  BY DEF TypeOK, Reservation
<1>2. CASE Confirmed
  <2>1. /\ entry'.first = serial /\ pc' = "reserve"
        /\ UNCHANGED <<serial, settled>>
    BY <1>2 DEF Confirmed, NoEntry
  <2> QED BY <1>1, <2>1 DEF PrewarmUnanswered, InProgress
<1>3. CASE Reserve
  <2>1. /\ entry'.first = entry.first /\ serial' = serial + 1
        /\ pc = "reserve" /\ pc' = "write" /\ settled' = settled
    BY <1>3 DEF Reserve, TypeOK, Reservation
  <2> QED BY <1>1, <2>1 DEF PrewarmUnanswered, InProgress
<1>4. ASSUME NEW answer \in Answers, Answer(answer)
      PROVE  PrewarmUnanswered'
  <2>1. /\ pc = "sent" /\ UNCHANGED <<entry, serial>>
        /\ pc' \in {"backoff", "reserve", "record"}
    BY <1>4 DEF Answer
  <2>2. entry.first < serial /\ entry.first \notin settled
    BY <2>1 DEF PrewarmUnanswered, InProgress
  <2>3. CASE answer \in {"final", "uncertain"}
    <3>1. pc' = "record" /\ settled' = settled \cup {entry.first}
      BY <1>4, <2>3 DEF Answer, MayRetry, MayFallBack
    <3> QED BY <2>1, <2>2, <3>1 DEF PrewarmUnanswered, InProgress
  <2>4. CASE answer \notin {"final", "uncertain"}
    <3>1. settled' = settled BY <1>4, <2>4 DEF Answer
    <3> QED BY <1>1, <2>1, <2>2, <3>1 DEF PrewarmUnanswered, InProgress
  <2> QED BY <2>3, <2>4
<1>5. CASE \/ ReservationWritten \/ Send \/ Backoff \/ TimerFires
  <2>1. /\ UNCHANGED <<entry, serial, settled>>
        /\ pc \in InProgress \ {"reserve"}
    BY <1>5 DEF ReservationWritten, Send, Backoff, TimerFires, InProgress
  <2> QED BY <1>1, <2>1 DEF PrewarmUnanswered
<1>6. CASE \/ \E T \in SUBSET Account : StartRound(T)
           \/ \E a \in Account : Candidate(a)
           \/ NotConfirmed \/ RefuseReservation \/ ReservationWriteFailed
           \/ StopAfterReservation \/ Record \/ FinishRound \/ CrashAndRestart
  <2>1. UNCHANGED <<serial, settled>> /\ pc' \notin InProgress
    BY <1>6 DEF StartRound, Candidate, NotConfirmed, RefuseReservation,
                ReservationWriteFailed, StopAfterReservation, Record,
                FinishRound, CrashAndRestart, InProgress
  <2> QED BY <2>1 DEF PrewarmUnanswered
<1>7. CASE \/ \E a \in Account : SkipAccount(a)
           \/ OtherWrite \/ Stop \/ Reload \/ Tick \/ UNCHANGED vars
  <2>1. UNCHANGED <<pc, entry, serial, settled>>
    BY <1>7 DEF SkipAccount, OtherWrite, Stop, Reload, Tick, vars
  <2> QED BY <2>1 DEF PrewarmUnanswered
<1> QED
  BY <1>2, <1>3, <1>4, <1>5, <1>6, <1>7 DEF Next, Round, Prewarm

(* An answer that ended a prewarm, or may have been charged, is never      *)
(* followed by another call of that prewarm.                               *)
THEOREM FinalAnswerHolds == Spec => NothingAfterFinalAnswer
<1> DEFINE Quiet ==
      \A a \in Account : \A e \in called'[a] \ called[a] : e.first \notin settled
<1>1. Init => TypeOK /\ PrewarmUnanswered
  BY InitIInv, InitUnanswered DEF IInv
<1>2. TypeOK /\ PrewarmUnanswered /\ [Next]_vars => [Quiet]_vars
  <2> SUFFICES ASSUME TypeOK, PrewarmUnanswered, Next,
                      NEW a \in Account, NEW e \in called'[a] \ called[a]
               PROVE  e.first \notin settled
    OBVIOUS
  <2>1. CASE Send
    <3>1. e = entry /\ pc = "paid" BY <2>1 DEF Send, TypeOK
    <3> QED BY <3>1 DEF PrewarmUnanswered, InProgress
  <2>2. CASE ~Send
    <3>1. called' = called
      BY <2>2 DEF Next, Round, Prewarm, StartRound, SkipAccount, Candidate,
                  Confirmed, NotConfirmed, Reserve, RefuseReservation,
                  ReservationWritten, ReservationWriteFailed,
                  StopAfterReservation, Answer, Backoff, TimerFires, Record,
                  FinishRound, OtherWrite, Stop, Reload, CrashAndRestart, Tick, ghosts
    <3> QED BY <3>1
  <2> QED BY <2>1, <2>2
<1>3. TypeOK /\ PrewarmUnanswered /\ [Next]_vars => PrewarmUnanswered'
  BY UnansweredStep
<1> QED
  BY <1>1, <1>2, <1>3, TypeCorrect, PTL DEF Spec, NothingAfterFinalAnswer

-----------------------------------------------------------------------------
(* The calls of the prewarm in progress are at most one for each attempt   *)
(* of its loops so far.                                                    *)
Before(m) == (m - 1) * (RetryCount + 1)
CallsOfPrewarm == Cardinality(CallsOf(acct, entry.first))

Counted ==
  /\ model \in 1 .. ModelCount /\ attempt \in 0 .. RetryCount
  /\ \A a \in Account : IsFiniteSet(called[a])
  /\ \A a \in Account : \A c \in called[a] : c.first < serial
  /\ pc \in {"reserve", "write", "paid"} =>
       CallsOfPrewarm <= Before(model) + attempt
  /\ pc \in {"sent", "backoff", "awake"} =>
       CallsOfPrewarm <= Before(model) + attempt + 1
  /\ pc \in {"backoff", "awake"} => attempt < RetryCount

(* What a model adds to the count. *)
LEMMA BeforeNext ==
  ASSUME NEW m \in 1 .. ModelCount
  PROVE  /\ Before(m) \in Nat
         /\ Before(m + 1) = Before(m) + RetryCount + 1
         /\ Before(m) + RetryCount + 1 <= ModelCount * (RetryCount + 1)
<1> DEFINE R == RetryCount + 1
<1>1. R \in Nat /\ ModelCount \in Nat /\ m \in Nat /\ m >= 1 /\ m <= ModelCount
  BY WarmingAssumption
<1>2. Before(m) = (m - 1) * R /\ Before(m + 1) = m * R
  BY <1>1 DEF Before
<1> HIDE DEF R
<1>3. (m - 1) * R \in Nat /\ m * R = (m - 1) * R + R
  BY <1>1
<1>4. m * R <= ModelCount * R
  BY <1>1
<1> QED
  BY <1>2, <1>3, <1>4, WarmingAssumption DEF R

LEMMA InitCounted == Init => Counted /\ CallsPerPrewarm
BY WarmingAssumption, FS_EmptySet DEF Init, Counted, CallsPerPrewarm

(* Only Send adds a call; the attempts move with the answers. *)
LEMMA CountedStep ==
  ASSUME TypeOK, PrewarmUnanswered, Counted, CallsPerPrewarm, [Next]_vars
  PROVE  Counted' /\ CallsPerPrewarm'
<1> USE WarmingAssumption DEF acctVars, tryVars, ghosts, PrewarmOver
<1>0. /\ Before(model) \in Nat
      /\ Before(model + 1) = Before(model) + RetryCount + 1
      /\ Before(model) + RetryCount + 1 <= ModelCount * (RetryCount + 1)
      /\ attempt \in Nat /\ model \in Nat
  BY BeforeNext DEF Counted
<1>1. CASE Send
  <2>1. /\ pc = "paid" /\ pc' = "sent" /\ acct \in Account
        /\ UNCHANGED <<acct, entry, model, attempt, serial>>
        /\ called' = [called EXCEPT ![acct] = called[acct] \cup {entry}]
    BY <1>1 DEF Send, TypeOK
  <2>2. entry.first < serial
    BY <2>1 DEF PrewarmUnanswered, InProgress
  <2>3. /\ called'[acct] = called[acct] \cup {entry}
        /\ \A a \in Account \ {acct} : called'[a] = called[a]
    BY <2>1 DEF TypeOK
  <2>4. \A a \in Account : IsFiniteSet(called'[a])
    BY <2>1, <2>3, FS_AddElement DEF Counted
  <2>5. \A a \in Account : \A c \in called'[a] : c.first < serial
    BY <2>1, <2>2, <2>3 DEF Counted
  <2> DEFINE Old == CallsOf(acct, entry.first)
             New == {e \in called'[acct] : e.first = entry.first}
  <2>6. /\ New = Old \cup {entry} /\ IsFiniteSet(Old)
        /\ Cardinality(Old) \in Nat
    BY <2>1, <2>3, FS_Subset, FS_CardinalityType DEF Counted, CallsOf
  <2>7. Cardinality(New) <= Cardinality(Old) + 1 /\ Cardinality(New) \in Nat
    <3> HIDE DEF Old, New
    <3>1. /\ IsFiniteSet(Old \cup {entry})
          /\ Cardinality(Old \cup {entry}) \in {Cardinality(Old), Cardinality(Old) + 1}
      BY <2>6, FS_AddElement
    <3> QED
      BY <2>6, <3>1, FS_CardinalityType
  <2>8. Cardinality(Old) <= Before(model) + attempt
    BY <2>1 DEF Counted, CallsOfPrewarm
  <2>9. Cardinality(New) <= ModelCount * (RetryCount + 1)
    BY <1>0, <2>6, <2>7, <2>8 DEF Counted
  <2>10. CallsOfPrewarm' = Cardinality(New)
    BY <2>1 DEF CallsOfPrewarm, CallsOf
  <2>11. Counted'
    <3>1. CallsOfPrewarm' <= Before(model) + attempt + 1
      BY <1>0, <2>6, <2>7, <2>8, <2>10
    <3>2. Before(model)' = Before(model)
      BY <2>1 DEF Before
    <3> QED
      BY <2>1, <2>4, <2>5, <3>1, <3>2 DEF Counted
  <2>12. ASSUME NEW a \in Account, NEW c \in called'[a]
         PROVE  Cardinality({e \in called'[a] : e.first = c.first})
                  <= ModelCount * (RetryCount + 1)
    <3>1. CASE a = acct /\ c.first = entry.first
      BY <2>9, <3>1
    <3>2. CASE a = acct /\ c.first # entry.first
      <4>1. /\ {e \in called'[a] : e.first = c.first} = CallsOf(a, c.first)
            /\ c \in called[a]
        BY <2>3, <2>12, <3>2 DEF CallsOf
      <4> QED
        BY <4>1 DEF CallsPerPrewarm
    <3>3. CASE a # acct
      BY <2>3, <2>12, <3>3 DEF CallsPerPrewarm, CallsOf
    <3> QED
      BY <3>1, <3>2, <3>3
  <2> QED
    BY <2>11, <2>12 DEF CallsPerPrewarm, CallsOf
<1>2. CASE UNCHANGED called
  <2>1. CallsPerPrewarm'
    BY <1>2 DEF CallsPerPrewarm, CallsOf
  <2> SUFFICES Counted'
    BY <2>1
  <2>2. \A a \in Account : IsFiniteSet(called'[a])
    BY <1>2 DEF Counted
  <2>3. ASSUME serial' = serial \/ serial' = serial + 1
        PROVE  \A a \in Account : \A c \in called'[a] : c.first < serial'
    BY <1>2, <2>3 DEF Counted, TypeOK, Reservation
  (* Nothing of the prewarm moves, or it is over. *)
  <2>4. ASSUME UNCHANGED <<acct, model, attempt>>, entry'.first = entry.first,
               serial' = serial \/ serial' = serial + 1,
               \/ pc' = pc
               \/ pc' \notin InProgress
               \/ {pc, pc'} \subseteq {"reserve", "write", "paid"}
               \/ pc \in {"sent", "backoff"} /\ pc' = "awake"
                  /\ attempt < RetryCount
               \/ pc = "sent" /\ pc' = "backoff" /\ attempt < RetryCount
        PROVE  Counted'
    <3>1. CallsOfPrewarm' = CallsOfPrewarm
      BY <1>2, <2>4 DEF CallsOfPrewarm, CallsOf
    <3> QED
      BY <2>2, <2>3, <2>4, <3>1 DEF Counted, InProgress, Before
  <2>5. ASSUME model' = 1, attempt' = 0, serial' = serial,
               pc' \notin InProgress
        PROVE  Counted'
    BY <2>2, <2>3, <2>5 DEF Counted, InProgress
  <2>6. CASE Confirmed
    <3>1. /\ acct \in Account /\ acct' = acct /\ pc' = "reserve"
          /\ model' = 1 /\ attempt' = 0 /\ serial' = serial
          /\ entry'.first = serial
      BY <2>6 DEF Confirmed, TypeOK, NoEntry
    <3>2. {e \in called'[acct] : e.first = serial} = {}
      BY <1>2, <3>1 DEF Counted, TypeOK, Reservation
    <3>3. CallsOfPrewarm' = 0
      BY <3>1, <3>2, FS_EmptySet DEF CallsOfPrewarm, CallsOf
    <3>4. Before(model)' = 0
      BY <3>1 DEF Before
    <3> QED
      BY <2>2, <2>3, <3>1, <3>3, <3>4 DEF Counted
  <2>7. CASE Backoff
    <3>1. /\ pc \in {"backoff", "awake"}
          /\ UNCHANGED <<acct, entry, model, serial>>
          /\ \/ pc' = "record" /\ attempt' = attempt
             \/ pc' = "reserve" /\ attempt' = attempt + 1
      BY <2>7 DEF Backoff
    <3>2. CallsOfPrewarm' = CallsOfPrewarm /\ Before(model)' = Before(model)
      BY <1>2, <3>1 DEF CallsOfPrewarm, CallsOf, Before
    <3>3. /\ CallsOfPrewarm <= Before(model) + attempt + 1
          /\ attempt < RetryCount
      BY <3>1 DEF Counted
    <3> QED
      BY <1>0, <2>2, <2>3, <3>1, <3>2, <3>3 DEF Counted
  <2>8. ASSUME NEW answer \in Answers, Answer(answer)
        PROVE  Counted'
    <3>1. pc = "sent" /\ UNCHANGED <<acct, entry, serial>>
      BY <2>8 DEF Answer
    <3>2. CallsOfPrewarm' = CallsOfPrewarm
      BY <1>2, <3>1 DEF CallsOfPrewarm, CallsOf
    <3>3. CallsOfPrewarm <= Before(model) + attempt + 1
      BY <3>1 DEF Counted
    <3>4. CASE MayFallBack(answer) /\ model' = model + 1 /\ attempt' = 0
               /\ pc' = "reserve"
      <4>1. model' \in 1 .. ModelCount
        BY <3>4 DEF MayFallBack, Counted
      <4>2. Before(model)' = Before(model) + RetryCount + 1
        BY <1>0, <3>4 DEF Before
      <4>3. /\ CallsOfPrewarm \in Nat /\ attempt <= RetryCount
        <5>1. IsFiniteSet(CallsOf(acct, entry.first))
          BY <3>1, FS_Subset DEF CallsOf, Counted, TypeOK
        <5> QED
          BY <5>1, FS_CardinalityType DEF CallsOfPrewarm, Counted
      <4>4. CallsOfPrewarm' <= Before(model)' + attempt'
        BY <1>0, <3>2, <3>3, <3>4, <4>2, <4>3
      <4> QED
        BY <2>2, <2>3, <3>1, <3>4, <4>1, <4>4 DEF Counted
    <3>5. CASE UNCHANGED <<model, attempt>> /\ pc' = "backoff"
               /\ MayRetry(answer)
      BY <2>4, <3>1, <3>5 DEF MayRetry
    <3>6. CASE UNCHANGED <<model, attempt>> /\ pc' = "record"
      BY <2>4, <3>1, <3>6 DEF InProgress
    <3> QED
      BY <2>8, <3>4, <3>5, <3>6 DEF Answer
  <2>9. CASE TimerFires
    <3>1. attempt < RetryCount
      BY <2>9 DEF TimerFires, Counted
    <3> QED
      BY <2>4, <2>9, <3>1 DEF TimerFires
  <2>10. CASE Reserve
    <3>1. entry'.first = entry.first
      BY <2>10 DEF Reserve, TypeOK, Reservation
    <3> QED
      BY <2>4, <2>10, <3>1 DEF Reserve
  <2>11. CASE ReservationWritten
    BY <2>4, <2>11 DEF ReservationWritten
  <2>12. CASE \/ \E T \in SUBSET Account : StartRound(T)
              \/ RefuseReservation \/ ReservationWriteFailed
              \/ StopAfterReservation
    BY <2>4, <2>12 DEF StartRound, RefuseReservation, ReservationWriteFailed,
                       StopAfterReservation, InProgress
  <2>13. CASE \/ NotConfirmed \/ Record \/ FinishRound \/ CrashAndRestart
    BY <2>5, <2>13 DEF NotConfirmed, Record, FinishRound, CrashAndRestart,
                       InProgress
  <2>14. CASE \/ \E a \in Account : SkipAccount(a)
              \/ OtherWrite \/ Stop \/ Reload \/ Tick \/ UNCHANGED vars
    BY <2>4, <2>14 DEF SkipAccount, OtherWrite, Stop, Reload, Tick, vars
  <2>15. CASE \E a \in Account : Candidate(a)
    <3>1. /\ pc' = "confirm" /\ UNCHANGED <<model, attempt, serial>>
      BY <2>15 DEF Candidate
    <3> QED
      BY <2>2, <2>3, <3>1 DEF Counted
  <2> QED
    BY <2>6, <2>7, <2>8, <2>9, <2>10, <2>11, <2>12, <2>13, <2>14, <2>15, <1>1
       DEF Next, Round, Prewarm
<1>3. Send \/ UNCHANGED called
  BY DEF Next, Round, Prewarm, StartRound, SkipAccount, Candidate, Confirmed,
         NotConfirmed, Reserve, RefuseReservation, ReservationWritten,
         ReservationWriteFailed, StopAfterReservation, Answer, Backoff,
         TimerFires, Record, FinishRound, OtherWrite, Stop, Reload,
         CrashAndRestart, Tick, vars
<1> QED
  BY <1>1, <1>2, <1>3

(* A prewarm never sends more than RetryCount + 1 calls for each of its    *)
(* models, whatever the answers, the stops and the crashes.                *)
THEOREM PrewarmIsBounded == Spec => []CallsPerPrewarm
<1>1. Init => TypeOK /\ PrewarmUnanswered /\ Counted /\ CallsPerPrewarm
  BY InitIInv, InitUnanswered, InitCounted DEF IInv
<1>2. TypeOK /\ PrewarmUnanswered /\ [Next]_vars => PrewarmUnanswered'
  BY UnansweredStep
<1>3. TypeOK /\ PrewarmUnanswered /\ Counted /\ CallsPerPrewarm /\ [Next]_vars
        => Counted' /\ CallsPerPrewarm'
  BY CountedStep
<1> QED
  BY <1>1, <1>2, <1>3, TypeCorrect, PTL DEF Spec
=============================================================================
