------------------------- MODULE NotificationsProofs -------------------------
(***************************************************************************)
(* Proofs about Notifications for every set of accounts, every length of   *)
(* the day, every setting and every bound on rounds, failed writes,        *)
(* crashes and reconfigurations.                                           *)
(*                                                                         *)
(* DigestsSettled carries the digests across crashes: memory and the state *)
(* file each either are past a digest that was handed to Bark, or have its *)
(* tries and its unknown answer in the window that is due.  Alerts does    *)
(* the same for the alerts.  It needs Boundaries, and so the assumption    *)
(* that digest_time does not change: the run notifications_digest_moved    *)
(* shows what happens when it does.                                        *)
(***************************************************************************)
EXTENDS Notifications, TLAPS

-----------------------------------------------------------------------------
(* The inductive invariant.                                                *)

(* The shape of notificationState; TypeOK says less of it, in a form that  *)
(* TLC evaluates faster.                                                   *)
Shaped(n) ==
  /\ n \in [next : Nat, windows : {n.windows}, streak : [Account -> Nat],
            pending : SUBSET Notice]
  /\ DOMAIN n.windows \subseteq Nat
  /\ n.windows \in [DOMAIN n.windows -> Window]
  /\ \A p \in n.pending : p.end \in DOMAIN n.windows

Steps == {"free", "record", "flush", "alert", "result", "digest",
          "digestSend", "accepted", "rejected"}

Shapes ==
  /\ now \in 0..MaxTime /\ digestTime \in 0..(DayLength - 1)
  /\ Shaped(mem) /\ Shaped(disk)
  /\ step \in Steps
  /\ job \in SUBSET Notice
  /\ alerted \in SUBSET (Key \X Nat) /\ delivered \in SUBSET Nat
  /\ sends \in [0..(MaxTime + 2 * DayLength) -> Nat]
  /\ rounds \in Nat /\ failures \in Nat /\ crashes \in Nat /\ reloads \in Nat

(* The notices of a queue that is being written keep their windows. *)
QueuePlaced == step = "flush" => \A p \in job : p.end \in DOMAIN mem.windows

(* What is handed to Bark is on disk first. *)
SentFromDisk ==
  step \in {"alert", "result", "digestSend", "accepted", "rejected"} => disk = mem

(* While a digest is under way its window is reserved, and no queued       *)
(* notice is due.                                                          *)
DigestReserved ==
  step \in {"digest", "digestSend", "accepted", "rejected"} =>
    /\ mem.next <= now
    /\ mem.next \in DOMAIN mem.windows
    /\ mem.windows[mem.next].sending
    /\ DueNotices = {}

(* The digest of e is over, or the window that is due still knows the      *)
(* tries and that the answer is unknown, unless t is too late.             *)
RecordKept(n, t, e) ==
  \/ n.next > e
  \/ /\ n.next = e
     /\ t <= e + KeepTime =>
          /\ e \in DOMAIN n.windows
          /\ sends[e] <= n.windows[e].tries
          /\ e \in delivered => n.windows[e].sending

Settled(n, e) == RecordKept(n, now, e)

SentDigests == {e \in DOMAIN sends : sends[e] > 0}

DigestsSettled ==
  /\ delivered \subseteq SentDigests
  /\ \A e \in SentDigests : e <= now /\ Settled(mem, e) /\ Settled(disk, e)
  /\ now <= mem.next + KeepTime =>
       /\ step \in {"digest", "digestSend"} =>
            sends[mem.next] < mem.windows[mem.next].tries
       /\ step \in {"digest", "digestSend", "rejected"} => mem.next \notin delivered

(* The ends of the windows, and the digest that is next, are at the time   *)
(* of day of the digest.                                                   *)
AtDigestTime(n) ==
  /\ n.next % DayLength = FirstDigest
  /\ \A e \in DOMAIN n.windows : e % DayLength = FirstDigest

Boundaries == digestTime = FirstDigest /\ AtDigestTime(mem) /\ AtDigestTime(disk)

(* The key is claimed in the window that ends at e. *)
Claimed(n, k, e) == e \in DOMAIN n.windows /\ k \in n.windows[e].alerts

(* What was alerted stays claimed while its window lasts, and what waits   *)
(* is claimed, waits once, and was not alerted.                            *)
Accounted(n) ==
  /\ \A a \in alerted : now < a[2] => Claimed(n, a[1], a[2])
  /\ \A p \in n.pending : Claimed(n, p.key, p.end) /\ <<p.key, p.end>> \notin alerted
  /\ \A p, q \in n.pending : p.key = q.key /\ p.end = q.end => p = q

JobAccounted ==
  step \in {"record", "flush", "alert"} =>
    /\ \A p \in job : Claimed(mem, p.key, p.end) /\ <<p.key, p.end>> \notin alerted
    /\ \A p, q \in job : p.key = q.key /\ p.end = q.end => p = q
    /\ \A p \in job, q \in mem.pending : p.key # q.key \/ p.end # q.end

Alerts == Accounted(mem) /\ Accounted(disk) /\ JobAccounted

(* A queued notice is due before the digest of its window. *)
DueFirst ==
  /\ \A p \in mem.pending \cup disk.pending : p.due <= p.end
  /\ step = "flush" => \A p \in job : p.due <= p.end

-----------------------------------------------------------------------------
(* The calendar.                                                           *)

LEMMA Quotient ==
  ASSUME NEW t \in Nat
  PROVE  \E q \in Nat, h \in 0..(DayLength - 1) :
           t = DayLength * q + h /\ h = t % DayLength /\ DayLength * q \in Nat
<1> DEFINE q == t \div DayLength
<1>1. t = DayLength * q + (t % DayLength) BY NotificationsAssumption, SMT
<1>2. q \in Nat BY NotificationsAssumption, SMT
<1>3. t % DayLength \in 0..(DayLength - 1) BY NotificationsAssumption, SMT
<1>4. DayLength * q \in Nat BY <1>2, NotificationsAssumption, SMT
<1> QED BY <1>1, <1>2, <1>3, <1>4

LEMMA Remainder ==
  ASSUME NEW q \in Nat, NEW h \in 0..(DayLength - 1)
  PROVE  (DayLength * q + h) % DayLength = h
BY NotificationsAssumption, SMT

LEMMA TimeOfDay ==
  ASSUME NEW d \in 0..(DayLength - 1)
  PROVE  d % DayLength = d
BY NotificationsAssumption, SMT

(* A time of day counted from midnight has that time of day. *)
LEMMA MidnightPlus ==
  ASSUME NEW t \in Nat, NEW d \in 0..(DayLength - 1)
  PROVE  /\ Midnight(t) \in Nat
         /\ t % DayLength \in 0..(DayLength - 1)
         /\ t = Midnight(t) + (t % DayLength)
         /\ (Midnight(t) + d) % DayLength = d
         /\ (Midnight(t) + d + DayLength) % DayLength = d
<1>1. PICK q \in Nat, h \in 0..(DayLength - 1) :
        t = DayLength * q + h /\ h = t % DayLength /\ DayLength * q \in Nat
  BY Quotient
<1> DEFINE x == DayLength * q  y == DayLength * (q + 1)
<1>2. Midnight(t) = x /\ t = Midnight(t) + (t % DayLength)
  <2>1. x \in Nat /\ t = x + h /\ Midnight(t) = t - h BY <1>1 DEF Midnight
  <2> HIDE DEF x
  <2>2. Midnight(t) = x /\ t = Midnight(t) + h BY <2>1
  <2> QED BY <2>2, <1>1
<1>3. (x + d) % DayLength = d BY Remainder
<1>4. (y + d) % DayLength = d
  <2>1. q + 1 \in Nat OBVIOUS
  <2> QED BY <2>1, Remainder
<1>5. x + d + DayLength = y + d
  <2>1. y = x + DayLength BY NotificationsAssumption
  <2>2. x \in Nat BY <1>1
  <2> HIDE DEF x, y
  <2> QED BY <2>1, <2>2, NotificationsAssumption
<1> QED BY <1>1, <1>2, <1>3, <1>4, <1>5

(* Two times with one time of day are a day apart. *)
LEMMA DaysApart ==
  ASSUME NEW e \in Nat, NEW f \in Nat, e % DayLength = f % DayLength, e < f
  PROVE  e + DayLength <= f
<1>1. PICK p \in Nat, h \in 0..(DayLength - 1) :
        e = DayLength * p + h /\ h = e % DayLength /\ DayLength * p \in Nat
  BY Quotient
<1>2. PICK q \in Nat, g \in 0..(DayLength - 1) :
        f = DayLength * q + g /\ g = f % DayLength /\ DayLength * q \in Nat
  BY Quotient
<1>3. p < q
  <2>1. SUFFICES ASSUME q <= p PROVE FALSE OBVIOUS
  <2>2. DayLength * q <= DayLength * p BY <2>1, NotificationsAssumption
  <2> QED BY <2>2, <1>1, <1>2
<1>4. DayLength * p + DayLength <= DayLength * q BY <1>3, NotificationsAssumption
<1> DEFINE x == DayLength * p  y == DayLength * q
<1>5. x \in Nat /\ y \in Nat /\ x + DayLength <= y BY <1>1, <1>2, <1>4
<1>6. e = x + h /\ f = y + h BY <1>1, <1>2
<1> HIDE DEF x, y
<1> QED BY <1>5, <1>6, NotificationsAssumption

(* digestEnd: the next boundary, at most a day away. *)
LEMMA NextDigest ==
  ASSUME NEW t \in Nat, digestTime \in 0..(DayLength - 1)
  PROVE  /\ DigestEnd(t) \in Nat
         /\ t < DigestEnd(t) /\ DigestEnd(t) <= t + DayLength
         /\ DigestEnd(t) % DayLength = digestTime
<1> DEFINE m == Midnight(t)
<1>1. /\ m \in Nat /\ t % DayLength \in 0..(DayLength - 1) /\ t = m + (t % DayLength)
      /\ (m + digestTime) % DayLength = digestTime
      /\ (m + digestTime + DayLength) % DayLength = digestTime
  BY MidnightPlus
<1>2. m <= t /\ t < m + DayLength
  <2>1. PICK h \in 0..(DayLength - 1) : t = m + h BY <1>1
  <2> HIDE DEF m
  <2> QED BY <2>1, <1>1, NotificationsAssumption
<1>3. CASE t < m + digestTime
  <2>1. DigestEnd(t) = m + digestTime BY <1>3 DEF DigestEnd
  <2> HIDE DEF m
  <2> QED BY <1>1, <1>2, <1>3, <2>1, NotificationsAssumption
<1>4. CASE ~(t < m + digestTime)
  <2>1. DigestEnd(t) = m + digestTime + DayLength BY <1>4 DEF DigestEnd
  <2> HIDE DEF m
  <2> QED BY <1>1, <1>2, <1>4, <2>1, NotificationsAssumption
<1> QED BY <1>3, <1>4

LEMMA QuietEnds ==
  ASSUME NEW t \in Nat
  PROVE  QuietUntil(t) \in Nat
<1> DEFINE m == Midnight(t)
<1>1. m \in Nat
  <2>1. 0 \in 0..(DayLength - 1) BY NotificationsAssumption
  <2> QED BY <2>1, MidnightPlus
<1>2. QuietUntil(t) \in {m + QuietEnd, m + QuietEnd + DayLength} BY DEF QuietUntil
<1> HIDE DEF m
<1> QED BY <1>1, <1>2, NotificationsAssumption

-----------------------------------------------------------------------------
(* What the operations on notificationState do to its fields.              *)

LEMMA EmptyWindowType == EmptyWindow \in Window
BY NotificationsAssumption DEF EmptyWindow, Window

LEMMA WindowOfType ==
  ASSUME NEW n, Shaped(n), NEW e \in Nat
  PROVE  /\ WindowOf(n, e) \in Window
         /\ e \in DOMAIN n.windows => WindowOf(n, e) = n.windows[e]
         /\ e \notin DOMAIN n.windows => WindowOf(n, e) = EmptyWindow
BY EmptyWindowType DEF WindowOf, Shaped

LEMMA WithWindowFields ==
  ASSUME NEW n, Shaped(n), NEW e \in Nat, NEW w \in Window
  PROVE  LET m == WithWindow(n, e, w) IN
           /\ Shaped(m)
           /\ m.next = n.next /\ m.streak = n.streak /\ m.pending = n.pending
           /\ DOMAIN m.windows = DOMAIN n.windows \cup {e}
           /\ m.windows[e] = w
           /\ \A f \in DOMAIN n.windows : f # e => m.windows[f] = n.windows[f]
<1> DEFINE new == [f \in DOMAIN n.windows \cup {e} |-> IF f = e THEN w ELSE n.windows[f]]
           m == WithWindow(n, e, w)
<1>1. m = [n EXCEPT !.windows = new] BY DEF WithWindow
<1>2. /\ m.windows = new /\ m.next = n.next /\ m.streak = n.streak
      /\ m.pending = n.pending
      /\ m \in [next : Nat, windows : {new}, streak : [Account -> Nat], pending : SUBSET Notice]
  BY <1>1 DEF Shaped
<1>3. DOMAIN new = DOMAIN n.windows \cup {e} OBVIOUS
<1>4. new[e] = w /\ \A f \in DOMAIN n.windows : f # e => new[f] = n.windows[f] OBVIOUS
<1>5. new \in [DOMAIN new -> Window]
  <2>1. \A f \in DOMAIN n.windows : n.windows[f] \in Window BY DEF Shaped
  <2> QED BY <2>1
<1>6. Shaped(m)
  <2>1. DOMAIN new \subseteq Nat BY DEF Shaped
  <2>2. \A p \in m.pending : p.end \in DOMAIN m.windows BY <1>2, <1>3 DEF Shaped
  <2> HIDE DEF new
  <2> QED BY <1>2, <1>5, <2>1, <2>2 DEF Shaped
<1> HIDE DEF new
<1> QED BY <1>2, <1>3, <1>4, <1>6

LEMMA PrunedFields ==
  ASSUME NEW n, Shaped(n), NEW cutoff \in Int
  PROVE  LET m == PrunedBefore(n, cutoff) IN
           /\ Shaped(m)
           /\ m.next = n.next /\ m.streak = n.streak
           /\ m.pending = {p \in n.pending : p.end >= cutoff}
           /\ DOMAIN m.windows = {e \in DOMAIN n.windows : e >= cutoff}
           /\ \A e \in DOMAIN m.windows : m.windows[e] = n.windows[e]
<1> DEFINE kept == {e \in DOMAIN n.windows : e >= cutoff}
           new == [e \in kept |-> n.windows[e]]
           left == {p \in n.pending : p.end \in kept}
           m == PrunedBefore(n, cutoff)
<1>1. m = [n EXCEPT !.windows = new, !.pending = left] BY DEF PrunedBefore
<1>2. left \subseteq Notice BY DEF Shaped
<1>3. /\ m.windows = new /\ m.next = n.next /\ m.streak = n.streak /\ m.pending = left
      /\ m \in [next : Nat, windows : {new}, streak : [Account -> Nat], pending : SUBSET Notice]
  <2> HIDE DEF new, left
  <2> QED BY <1>1, <1>2 DEF Shaped
<1>4. DOMAIN new = kept /\ \A e \in kept : new[e] = n.windows[e] OBVIOUS
<1>5. new \in [kept -> Window]
  <2>1. \A f \in DOMAIN n.windows : n.windows[f] \in Window BY DEF Shaped
  <2> QED BY <2>1
<1>6. kept \subseteq Nat BY DEF Shaped
<1>7. left = {p \in n.pending : p.end >= cutoff} BY DEF Shaped
<1>8. \A p \in left : p.end \in kept OBVIOUS
<1>9. Shaped(m)
  <2> HIDE DEF new, left, kept
  <2> QED BY <1>3, <1>4, <1>5, <1>6, <1>8 DEF Shaped
<1> HIDE DEF new, left
<1> QED BY <1>3, <1>4, <1>7, <1>9

(* The queue of n is replaced. *)
LEMMA QueueFields ==
  ASSUME NEW n, Shaped(n), NEW queue \in SUBSET Notice,
         \A p \in queue : p.end \in DOMAIN n.windows
  PROVE  LET m == [n EXCEPT !.pending = queue] IN
           /\ Shaped(m)
           /\ m.next = n.next /\ m.windows = n.windows /\ m.pending = queue
BY DEF Shaped

(* A window is no longer being sent. *)
LEMMA SendingOver ==
  ASSUME NEW n, Shaped(n), NEW e \in DOMAIN n.windows
  PROVE  LET w == [n.windows[e] EXCEPT !.sending = FALSE] IN
           /\ w \in Window /\ ~w.sending
           /\ w.alerts = n.windows[e].alerts /\ w.tries = n.windows[e].tries
           /\ w.runs = n.windows[e].runs
           /\ [n EXCEPT !.windows[e].sending = FALSE] = WithWindow(n, e, w)
<1> DEFINE w == [n.windows[e] EXCEPT !.sending = FALSE]
           new == [f \in DOMAIN n.windows \cup {e} |-> IF f = e THEN w ELSE n.windows[f]]
<1>1. n.windows[e] \in Window BY DEF Shaped
<1>2. /\ w \in Window /\ ~w.sending
      /\ w.alerts = n.windows[e].alerts /\ w.tries = n.windows[e].tries
      /\ w.runs = n.windows[e].runs
  BY <1>1 DEF Window
<1> HIDE DEF w
<1>3. [n.windows EXCEPT ![e] = w] = new
  <2>1. n.windows = [f \in DOMAIN n.windows |-> n.windows[f]] BY DEF Shaped
  <2>2. DOMAIN n.windows \cup {e} = DOMAIN n.windows OBVIOUS
  <2> QED BY <2>1, <2>2
<1>4. [n EXCEPT !.windows[e].sending = FALSE] = [n EXCEPT !.windows = [n.windows EXCEPT ![e] = w]]
  BY DEF w
<1>5. [n EXCEPT !.windows[e].sending = FALSE] = WithWindow(n, e, w)
  BY <1>3, <1>4 DEF WithWindow
<1> QED BY <1>2, <1>5 DEF w

(* finishDigestLocked: nothing before the next boundary is left, and this  *)
(* boundary lies ahead.                                                    *)
LEMMA FinishedFields ==
  ASSUME NEW n, Shaped(n), now \in Nat, digestTime \in 0..(DayLength - 1)
  PROVE  LET m == Finished(n) IN
           /\ Shaped(m)
           /\ now < m.next
           /\ m.streak = n.streak
           /\ m.pending = {p \in n.pending : p.end >= m.next}
           /\ DOMAIN m.windows = {e \in DOMAIN n.windows : e >= m.next}
           /\ \A e \in DOMAIN m.windows : m.windows[e] = n.windows[e]
           /\ m.next % DayLength = digestTime
           /\ n.next % DayLength = digestTime =>
                \/ m.next = n.next + DayLength
                \/ n.next + DayLength <= now /\ m.next <= now + DayLength
<1> DEFINE base == Midnight(n.next)
           next == base + DayLength + digestTime
           to   == IF next <= now THEN DigestEnd(now) ELSE next
           k    == [n EXCEPT !.next = to]
           m    == Finished(n)
<1>1. n.next \in Nat BY DEF Shaped
<1>2. /\ base \in Nat
      /\ n.next = base + (n.next % DayLength)
      /\ (base + digestTime + DayLength) % DayLength = digestTime
  BY <1>1, MidnightPlus
<1>3. next = base + digestTime + DayLength /\ next \in Nat
  <2> HIDE DEF base
  <2> QED BY <1>2, NotificationsAssumption
<1>4. /\ DigestEnd(now) \in Nat /\ now < DigestEnd(now)
      /\ DigestEnd(now) <= now + DayLength
      /\ DigestEnd(now) % DayLength = digestTime
  BY NextDigest
<1>5. to \in Nat /\ now < to /\ to % DayLength = digestTime
  <2> HIDE DEF next
  <2>1. CASE next <= now BY <2>1, <1>4
  <2>2. CASE ~(next <= now)
    <3>1. to = next BY <2>2
    <3>2. now < next BY <2>2, <1>3
    <3>3. next % DayLength = digestTime BY <1>2, <1>3
    <3> QED BY <3>1, <3>2, <3>3, <1>3
  <2> QED BY <2>1, <2>2
<1>6. n.next % DayLength = digestTime =>
        \/ to = n.next + DayLength
        \/ n.next + DayLength <= now /\ to <= now + DayLength
  <2>1. SUFFICES ASSUME n.next % DayLength = digestTime
                 PROVE  \/ to = n.next + DayLength
                        \/ n.next + DayLength <= now /\ to <= now + DayLength
    OBVIOUS
  <2>2. next = n.next + DayLength
    <3>1. n.next = base + digestTime BY <1>2, <2>1
    <3> HIDE DEF base, next
    <3> QED BY <3>1, <1>2, <1>3, NotificationsAssumption
  <2> HIDE DEF next
  <2> QED BY <2>2, <1>4
<1> HIDE DEF to
<1>7. Shaped(k) /\ k.next = to /\ k.windows = n.windows /\ k.pending = n.pending
      /\ k.streak = n.streak
  BY <1>5 DEF Shaped
<1>8. m = PrunedBefore(k, to) BY DEF Finished, to
<1>9. /\ Shaped(m)
      /\ m.next = k.next /\ m.streak = k.streak
      /\ m.pending = {p \in k.pending : p.end >= to}
      /\ DOMAIN m.windows = {e \in DOMAIN k.windows : e >= to}
      /\ \A e \in DOMAIN m.windows : m.windows[e] = k.windows[e]
  <2>1. to \in Int BY <1>5
  <2>2. Shaped(k) BY <1>7
  <2> HIDE DEF m, k
  <2>3. LET l == PrunedBefore(k, to) IN
          /\ Shaped(l)
          /\ l.next = k.next /\ l.streak = k.streak
          /\ l.pending = {p \in k.pending : p.end >= to}
          /\ DOMAIN l.windows = {e \in DOMAIN k.windows : e >= to}
          /\ \A e \in DOMAIN l.windows : l.windows[e] = k.windows[e]
    BY <2>1, <2>2, PrunedFields
  <2> QED BY <1>8, <2>3
<1> HIDE DEF k, m
<1> QED BY <1>5, <1>6, <1>7, <1>9 DEF m

(* What RecordRound leaves: `end` is the window of the round, `new` the    *)
(* keys it claims there.                                                   *)
Recorded(end, new) ==
  LET cutoff == now - KeepTime
      made == {[key |-> k, due |-> QuietUntil(now), end |-> end] : k \in new}
  IN /\ Shaped(mem')
     /\ mem'.next = mem.next
     /\ DOMAIN mem'.windows = {e \in DOMAIN mem.windows : e >= cutoff} \cup {end}
     /\ \A e \in DOMAIN mem.windows :
          e >= cutoff /\ e # end => mem'.windows[e] = mem.windows[e]
     /\ mem'.windows[end].alerts = WindowOf(mem, end).alerts \cup new
     /\ new \cap WindowOf(mem, end).alerts = {}
     /\ made \in SUBSET Notice
     /\ \/ mem'.pending = {p \in mem.pending : p.end >= cutoff} \cup made
             /\ Quiet(now) /\ job' = {}
        \/ mem'.pending = {p \in mem.pending : p.end >= cutoff} /\ job' \in {{}, made}

LEMMA RecordedRound ==
  ASSUME Shapes, NEW outcome \in [Account -> Outcome], NEW mode \in Mode,
         RecordRound(outcome, mode)
  PROVE  \E new \in SUBSET Key : Recorded(DigestEnd(now), new)
<1> DEFINE cutoff == now - KeepTime
           end  == DigestEnd(now)
           kept == PrunedBefore(mem, cutoff)
           w    == WindowOf(kept, end)
           new  == NewAlerts(w, FailureKeys(outcome))
           made == {[key |-> k, due |-> QuietUntil(now), end |-> end] : k \in new}
           w1   == [w EXCEPT !.runs = IF mode = "refresh" THEN @ ELSE @ + 1,
                             !.alerts = @ \cup new]
           n    == WithWindow(kept, end, w1)
           streak == [a \in Account |-> StreakAfter(a, outcome)]
           queue  == IF Quiet(now) /\ mode # "feedback"
                     THEN n.pending \cup made ELSE n.pending
<1>1. /\ mem' = [n EXCEPT !.streak = streak, !.pending = queue]
      /\ job' = IF Quiet(now) \/ mode = "feedback" THEN {} ELSE made
  BY Zenon DEF RecordRound
<1>2. /\ end \in Nat /\ now < end BY NextDigest DEF Shapes
<1>3. cutoff \in Int /\ now \in Nat /\ cutoff <= now BY NotificationsAssumption DEF Shapes
<1>4. /\ Shaped(kept)
      /\ kept.next = mem.next /\ kept.streak = mem.streak
      /\ kept.pending = {p \in mem.pending : p.end >= cutoff}
      /\ DOMAIN kept.windows = {e \in DOMAIN mem.windows : e >= cutoff}
      /\ \A e \in DOMAIN kept.windows : kept.windows[e] = mem.windows[e]
  <2> HIDE DEF cutoff
  <2>1. Shaped(mem) BY DEF Shapes
  <2> QED BY <2>1, <1>3, PrunedFields
<1> HIDE DEF kept
<1>5. w = WindowOf(mem, end) /\ w \in Window
  <2>1. end >= cutoff BY <1>2, <1>3
  <2>2. Shaped(mem) BY DEF Shapes
  <2> HIDE DEF cutoff, end
  <2>3. end \in DOMAIN kept.windows <=> end \in DOMAIN mem.windows BY <2>1, <1>4
  <2>4. CASE end \in DOMAIN mem.windows BY <2>2, <2>3, <2>4, <1>2, <1>4, WindowOfType
  <2>5. CASE end \notin DOMAIN mem.windows BY <2>2, <2>3, <2>5, <1>2, <1>4, WindowOfType
  <2> QED BY <2>4, <2>5
<1>6. new \in SUBSET Key /\ new \cap w.alerts = {}
  BY DEF NewAlerts, FailureKeys
<1> HIDE DEF w, new
<1>7. w1 \in Window /\ w1.alerts = w.alerts \cup new
  <2> DEFINE runs == IF mode = "refresh" THEN w.runs ELSE w.runs + 1
             alerts == w.alerts \cup new
  <2>1. runs \in Nat /\ alerts \in SUBSET Key BY <1>5, <1>6 DEF Window
  <2>2. w1 = [w EXCEPT !.runs = runs, !.alerts = alerts] OBVIOUS
  <2> HIDE DEF runs, alerts, w1
  <2>3. w \in Window BY <1>5
  <2>4. w1 \in Window /\ w1.alerts = alerts BY <2>1, <2>2, <2>3 DEF Window
  <2> QED BY <2>4 DEF alerts
<1> HIDE DEF w1, end, cutoff
<1>8. /\ Shaped(n)
      /\ n.next = kept.next /\ n.pending = kept.pending
      /\ DOMAIN n.windows = DOMAIN kept.windows \cup {end}
      /\ n.windows[end] = w1
      /\ \A f \in DOMAIN kept.windows : f # end => n.windows[f] = kept.windows[f]
  BY <1>2, <1>4, <1>7, WithWindowFields
<1> HIDE DEF n
<1>9. made \in SUBSET Notice
  <2>1. QuietUntil(now) \in Nat BY QuietEnds DEF Shapes
  <2> QED BY <2>1, <1>2, <1>6 DEF Notice
<1>10. streak \in [Account -> Nat]
  <2>1. ASSUME NEW a \in Account PROVE StreakAfter(a, outcome) \in Nat
    <3>1. mem.streak[a] \in Nat BY DEF Shapes, Shaped
    <3> QED BY <3>1 DEF StreakAfter
  <2> QED BY <2>1
<1>11. queue \in SUBSET Notice /\ \A p \in queue : p.end \in DOMAIN n.windows
  <2>1. n.pending \subseteq Notice /\ \A p \in n.pending : p.end \in DOMAIN n.windows
    BY <1>8 DEF Shaped
  <2>2. \A p \in made : p.end = end OBVIOUS
  <2> HIDE DEF made
  <2> QED BY <2>1, <2>2, <1>8, <1>9
<1>12. \/ queue = kept.pending \cup made /\ Quiet(now) /\ job' = {}
       \/ queue = kept.pending /\ job' \in {{}, made}
  BY <1>1, <1>8
<1> HIDE DEF made, streak, queue
<1>13. Shaped(mem') /\ mem'.next = n.next /\ mem'.windows = n.windows /\ mem'.pending = queue
  BY <1>1, <1>8, <1>10, <1>11 DEF Shaped
<1>14. DOMAIN mem'.windows = {e \in DOMAIN mem.windows : e >= cutoff} \cup {end}
  BY <1>4, <1>8, <1>13
<1>15. \A e \in DOMAIN mem.windows :
          e >= cutoff /\ e # end => mem'.windows[e] = mem.windows[e]
  BY <1>4, <1>8, <1>13
<1>16. mem'.windows[end].alerts = WindowOf(mem, end).alerts \cup new
  BY <1>5, <1>7, <1>8, <1>13
<1>17. Recorded(end, new)
  <2>1. \/ mem'.pending = {p \in mem.pending : p.end >= cutoff} \cup made
             /\ Quiet(now) /\ job' = {}
        \/ mem'.pending = {p \in mem.pending : p.end >= cutoff} /\ job' \in {{}, made}
    BY <1>4, <1>12, <1>13
  <2> QED BY <2>1, <1>4, <1>5, <1>6, <1>8, <1>9, <1>13, <1>14, <1>15, <1>16
          DEF Recorded, cutoff, made
<1> QED BY <1>6, <1>17 DEF end

LEMMA PlainTypes ==
  ASSUME Shapes
  PROVE  /\ Shaped(mem) /\ Shaped(disk)
         /\ mem.next \in Nat /\ disk.next \in Nat
         /\ now \in Nat /\ now <= MaxTime /\ digestTime \in 0..(DayLength - 1)
<1>1. Shaped(mem) /\ Shaped(disk) BY DEF Shapes
<1>2. mem.next \in Nat /\ disk.next \in Nat BY <1>1 DEF Shaped
<1>3. now \in Nat /\ now <= MaxTime /\ digestTime \in 0..(DayLength - 1)
  BY NotificationsAssumption DEF Shapes
<1> QED BY <1>1, <1>2, <1>3

LEMMA StartedDigest ==
  ASSUME Shapes, StartDigest
  PROVE  LET w == WindowOf(mem, mem.next) IN
           /\ Shaped(mem')
           /\ mem'.next = mem.next /\ mem'.pending = mem.pending
           /\ DOMAIN mem'.windows = DOMAIN mem.windows \cup {mem.next}
           /\ \A e \in DOMAIN mem.windows : e # mem.next => mem'.windows[e] = mem.windows[e]
           /\ mem'.windows[mem.next].sending
           /\ mem'.windows[mem.next].alerts = w.alerts
           /\ w.tries < mem'.windows[mem.next].tries
           /\ ~w.sending
<1> DEFINE w == WindowOf(mem, mem.next)
           tries == w.tries + 1
           nextTry == now + RetryInterval
           w1 == [w EXCEPT !.tries = tries, !.sending = TRUE, !.nextTry = nextTry]
<1>1. Shaped(mem) /\ mem.next \in Nat /\ now \in Nat BY PlainTypes
<1>2. w \in Window BY <1>1, WindowOfType
<1>3. ~w.sending /\ w.tries < MaxTries /\ mem' = WithWindow(mem, mem.next, w1)
  BY DEF StartDigest, MayTry
<1> HIDE DEF w
<1>4. tries \in 0..MaxTries /\ w.tries < tries
  <2>1. w.tries \in 0..MaxTries BY <1>2 DEF Window
  <2> QED BY <2>1, <1>3, NotificationsAssumption
<1>5. nextTry \in Nat BY <1>1, NotificationsAssumption
<1> HIDE DEF tries, nextTry
<1>6. w1 \in Window /\ w1.sending /\ w1.alerts = w.alerts /\ w1.tries = tries
  BY <1>2, <1>4, <1>5 DEF Window
<1> HIDE DEF w1
<1>7. /\ Shaped(mem')
      /\ mem'.next = mem.next /\ mem'.pending = mem.pending
      /\ DOMAIN mem'.windows = DOMAIN mem.windows \cup {mem.next}
      /\ mem'.windows[mem.next] = w1
      /\ \A e \in DOMAIN mem.windows : e # mem.next => mem'.windows[e] = mem.windows[e]
  BY <1>1, <1>3, <1>6, WithWindowFields
<1> QED BY <1>3, <1>4, <1>6, <1>7 DEF w

LEMMA ReleasedDigest ==
  ASSUME NEW n, Shaped(n), NEW e \in DOMAIN n.windows
  PROVE  LET m == [n EXCEPT !.windows[e].sending = FALSE] IN
           /\ Shaped(m)
           /\ m.next = n.next /\ m.pending = n.pending
           /\ DOMAIN m.windows = DOMAIN n.windows
           /\ \A f \in DOMAIN n.windows : f # e => m.windows[f] = n.windows[f]
           /\ m.windows[e].alerts = n.windows[e].alerts
           /\ m.windows[e].tries = n.windows[e].tries
<1> DEFINE w == [n.windows[e] EXCEPT !.sending = FALSE]
           m == [n EXCEPT !.windows[e].sending = FALSE]
<1>1. /\ w \in Window
      /\ w.alerts = n.windows[e].alerts /\ w.tries = n.windows[e].tries
      /\ m = WithWindow(n, e, w)
  BY SendingOver
<1>2. e \in Nat BY DEF Shaped
<1> HIDE DEF w, m
<1>3. /\ Shaped(m)
      /\ m.next = n.next /\ m.pending = n.pending
      /\ DOMAIN m.windows = DOMAIN n.windows \cup {e}
      /\ m.windows[e] = w
      /\ \A f \in DOMAIN n.windows : f # e => m.windows[f] = n.windows[f]
  BY <1>1, <1>2, WithWindowFields
<1> QED BY <1>1, <1>3 DEF m

(* DigestRecorded either finishes the digest or releases its window. *)
LEMMA RecordedDigest ==
  ASSUME Shapes, DigestReserved, DigestRecorded
  PROVE  \E n : /\ n = [mem EXCEPT !.windows[mem.next].sending = FALSE]
                /\ Shaped(n)
                /\ n.next = mem.next /\ n.pending = mem.pending
                /\ DOMAIN n.windows = DOMAIN mem.windows
                /\ \A f \in DOMAIN mem.windows :
                     f # mem.next => n.windows[f] = mem.windows[f]
                /\ n.windows[mem.next].alerts = mem.windows[mem.next].alerts
                /\ n.windows[mem.next].tries = mem.windows[mem.next].tries
                /\ \/ mem' = Finished(n)
                   \/ mem' = n /\ step = "rejected"
<1> DEFINE n == [mem EXCEPT !.windows[mem.next].sending = FALSE]
<1>1. Shaped(mem) /\ mem.next \in DOMAIN mem.windows /\ step \in {"accepted", "rejected"}
  BY DEF Shapes, DigestReserved, DigestRecorded
<1>2. \/ mem' = Finished(n)
      \/ mem' = n /\ step = "rejected"
  <2>1. mem' = IF step = "accepted" \/ ~MayTry(n.windows[n.next]) THEN Finished(n) ELSE n
    BY DEF DigestRecorded
  <2> HIDE DEF n
  <2> QED BY <1>1, <2>1
<1>3. /\ Shaped(n)
      /\ n.next = mem.next /\ n.pending = mem.pending
      /\ DOMAIN n.windows = DOMAIN mem.windows
      /\ \A f \in DOMAIN mem.windows : f # mem.next => n.windows[f] = mem.windows[f]
      /\ n.windows[mem.next].alerts = mem.windows[mem.next].alerts
      /\ n.windows[mem.next].tries = mem.windows[mem.next].tries
  BY <1>1, ReleasedDigest
<1> QED BY <1>2, <1>3

-----------------------------------------------------------------------------
(* Types, and what is reserved before it is sent.                          *)

Base == Shapes /\ QueuePlaced /\ SentFromDisk /\ DigestReserved

LEMMA EmptyStateShaped ==
  ASSUME Init
  PROVE  Shaped(mem) /\ mem.next = DigestEnd(0) /\ DOMAIN mem.windows = {}
         /\ mem.pending = {}
<1>1. DigestEnd(0) \in Nat
  <2>1. digestTime \in 0..(DayLength - 1) BY NotificationsAssumption DEF Init
  <2> QED BY <2>1, NextDigest
<1> DEFINE none == [e \in {} |-> EmptyWindow]
<1>2. DOMAIN none = {} /\ none \in [DOMAIN none -> Window] OBVIOUS
<1>3. mem = [next |-> DigestEnd(0), windows |-> none,
             streak |-> [a \in Account |-> 0], pending |-> {}]
  BY DEF Init
<1> HIDE DEF none
<1> QED BY <1>1, <1>2, <1>3 DEF Shaped

LEMMA BaseInit == Init => Base
<1> SUFFICES ASSUME Init PROVE Base OBVIOUS
<1>1. Shaped(mem) BY EmptyStateShaped
<1>2. disk = mem /\ step = "free" BY DEF Init
<1>3. /\ now \in 0..MaxTime /\ digestTime \in 0..(DayLength - 1)
      /\ job \in SUBSET Notice
      /\ alerted \in SUBSET (Key \X Nat) /\ delivered \in SUBSET Nat
      /\ rounds \in Nat /\ failures \in Nat /\ crashes \in Nat /\ reloads \in Nat
  BY NotificationsAssumption DEF Init
<1>4. sends \in [0..(MaxTime + 2 * DayLength) -> Nat] BY DEF Init
<1> QED BY <1>1, <1>2, <1>3, <1>4 DEF Base, Shapes, Steps, QueuePlaced, SentFromDisk,
                            DigestReserved

LEMMA RetypedMemory ==
  ASSUME Base, Next
  PROVE  Shaped(mem')
<1>1. Shapes /\ Shaped(mem) /\ Shaped(disk) /\ job \in SUBSET Notice
  BY DEF Base, Shapes
<1>2. CASE Tick BY <1>1, <1>2 DEF Tick
<1>3. ASSUME NEW outcome \in [Account -> Outcome], NEW mode \in Mode,
             RecordRound(outcome, mode)
      PROVE  Shaped(mem')
  BY <1>1, <1>3, RecordedRound DEF Recorded
<1>4. CASE RoundWritten BY <1>1, <1>4 DEF RoundWritten
<1>5. CASE FlushQueue
  <2> DEFINE queue == mem.pending \ DueNotices
  <2>1. mem' = [mem EXCEPT !.pending = queue] BY <1>5 DEF FlushQueue
  <2>2. queue \in SUBSET Notice /\ \A p \in queue : p.end \in DOMAIN mem.windows
    BY <1>1 DEF Shaped
  <2> HIDE DEF queue
  <2> QED BY <1>1, <2>1, <2>2, QueueFields
<1>6. CASE QueueWritten BY <1>1, <1>6 DEF QueueWritten
<1>7. CASE QueueNotWritten
  <2> DEFINE queue == mem.pending \cup job
  <2>1. mem' = [mem EXCEPT !.pending = queue] BY <1>7 DEF QueueNotWritten
  <2>2. \A p \in job : p.end \in DOMAIN mem.windows
    BY <1>7 DEF QueueNotWritten, Base, QueuePlaced
  <2>3. queue \in SUBSET Notice /\ \A p \in queue : p.end \in DOMAIN mem.windows
    BY <1>1, <2>2 DEF Shaped
  <2> HIDE DEF queue
  <2> QED BY <1>1, <2>1, <2>3, QueueFields
<1>8. CASE SendAlert BY <1>1, <1>8 DEF SendAlert
<1>9. CASE AlertRecorded BY <1>1, <1>9 DEF AlertRecorded
<1>10. CASE StartDigest BY <1>1, <1>10, StartedDigest
<1>11. CASE GiveUpDigest
  <2>1. mem' = Finished(mem) BY <1>11 DEF GiveUpDigest
  <2> QED BY <1>1, <2>1, PlainTypes, FinishedFields
<1>12. CASE DigestWritten
  <2>1. CASE mem' = mem BY <1>1, <2>1
  <2>2. CASE mem' = [mem EXCEPT !.windows[mem.next].sending = FALSE]
    <3>1. mem.next \in DOMAIN mem.windows
      BY <1>12 DEF DigestWritten, Base, DigestReserved
    <3> QED BY <1>1, <2>2, <3>1, ReleasedDigest
  <2> QED BY <1>12, <2>1, <2>2 DEF DigestWritten
<1>13. CASE SendDigest BY <1>1, <1>13 DEF SendDigest
<1>14. CASE DigestRecorded
  <2>1. PICK n : Shaped(n) /\ (mem' = Finished(n) \/ mem' = n)
    BY <1>14, RecordedDigest DEF Base
  <2> QED BY <1>1, <2>1, PlainTypes, FinishedFields
<1>15. CASE OtherWrite BY <1>1, <1>15 DEF OtherWrite
<1>16. CASE Reconfigure BY <1>1, <1>16 DEF Reconfigure
<1>17. CASE CrashAndRestart BY <1>1, <1>17 DEF CrashAndRestart
<1> QED
  BY <1>2, <1>3, <1>4, <1>5, <1>6, <1>7, <1>8, <1>9, <1>10, <1>11, <1>12,
     <1>13, <1>14, <1>15, <1>16, <1>17 DEF Next

LEMMA WrittenMemory ==
  ASSUME Next
  PROVE  disk' = disk \/ disk' = mem'
<1>1. ASSUME NEW outcome \in [Account -> Outcome], NEW mode \in Mode,
             RecordRound(outcome, mode)
      PROVE  disk' = disk
  BY <1>1 DEF RecordRound
<1>2. CASE Tick \/ FlushQueue \/ SendAlert \/ StartDigest \/ SendDigest
  BY <1>2 DEF Tick, FlushQueue, SendAlert, StartDigest, SendDigest
<1>3. CASE RoundWritten \/ QueueWritten \/ QueueNotWritten \/ AlertRecorded
  BY <1>3 DEF RoundWritten, QueueWritten, QueueNotWritten, AlertRecorded,
              WriteTried, Written, NotWritten
<1>4. CASE GiveUpDigest \/ DigestWritten \/ DigestRecorded
  BY <1>4 DEF GiveUpDigest, DigestWritten, DigestRecorded, WriteTried, Written,
              NotWritten
<1>5. CASE OtherWrite \/ Reconfigure \/ CrashAndRestart
  BY <1>5 DEF OtherWrite, Reconfigure, CrashAndRestart, Written
<1> QED BY <1>1, <1>2, <1>3, <1>4, <1>5 DEF Next

(* The clock, the settings and the counters of the bounds. *)
LEMMA RetypedClock ==
  ASSUME Shapes, Next
  PROVE  /\ now' \in 0..MaxTime /\ digestTime' \in 0..(DayLength - 1)
         /\ rounds' \in Nat /\ failures' \in Nat /\ crashes' \in Nat
         /\ reloads' \in Nat
         /\ now' # now => now' = now + 1 /\ step = "free" /\ step' = "free"
<1>1. /\ now \in 0..MaxTime /\ digestTime \in 0..(DayLength - 1)
      /\ rounds \in Nat /\ failures \in Nat /\ crashes \in Nat /\ reloads \in Nat
  BY DEF Shapes
<1>2. MaxTime \in Nat /\ DigestTime \subseteq 0..(DayLength - 1)
  BY NotificationsAssumption
<1>3. CASE Tick BY <1>1, <1>2, <1>3 DEF Tick, bounds
<1>4. ASSUME NEW outcome \in [Account -> Outcome], NEW mode \in Mode,
             RecordRound(outcome, mode)
      PROVE  /\ now' = now /\ digestTime' = digestTime /\ failures' = failures
             /\ crashes' = crashes /\ reloads' = reloads /\ rounds' = rounds + 1
  BY <1>4 DEF RecordRound
<1>5. CASE FlushQueue \/ SendAlert \/ StartDigest \/ SendDigest
  BY <1>1, <1>5 DEF FlushQueue, SendAlert, StartDigest, SendDigest, bounds
<1>6. CASE RoundWritten \/ QueueWritten \/ QueueNotWritten \/ AlertRecorded
  BY <1>1, <1>6 DEF RoundWritten, QueueWritten, QueueNotWritten, AlertRecorded,
                    WriteTried, Written, NotWritten, bounds
<1>7. CASE GiveUpDigest \/ DigestWritten \/ DigestRecorded
  BY <1>1, <1>7 DEF GiveUpDigest, DigestWritten, DigestRecorded, WriteTried,
                    Written, NotWritten, bounds
<1>8. CASE OtherWrite BY <1>1, <1>8 DEF OtherWrite, Written, bounds
<1>9. CASE Reconfigure BY <1>1, <1>2, <1>9 DEF Reconfigure
<1>10. CASE CrashAndRestart BY <1>1, <1>10 DEF CrashAndRestart
<1> QED
  BY <1>1, <1>3, <1>4, <1>5, <1>6, <1>7, <1>8, <1>9, <1>10 DEF Next

(* Where the holder of notificationMu is, and what it has sent. *)
LEMMA RetypedSends ==
  ASSUME Shapes, Next
  PROVE  /\ step' \in Steps /\ job' \in SUBSET Notice
         /\ alerted' \in SUBSET (Key \X Nat) /\ delivered' \in SUBSET Nat
         /\ sends' \in [0..(MaxTime + 2 * DayLength) -> Nat]
<1>1. /\ step \in Steps /\ job \in SUBSET Notice
      /\ alerted \in SUBSET (Key \X Nat) /\ delivered \in SUBSET Nat
      /\ sends \in [0..(MaxTime + 2 * DayLength) -> Nat]
  BY DEF Shapes
<1>2. mem.pending \subseteq Notice /\ mem.next \in Nat BY DEF Shapes, Shaped
<1>3. CASE Tick BY <1>1, <1>3 DEF Tick, sent
<1>4. ASSUME NEW outcome \in [Account -> Outcome], NEW mode \in Mode,
             RecordRound(outcome, mode)
      PROVE  /\ step' \in Steps /\ job' \in SUBSET Notice
             /\ UNCHANGED sent
  <2>1. job' \in SUBSET Notice BY <1>4, RecordedRound DEF Recorded
  <2> QED BY <1>4, <2>1 DEF RecordRound, Steps
<1>5. CASE RoundWritten BY <1>1, <1>5 DEF RoundWritten, sent, Steps
<1>6. CASE FlushQueue BY <1>1, <1>2, <1>6 DEF FlushQueue, sent, Steps, DueNotices
<1>7. CASE QueueWritten \/ QueueNotWritten
  BY <1>1, <1>7 DEF QueueWritten, QueueNotWritten, sent, Steps
<1>8. CASE SendAlert
  <2>1. \A p \in job : <<p.key, p.end>> \in Key \X Nat BY <1>1 DEF Notice
  <2> QED BY <1>1, <1>8, <2>1 DEF SendAlert, Steps
<1>9. CASE AlertRecorded BY <1>1, <1>9 DEF AlertRecorded, sent, Steps
<1>10. CASE StartDigest \/ GiveUpDigest \/ DigestWritten
  BY <1>1, <1>10 DEF StartDigest, GiveUpDigest, DigestWritten, sent, Steps
<1>11. CASE SendDigest
  <2>1. step' \in Steps /\ job' \in SUBSET Notice /\ alerted' \in SUBSET (Key \X Nat)
    BY <1>1, <1>11 DEF SendDigest, Steps
  <2>2. delivered' \in SUBSET Nat BY <1>1, <1>2, <1>11 DEF SendDigest
  <2>3. sends' = [sends EXCEPT ![mem.next] = @ + 1] BY <1>11 DEF SendDigest
  <2> DEFINE ends == 0..(MaxTime + 2 * DayLength)
  <2>4. sends' \in [ends -> Nat]
    <3>1. sends \in [ends -> Nat] BY <1>1
    <3> HIDE DEF ends
    <3>2. sends' = [e \in ends |-> IF e = mem.next THEN sends[e] + 1 ELSE sends[e]]
      BY <2>3, <3>1
    <3>3. \A e \in ends : sends[e] \in Nat /\ sends[e] + 1 \in Nat BY <3>1
    <3> QED BY <3>2, <3>3
  <2> QED BY <2>1, <2>2, <2>4
<1>12. CASE DigestRecorded BY <1>1, <1>12 DEF DigestRecorded, sent, Steps
<1>13. CASE OtherWrite \/ Reconfigure \/ CrashAndRestart
  BY <1>1, <1>13 DEF OtherWrite, Reconfigure, CrashAndRestart, sent, Steps
<1> QED
  BY <1>1, <1>3, <1>4, <1>5, <1>6, <1>7, <1>8, <1>9, <1>10, <1>11, <1>12,
     <1>13 DEF Next, sent

LEMMA BaseNext ==
  ASSUME Base, [Next]_vars
  PROVE  Base'
<1>1. CASE UNCHANGED vars
  <2>1. /\ UNCHANGED <<now, digestTime, mem, disk, step, job, alerted, sends,
                       delivered, rounds, failures, crashes, reloads>>
    BY <1>1 DEF vars, sent, bounds
  <2> QED BY <2>1 DEF Base, Shapes, Shaped, QueuePlaced, SentFromDisk,
                      DigestReserved, DueNotices, Quiet
<1>2. CASE Next
  <2>1. Shapes'
    <3>1. Shaped(mem)' BY <1>2, RetypedMemory
    <3>2. Shaped(disk)'
      <4>1. Shaped(disk) BY DEF Base, Shapes
      <4> QED BY <1>2, <3>1, <4>1, WrittenMemory DEF Shaped
    <3> QED BY <1>2, <3>1, <3>2, RetypedClock, RetypedSends DEF Base, Shapes
  <2>2. QueuePlaced' /\ SentFromDisk'
    <3>1. CASE Tick
      BY <1>2, <3>1 DEF Tick, Base, QueuePlaced, SentFromDisk
    <3>2. ASSUME NEW outcome \in [Account -> Outcome], NEW mode \in Mode,
                 RecordRound(outcome, mode)
          PROVE  QueuePlaced' /\ SentFromDisk'
      BY <3>2 DEF RecordRound, QueuePlaced, SentFromDisk
    <3>3. CASE RoundWritten
      BY <3>3 DEF RoundWritten, Written, QueuePlaced, SentFromDisk
    <3>4. CASE FlushQueue
      <4>1. /\ job' \subseteq mem.pending /\ step' = "flush"
            /\ mem' = [mem EXCEPT !.pending = mem.pending \ DueNotices]
        BY <3>4 DEF FlushQueue, DueNotices
      <4>2. Shaped(mem) BY DEF Base, Shapes
      <4>3. mem'.windows = mem.windows BY <4>1, <4>2 DEF Shaped
      <4>4. \A p \in job' : p.end \in DOMAIN mem'.windows
        BY <4>1, <4>2, <4>3 DEF Shaped
      <4> QED BY <4>1, <4>4 DEF QueuePlaced, SentFromDisk
    <3>5. CASE QueueWritten \/ QueueNotWritten
      BY <3>5 DEF QueueWritten, QueueNotWritten, Written, QueuePlaced, SentFromDisk
    <3>6. CASE SendAlert
      BY <3>6 DEF SendAlert, Base, QueuePlaced, SentFromDisk
    <3>7. CASE AlertRecorded
      BY <3>7 DEF AlertRecorded, QueuePlaced, SentFromDisk
    <3>8. CASE StartDigest \/ GiveUpDigest
      BY <3>8 DEF StartDigest, GiveUpDigest, QueuePlaced, SentFromDisk
    <3>9. CASE DigestWritten
      BY <3>9 DEF DigestWritten, Written, QueuePlaced, SentFromDisk
    <3>10. CASE SendDigest
      BY <3>10 DEF SendDigest, Base, QueuePlaced, SentFromDisk
    <3>11. CASE DigestRecorded
      BY <3>11 DEF DigestRecorded, QueuePlaced, SentFromDisk
    <3>12. CASE OtherWrite
      BY <3>12 DEF OtherWrite, Written, Base, QueuePlaced, SentFromDisk
    <3>13. CASE Reconfigure \/ CrashAndRestart
      BY <3>13 DEF Reconfigure, CrashAndRestart, QueuePlaced, SentFromDisk
    <3> QED
      BY <1>2, <3>1, <3>2, <3>3, <3>4, <3>5, <3>6, <3>7, <3>8, <3>9, <3>10,
         <3>11, <3>12, <3>13 DEF Next
  <2>3. DigestReserved'
    <3>1. CASE step' \notin {"digest", "digestSend", "accepted", "rejected"}
      BY <3>1 DEF DigestReserved
    <3>2. CASE StartDigest
      <4>1. /\ Shaped(mem') /\ mem'.next = mem.next /\ mem'.pending = mem.pending
            /\ DOMAIN mem'.windows = DOMAIN mem.windows \cup {mem.next}
            /\ mem'.windows[mem.next].sending
        BY <3>2, StartedDigest DEF Base
      <4>2. now' = now /\ now >= mem.next /\ DueNotices = {} BY <3>2 DEF StartDigest
      <4>3. DueNotices' = {} BY <4>1, <4>2 DEF DueNotices, Quiet
      <4>4. mem'.next <= now' BY <4>1, <4>2, PlainTypes DEF Base
      <4> QED BY <4>1, <4>3, <4>4 DEF DigestReserved
    <3>3. CASE UNCHANGED <<mem, now>> /\ step \in {"digest", "digestSend", "accepted", "rejected"}
      BY <3>3 DEF Base, DigestReserved, DueNotices, Quiet
    <3>4. CASE Tick \/ RoundWritten \/ FlushQueue \/ QueueWritten \/ QueueNotWritten
      BY <3>1, <3>4 DEF Tick, RoundWritten, FlushQueue, QueueWritten, QueueNotWritten
    <3>5. CASE SendAlert \/ AlertRecorded \/ DigestRecorded \/ Reconfigure \/ CrashAndRestart
      BY <3>1, <3>5 DEF SendAlert, AlertRecorded, DigestRecorded, Reconfigure,
                        CrashAndRestart
    <3>6. ASSUME NEW outcome \in [Account -> Outcome], NEW mode \in Mode,
                 RecordRound(outcome, mode)
          PROVE  DigestReserved'
      BY <3>1, <3>6 DEF RecordRound
    <3>7. CASE DigestWritten BY <3>1, <3>3, <3>7 DEF DigestWritten
    <3>8. CASE SendDigest BY <3>3, <3>8 DEF SendDigest
    <3>9. CASE OtherWrite BY <3>1, <3>3, <3>9 DEF OtherWrite
    <3>10. CASE GiveUpDigest BY <3>1, <3>10 DEF GiveUpDigest
    <3> QED
      BY <1>2, <3>2, <3>4, <3>5, <3>6, <3>7, <3>8, <3>9, <3>10 DEF Next
  <2> QED BY <2>1, <2>2, <2>3 DEF Base
<1> QED BY <1>1, <1>2

LEMMA BaseHolds == Spec => []Base
<1>1. Init => Base BY BaseInit
<1>2. Base /\ [Next]_vars => Base' BY BaseNext
<1> QED BY <1>1, <1>2, PTL DEF Spec

(* TypeOK holds for every value of the constants. *)
THEOREM TypeCorrect == Spec => []TypeOK
<1>1. Base => TypeOK
  <2> SUFFICES ASSUME Base PROVE TypeOK OBVIOUS
  <2>1. ASSUME NEW n, Shaped(n) PROVE StateOK(n)
    <3>1. n.next \in Nat /\ n.streak \in [Account -> Nat] /\ n.pending \in SUBSET Notice
      BY <2>1 DEF Shaped
    <3>2. \A e \in DOMAIN n.windows : e \in Nat /\ n.windows[e] \in Window
      BY <2>1 DEF Shaped
    <3>3. \A p \in n.pending : p.end \in DOMAIN n.windows BY <2>1 DEF Shaped
    <3> QED BY <3>1, <3>2, <3>3 DEF StateOK
  <2>2. now \in Nat /\ digestTime \in 0..(DayLength - 1) BY PlainTypes DEF Base
  <2>3. StateOK(mem) /\ StateOK(disk) BY <2>1, PlainTypes DEF Base
  <2>4. sends \in [DOMAIN sends -> Nat] BY DEF Base, Shapes
  <2> QED BY <2>2, <2>3, <2>4 DEF Base, Shapes, Steps, TypeOK
<1> QED BY <1>1, BaseHolds, PTL

-----------------------------------------------------------------------------
(* Digests.                                                                *)

LEMMA LaterKept ==
  ASSUME NEW n, NEW e \in Nat, NEW t \in Nat, NEW later \in Nat, t <= later,
         RecordKept(n, t, e)
  PROVE  RecordKept(n, later, e)
<1>1. later <= e + KeepTime => t <= e + KeepTime BY NotificationsAssumption
<1> QED BY <1>1 DEF RecordKept

(* No step but the send of a digest forgets one that was sent. *)
LEMMA MemoryKept ==
  ASSUME Base, DigestsSettled, Next, ~SendDigest, NEW e \in SentDigests
  PROVE  RecordKept(mem', now', e)
<1>1. /\ Shapes /\ Shaped(mem) /\ Shaped(disk) /\ now \in Nat
      /\ digestTime \in 0..(DayLength - 1) /\ mem.next \in Nat
  BY PlainTypes DEF Base
<1>2. e \in Nat /\ e <= now BY <1>1 DEF SentDigests, DigestsSettled, Shapes
<1>3. RecordKept(mem, now, e) /\ RecordKept(disk, now, e)
  BY DEF DigestsSettled, Settled
<1>4. now' \in Nat /\ now <= now' BY <1>1, NotificationsAssumption, RetypedClock
<1>5. RecordKept(mem, now', e) /\ RecordKept(disk, now', e)
  BY <1>1, <1>2, <1>3, <1>4, LaterKept
<1>6. CASE mem' = mem \/ mem' = disk BY <1>5, <1>6
<1>7. CASE Tick \/ RoundWritten \/ QueueWritten \/ SendAlert \/ AlertRecorded \/ OtherWrite
  BY <1>6, <1>7 DEF Tick, RoundWritten, QueueWritten, SendAlert, AlertRecorded, OtherWrite
<1>8. CASE Reconfigure \/ CrashAndRestart
  BY <1>6, <1>8 DEF Reconfigure, CrashAndRestart
<1>9. ASSUME NEW outcome \in [Account -> Outcome], NEW mode \in Mode,
             RecordRound(outcome, mode)
      PROVE  RecordKept(mem', now', e)
  <2> DEFINE end == DigestEnd(now)  cutoff == now - KeepTime
  <2>1. end \in Nat /\ now < end BY <1>1, NextDigest
  <2>2. /\ mem'.next = mem.next
        /\ DOMAIN mem'.windows = {f \in DOMAIN mem.windows : f >= cutoff} \cup {end}
        /\ \A f \in DOMAIN mem.windows :
             f >= cutoff /\ f # end => mem'.windows[f] = mem.windows[f]
    BY <1>1, <1>9, RecordedRound DEF Recorded
  <2>3. now' = now BY <1>9 DEF RecordRound
  <2>4. now <= e + KeepTime => e >= cutoff /\ e # end
    BY <1>1, <1>2, <2>1, NotificationsAssumption
  <2> HIDE DEF cutoff, end
  <2> QED BY <1>3, <2>2, <2>3, <2>4 DEF RecordKept
<1>10. CASE FlushQueue \/ QueueNotWritten
  <2>1. mem'.next = mem.next /\ mem'.windows = mem.windows
    BY <1>1, <1>10 DEF FlushQueue, QueueNotWritten, Shaped
  <2> QED BY <1>5, <2>1 DEF RecordKept
<1>11. CASE StartDigest
  <2>1. /\ mem'.next = mem.next
        /\ DOMAIN mem'.windows = DOMAIN mem.windows \cup {mem.next}
        /\ mem'.windows[mem.next].sending
        /\ WindowOf(mem, mem.next).tries < mem'.windows[mem.next].tries
    BY <1>1, <1>11, StartedDigest
  <2>2. CASE mem.next > e BY <2>1, <2>2 DEF RecordKept
  <2>3. CASE mem.next = e
    <3>1. SUFFICES ASSUME now' <= e + KeepTime
                   PROVE  sends[e] <= mem'.windows[e].tries
      BY <2>1, <2>3 DEF RecordKept
    <3>2. e \in DOMAIN mem.windows /\ sends[e] <= mem.windows[e].tries
      BY <1>1, <1>5, <2>3, <3>1 DEF RecordKept
    <3>3. WindowOf(mem, e) = mem.windows[e] BY <1>1, <1>2, <3>2, WindowOfType
    <3>4. sends[e] \in Nat /\ mem.windows[e].tries \in Nat
          /\ mem'.windows[e].tries \in Nat
      <4>1. mem.windows[e] \in Window BY <1>1, <3>2 DEF Shaped
      <4>2. Shaped(mem') BY <1>1, <1>11, StartedDigest
      <4>3. mem'.windows[e] \in Window BY <2>1, <2>3, <4>2 DEF Shaped
      <4>4. sends[e] \in Nat BY <1>1 DEF Shapes, SentDigests
      <4> QED BY <4>1, <4>3, <4>4, NotificationsAssumption DEF Window
    <3> QED BY <2>1, <2>3, <3>2, <3>3, <3>4
  <2> QED BY <1>1, <1>2, <1>3, <2>2, <2>3 DEF RecordKept
<1>12. CASE GiveUpDigest
  <2>1. mem' = Finished(mem) /\ now' = now BY <1>12 DEF GiveUpDigest
  <2>2. now < mem'.next /\ mem'.next \in Nat
    BY <1>1, <2>1, FinishedFields DEF Shaped
  <2>3. mem'.next > e BY <1>1, <1>2, <2>2
  <2> QED BY <2>3 DEF RecordKept
<1>13. ASSUME step \in {"digest", "rejected"}, now' = now,
              mem' = [mem EXCEPT !.windows[mem.next].sending = FALSE]
       PROVE  RecordKept(mem', now', e)
  <2>1. mem.next \in DOMAIN mem.windows BY <1>13 DEF Base, DigestReserved
  <2>2. /\ mem'.next = mem.next
        /\ DOMAIN mem'.windows = DOMAIN mem.windows
        /\ mem'.windows[mem.next].tries = mem.windows[mem.next].tries
    BY <1>1, <1>13, <2>1, ReleasedDigest
  <2>3. now <= mem.next + KeepTime => mem.next \notin delivered
    BY <1>13 DEF DigestsSettled
  <2> QED BY <1>3, <1>13, <2>2, <2>3 DEF RecordKept
<1>14. CASE DigestWritten
  <2>1. now' = now /\ step = "digest" BY <1>14 DEF DigestWritten
  <2> QED BY <1>6, <1>13, <1>14, <2>1 DEF DigestWritten
<1>15. CASE DigestRecorded
  <2>1. PICK n : /\ n = [mem EXCEPT !.windows[mem.next].sending = FALSE]
                 /\ Shaped(n)
                 /\ mem' = Finished(n) \/ (mem' = n /\ step = "rejected")
    BY <1>1, <1>15, RecordedDigest DEF Base
  <2>2. now' = now BY <1>15 DEF DigestRecorded
  <2>3. CASE mem' = Finished(n)
    <3>1. now < mem'.next /\ mem'.next \in Nat
      BY <1>1, <2>1, <2>3, FinishedFields DEF Shaped
    <3>2. mem'.next > e BY <1>1, <1>2, <3>1
    <3> QED BY <3>2 DEF RecordKept
  <2>4. CASE mem' = n /\ step = "rejected" BY <1>13, <2>1, <2>2, <2>4
  <2> QED BY <2>1, <2>3, <2>4
<1> QED
  BY <1>7, <1>8, <1>9, <1>10, <1>11, <1>12, <1>14, <1>15 DEF Next

LEMMA DigestsInit == Init => DigestsSettled
<1> SUFFICES ASSUME Init PROVE DigestsSettled OBVIOUS
<1>1. SentDigests = {} BY DEF Init, SentDigests
<1>2. step = "free" /\ delivered = {} BY DEF Init
<1> QED BY <1>1, <1>2 DEF DigestsSettled

LEMMA DigestsNext ==
  ASSUME Base, Base', DigestsSettled, [Next]_vars
  PROVE  DigestsSettled'
<1>1. /\ Shapes /\ Shaped(mem) /\ mem.next \in Nat /\ now \in Nat /\ now <= MaxTime
  BY PlainTypes DEF Base
<1>2. CASE UNCHANGED vars
  <2>1. UNCHANGED <<now, mem, disk, step, sends, delivered>>
    BY <1>2 DEF vars, sent
  <2> QED BY <2>1 DEF DigestsSettled, Settled, RecordKept, SentDigests
<1>3. ASSUME Next, ~SendDigest
      PROVE  DigestsSettled'
  <2>1. UNCHANGED <<sends, delivered>>
    <3>1. ASSUME NEW outcome \in [Account -> Outcome], NEW mode \in Mode,
                 RecordRound(outcome, mode)
          PROVE  UNCHANGED <<sends, delivered>>
      BY <3>1 DEF RecordRound, sent
    <3>2. CASE Tick \/ RoundWritten \/ FlushQueue \/ QueueWritten \/ QueueNotWritten
      BY <3>2 DEF Tick, RoundWritten, FlushQueue, QueueWritten, QueueNotWritten, sent
    <3>3. CASE SendAlert \/ AlertRecorded \/ StartDigest \/ GiveUpDigest \/ DigestWritten
      BY <3>3 DEF SendAlert, AlertRecorded, StartDigest, GiveUpDigest, DigestWritten, sent
    <3>4. CASE DigestRecorded \/ OtherWrite \/ Reconfigure \/ CrashAndRestart
      BY <3>4 DEF DigestRecorded, OtherWrite, Reconfigure, CrashAndRestart, sent
    <3> QED BY <1>3, <3>1, <3>2, <3>3, <3>4 DEF Next
  <2>2. SentDigests' = SentDigests /\ delivered' \subseteq SentDigests'
    BY <2>1 DEF SentDigests, DigestsSettled
  <2>3. now' \in Nat /\ now <= now' BY <1>1, <1>3, RetypedClock, NotificationsAssumption
  <2>4. ASSUME NEW e \in SentDigests
        PROVE  e <= now' /\ RecordKept(mem', now', e) /\ RecordKept(disk', now', e)
    <3>1. e \in Nat /\ e <= now BY <1>1 DEF SentDigests, DigestsSettled, Shapes
    <3>2. RecordKept(mem', now', e) BY <1>3, MemoryKept
    <3>3. RecordKept(disk, now', e)
      <4>1. RecordKept(disk, now, e) BY DEF DigestsSettled, Settled
      <4> QED BY <1>1, <2>3, <3>1, <4>1, LaterKept
    <3>4. RecordKept(disk', now', e) BY <1>3, <3>2, <3>3, WrittenMemory
    <3> QED BY <1>1, <2>3, <3>1, <3>2, <3>4
  <2>5. ASSUME NEW e \in SentDigests'
        PROVE  e <= now' /\ Settled(mem, e)' /\ Settled(disk, e)'
    <3>1. e \in SentDigests BY <2>2
    <3>2. e <= now' /\ RecordKept(mem', now', e) /\ RecordKept(disk', now', e)
      BY <2>4, <3>1
    <3>3. RecordKept(mem, now, e)' /\ RecordKept(disk, now, e)'
      BY <2>1, <3>2 DEF RecordKept
    <3> QED BY <3>2, <3>3 DEF Settled
  <2>6. ASSUME now' <= mem'.next + KeepTime
        PROVE  /\ step' \in {"digest", "digestSend"} =>
                    sends'[mem'.next] < mem'.windows[mem'.next].tries
               /\ step' \in {"digest", "digestSend", "rejected"} =>
                    mem'.next \notin delivered'
    <3>1. CASE UNCHANGED <<now, mem>> /\ step \in {"digest", "digestSend"}
               /\ step' \in {"digest", "digestSend", "rejected"}
      BY <2>1, <2>6, <3>1 DEF DigestsSettled
    <3>2. CASE step' \notin {"digest", "digestSend", "rejected"}
      BY <3>2
    <3>3. CASE step' = step /\ UNCHANGED <<now, mem>>
      BY <2>1, <2>6, <3>3 DEF DigestsSettled
    <3>4. CASE StartDigest
      <4> DEFINE e == mem.next
                 w == WindowOf(mem, e)
      <4>1. /\ mem'.next = e /\ Shaped(mem') /\ DOMAIN mem'.windows = DOMAIN mem.windows \cup {e}
            /\ w.tries < mem'.windows[e].tries /\ ~w.sending
        BY <1>1, <3>4, StartedDigest
      <4>2. now' = now /\ e <= now BY <1>1, <3>4 DEF StartDigest
      <4>3. e \in DOMAIN sends /\ sends[e] \in Nat
        <5>1. e \in 0..(MaxTime + 2 * DayLength)
          BY <1>1, <4>2, NotificationsAssumption
        <5> QED BY <1>1, <5>1 DEF Shapes
      <4>4. w \in Window /\ w.tries \in Nat
        <5>1. w \in Window BY <1>1, WindowOfType
        <5> QED BY <5>1, NotificationsAssumption DEF Window
      <4>5. mem'.windows[e].tries \in Nat
        <5>1. mem'.windows[e] \in Window BY <4>1 DEF Shaped
        <5> QED BY <5>1, NotificationsAssumption DEF Window
      <4>6. CASE e \in SentDigests
        <5>1. Settled(mem, e) BY <4>6 DEF DigestsSettled
        <5>2. /\ e \in DOMAIN mem.windows
              /\ sends[e] <= mem.windows[e].tries
              /\ e \in delivered => mem.windows[e].sending
          BY <1>1, <2>6, <4>1, <4>2, <5>1 DEF Settled, RecordKept
        <5>3. w = mem.windows[e] BY <1>1, <5>2, WindowOfType
        <5>4. sends[e] <= w.tries /\ e \notin delivered BY <4>1, <5>2, <5>3
        <5>5. sends[e] < mem'.windows[e].tries BY <4>1, <4>3, <4>4, <4>5, <5>4
        <5> QED BY <2>1, <4>1, <5>4, <5>5
      <4>7. CASE e \notin SentDigests
        <5>1. sends[e] = 0 BY <4>3, <4>7 DEF SentDigests
        <5>2. sends[e] < mem'.windows[e].tries BY <4>1, <4>4, <4>5, <5>1
        <5>3. e \notin delivered BY <4>7 DEF DigestsSettled
        <5> QED BY <2>1, <4>1, <5>2, <5>3
      <4> QED BY <4>6, <4>7
    <3>5. CASE Tick
      <4>1. step' = "free" BY <3>5 DEF Tick
      <4> QED BY <3>2, <4>1
    <3>6. CASE RoundWritten \/ FlushQueue \/ QueueWritten \/ QueueNotWritten \/ SendAlert
      BY <3>2, <3>6 DEF RoundWritten, FlushQueue, QueueWritten, QueueNotWritten, SendAlert
    <3>7. CASE AlertRecorded \/ DigestRecorded \/ Reconfigure \/ CrashAndRestart
      BY <3>2, <3>7 DEF AlertRecorded, DigestRecorded, Reconfigure, CrashAndRestart
    <3>8. CASE GiveUpDigest BY <3>2, <3>8 DEF GiveUpDigest
    <3>9. CASE DigestWritten BY <3>1, <3>2, <3>9 DEF DigestWritten
    <3>10. CASE OtherWrite BY <3>3, <3>10 DEF OtherWrite
    <3>11. ASSUME NEW outcome \in [Account -> Outcome], NEW mode \in Mode,
                  RecordRound(outcome, mode)
           PROVE  step' = "record"
      BY <3>11 DEF RecordRound
    <3> QED
      BY <1>3, <3>2, <3>4, <3>5, <3>6, <3>7, <3>8, <3>9, <3>10, <3>11 DEF Next
  <2> QED BY <2>2, <2>5, <2>6 DEF DigestsSettled
<1>4. CASE SendDigest
  <2> DEFINE e == mem.next
  <2>1. /\ step = "digestSend" /\ UNCHANGED <<now, mem, disk>>
        /\ sends' = [sends EXCEPT ![e] = @ + 1]
        /\ \/ delivered' = delivered \cup {e} /\ step' = "accepted"
           \/ delivered' = delivered /\ step' = "rejected"
    BY <1>4 DEF SendDigest
  <2>2. disk = mem /\ e <= now /\ e \in DOMAIN mem.windows /\ mem.windows[e].sending
    BY <2>1 DEF Base, SentFromDisk, DigestReserved
  <2>3. DOMAIN sends = 0..(MaxTime + 2 * DayLength) /\ \A f \in DOMAIN sends : sends[f] \in Nat
    BY <1>1 DEF Shapes
  <2>4. e \in DOMAIN sends BY <1>1, <2>2, <2>3, NotificationsAssumption
  <2>5. /\ DOMAIN sends' = DOMAIN sends /\ sends'[e] = sends[e] + 1
        /\ \A f \in DOMAIN sends : f # e => sends'[f] = sends[f]
    BY <1>1, <2>1, <2>4 DEF Shapes
  <2>6. SentDigests' = SentDigests \cup {e}
    <3>1. sends'[e] > 0 BY <2>3, <2>4, <2>5
    <3> QED BY <2>4, <2>5, <3>1 DEF SentDigests
  <2>7. delivered' \subseteq SentDigests'
    BY <2>1, <2>6 DEF DigestsSettled
  <2>8. RecordKept(mem, now, e)'
    <3>1. CASE now <= e + KeepTime
      <4>1. sends[e] < mem.windows[e].tries BY <2>1, <3>1 DEF DigestsSettled
      <4>2. mem.windows[e].tries \in Nat
        <5>1. mem.windows[e] \in Window BY <1>1, <2>2 DEF Shaped
        <5> QED BY <5>1, NotificationsAssumption DEF Window
      <4>3. sends'[e] <= mem.windows[e].tries BY <2>3, <2>4, <2>5, <4>1, <4>2
      <4> QED BY <2>1, <2>2, <4>3 DEF RecordKept
    <3>2. CASE ~(now <= e + KeepTime) BY <2>1, <3>2 DEF RecordKept
    <3> QED BY <3>1, <3>2
  <2>9. ASSUME NEW f \in SentDigests', f # e
        PROVE  f <= now /\ RecordKept(mem, now, f)'
    <3>1. f \in SentDigests /\ f \in DOMAIN sends BY <2>6, <2>9 DEF SentDigests
    <3>2. f <= now /\ RecordKept(mem, now, f) BY <3>1 DEF DigestsSettled, Settled
    <3>3. sends'[f] = sends[f] /\ (f \in delivered' <=> f \in delivered)
      BY <2>1, <2>5, <2>9, <3>1
    <3> QED BY <2>1, <3>2, <3>3 DEF RecordKept
  <2>10. \A f \in SentDigests' : f <= now' /\ Settled(mem, f)' /\ Settled(disk, f)'
    <3>1. \A f \in SentDigests' : f <= now' /\ RecordKept(mem, now, f)'
      BY <2>1, <2>2, <2>8, <2>9
    <3>2. disk' = mem' BY <2>1, <2>2
    <3> QED BY <3>1, <3>2 DEF Settled, RecordKept
  <2>11. step' \in {"accepted", "rejected"} BY <2>1
  <2>12. now' <= mem'.next + KeepTime /\ step' = "rejected" => mem'.next \notin delivered'
    BY <2>1 DEF DigestsSettled
  <2> QED BY <2>7, <2>10, <2>11, <2>12 DEF DigestsSettled
<1> QED BY <1>2, <1>3, <1>4

(* An accepted digest is not sent again, a rejected one three times at     *)
(* most, across crashes, failed writes and reconfigurations, for a week.   *)
THEOREM DeliveredOnce == Spec => []DigestDeliveredOnce
<1>1. Init => Base /\ DigestsSettled BY BaseInit, DigestsInit
<1>2. Base /\ DigestsSettled /\ [Next]_vars => (Base /\ DigestsSettled)'
  BY BaseNext, DigestsNext
<1>3. Base /\ DigestsSettled => DigestDeliveredOnce
  <2> SUFFICES ASSUME Base, DigestsSettled, step = "digestSend",
                      now <= mem.next + KeepTime
               PROVE  mem.next \notin delivered /\ sends[mem.next] < MaxTries
    BY DEF DigestDeliveredOnce
  <2>1. mem.next \notin delivered /\ sends[mem.next] < mem.windows[mem.next].tries
    BY DEF DigestsSettled
  <2>2. Shaped(mem) /\ mem.next \in DOMAIN mem.windows /\ mem.next <= now
    BY PlainTypes DEF Base, DigestReserved
  <2>3. mem.windows[mem.next].tries \in 0..MaxTries
    <3>1. mem.windows[mem.next] \in Window BY <2>2 DEF Shaped
    <3> QED BY <3>1 DEF Window
  <2>4. sends[mem.next] \in Nat
    <3>1. Shapes /\ now \in Nat /\ now <= MaxTime /\ mem.next \in Nat
      BY PlainTypes DEF Base
    <3>2. mem.next \in 0..(MaxTime + 2 * DayLength)
      BY <2>2, <3>1, NotificationsAssumption
    <3> QED BY <3>1, <3>2 DEF Shapes
  <2> QED BY <2>1, <2>3, <2>4, NotificationsAssumption
<1> QED BY <1>1, <1>2, <1>3, PTL DEF Spec

-----------------------------------------------------------------------------
(* Boundaries.                                                             *)

LEMMA BoundariesInit == Init => Boundaries
<1> SUFFICES ASSUME Init PROVE Boundaries OBVIOUS
<1>1. /\ disk = mem /\ digestTime = FirstDigest BY DEF Init
<1>2. mem.next = DigestEnd(0) /\ DOMAIN mem.windows = {} BY EmptyStateShaped
<1>3. DigestEnd(0) % DayLength = digestTime
  <2>1. digestTime \in 0..(DayLength - 1) BY <1>1, NotificationsAssumption
  <2> QED BY <2>1, NextDigest
<1> QED BY <1>1, <1>2, <1>3 DEF Boundaries, AtDigestTime

LEMMA BoundariesNext ==
  ASSUME DigestTime = {FirstDigest}, Base, Boundaries, [Next]_vars
  PROVE  Boundaries'
<1>1. /\ Shapes /\ Shaped(mem) /\ Shaped(disk) /\ now \in Nat
      /\ digestTime \in 0..(DayLength - 1) /\ digestTime = FirstDigest
      /\ AtDigestTime(mem) /\ AtDigestTime(disk)
  BY PlainTypes DEF Base, Boundaries
<1>2. CASE UNCHANGED vars
  <2>1. UNCHANGED <<digestTime, mem, disk>> BY <1>2 DEF vars
  <2> QED BY <1>1, <2>1 DEF Boundaries, AtDigestTime
<1>3. ASSUME NEW n, Shaped(n), AtDigestTime(n)
      PROVE  AtDigestTime(Finished(n))
  <2> DEFINE m == Finished(n)
  <2>1. /\ DOMAIN m.windows \subseteq DOMAIN n.windows
        /\ m.next % DayLength = digestTime
    BY <1>1, <1>3, FinishedFields
  <2> HIDE DEF m
  <2>2. AtDigestTime(m) BY <1>1, <1>3, <2>1 DEF AtDigestTime
  <2> QED BY <2>2 DEF m
<1>4. ASSUME NEW e \in DOMAIN mem.windows
      PROVE  AtDigestTime([mem EXCEPT !.windows[e].sending = FALSE])
  <2> DEFINE m == [mem EXCEPT !.windows[e].sending = FALSE]
  <2>1. m.next = mem.next /\ DOMAIN m.windows = DOMAIN mem.windows
    BY <1>1, ReleasedDigest
  <2> HIDE DEF m
  <2>2. AtDigestTime(m) BY <1>1, <2>1 DEF AtDigestTime
  <2> QED BY <2>2 DEF m
<1>5. CASE Next
  <2>1. AtDigestTime(mem')
    <3>1. CASE mem' = mem \/ mem' = disk BY <1>1, <3>1
    <3>2. CASE Tick \/ RoundWritten \/ QueueWritten \/ SendAlert \/ AlertRecorded
      BY <3>1, <3>2 DEF Tick, RoundWritten, QueueWritten, SendAlert, AlertRecorded
    <3>3. CASE SendDigest \/ OtherWrite \/ Reconfigure \/ CrashAndRestart
      BY <3>1, <3>3 DEF SendDigest, OtherWrite, Reconfigure, CrashAndRestart
    <3>4. ASSUME NEW outcome \in [Account -> Outcome], NEW mode \in Mode,
                 RecordRound(outcome, mode)
          PROVE  AtDigestTime(mem')
      <4> DEFINE end == DigestEnd(now)
      <4>1. end % DayLength = FirstDigest BY <1>1, NextDigest
      <4>2. /\ mem'.next = mem.next
            /\ DOMAIN mem'.windows \subseteq DOMAIN mem.windows \cup {end}
        BY <1>1, <3>4, RecordedRound DEF Recorded
      <4> QED BY <1>1, <4>1, <4>2 DEF AtDigestTime
    <3>5. CASE FlushQueue \/ QueueNotWritten
      <4>1. mem'.next = mem.next /\ mem'.windows = mem.windows
        BY <1>1, <3>5 DEF FlushQueue, QueueNotWritten, Shaped
      <4> QED BY <1>1, <4>1 DEF AtDigestTime
    <3>6. CASE StartDigest
      <4>1. /\ mem'.next = mem.next
            /\ DOMAIN mem'.windows = DOMAIN mem.windows \cup {mem.next}
        BY <1>1, <3>6, StartedDigest
      <4> QED BY <1>1, <4>1 DEF AtDigestTime
    <3>7. CASE GiveUpDigest BY <1>1, <1>3, <3>7 DEF GiveUpDigest
    <3>8. CASE DigestWritten
      <4>1. mem.next \in DOMAIN mem.windows
        BY <3>8 DEF DigestWritten, Base, DigestReserved
      <4> QED BY <1>4, <3>1, <3>8, <4>1 DEF DigestWritten
    <3>9. CASE DigestRecorded
      <4>1. PICK n : /\ n = [mem EXCEPT !.windows[mem.next].sending = FALSE]
                     /\ Shaped(n) /\ (mem' = Finished(n) \/ mem' = n)
        BY <1>1, <3>9, RecordedDigest DEF Base
      <4>2. mem.next \in DOMAIN mem.windows
        BY <3>9 DEF DigestRecorded, Base, DigestReserved
      <4>3. AtDigestTime(n) BY <1>4, <4>1, <4>2
      <4> QED BY <1>3, <4>1, <4>3
    <3> QED
      BY <1>5, <3>2, <3>3, <3>4, <3>5, <3>6, <3>7, <3>8, <3>9 DEF Next
  <2>2. AtDigestTime(disk') BY <1>1, <1>5, <2>1, WrittenMemory
  <2>3. digestTime' = FirstDigest
    <3>1. CASE Reconfigure BY <3>1 DEF Reconfigure
    <3>2. CASE UNCHANGED digestTime BY <1>1, <3>2
    <3>3. CASE Tick \/ RoundWritten \/ FlushQueue \/ QueueWritten \/ QueueNotWritten
      BY <3>2, <3>3 DEF Tick, RoundWritten, FlushQueue, QueueWritten, QueueNotWritten
    <3>4. CASE SendAlert \/ AlertRecorded \/ StartDigest \/ GiveUpDigest \/ DigestWritten
      BY <3>2, <3>4 DEF SendAlert, AlertRecorded, StartDigest, GiveUpDigest, DigestWritten
    <3>5. CASE SendDigest \/ DigestRecorded \/ OtherWrite \/ CrashAndRestart
      BY <3>2, <3>5 DEF SendDigest, DigestRecorded, OtherWrite, CrashAndRestart
    <3>6. ASSUME NEW outcome \in [Account -> Outcome], NEW mode \in Mode,
                 RecordRound(outcome, mode)
          PROVE  UNCHANGED digestTime
      BY <3>6 DEF RecordRound
    <3> QED BY <1>5, <3>1, <3>2, <3>3, <3>4, <3>5, <3>6 DEF Next
  <2> QED BY <2>1, <2>2, <2>3 DEF Boundaries, AtDigestTime
<1> QED BY <1>2, <1>5

(* A digest that finishes in time drops no window that lasts beyond now. *)
LEMMA NothingAheadDropped ==
  ASSUME NEW n, Shaped(n), now \in Nat, digestTime \in 0..(DayLength - 1),
         digestTime = FirstDigest, AtDigestTime(n), n.next <= now,
         NEW e \in DOMAIN n.windows, e < Finished(n).next
  PROVE  /\ e <= now
         /\ e = n.next \/ n.next + DayLength <= now \/ e + DayLength <= now
<1> DEFINE to == Finished(n).next
<1>1. /\ to % DayLength = digestTime /\ to \in Nat
      /\ to = n.next + DayLength \/ (n.next + DayLength <= now /\ to <= now + DayLength)
  BY FinishedFields DEF AtDigestTime, Shaped
<1>2. e \in Nat /\ n.next \in Nat BY DEF Shaped
<1>3. e % DayLength = FirstDigest /\ n.next % DayLength = FirstDigest BY DEF AtDigestTime
<1>4. e + DayLength <= to BY <1>1, <1>2, <1>3, DaysApart DEF to
<1> HIDE DEF to
<1>5. e <= now BY <1>1, <1>2, <1>4, NotificationsAssumption
<1>6. CASE to = n.next + DayLength
  <2>1. e <= n.next BY <1>1, <1>2, <1>4, <1>6, NotificationsAssumption
  <2>2. CASE e = n.next BY <1>5, <2>2
  <2>3. CASE e < n.next
    <3>1. e + DayLength <= n.next BY <1>2, <1>3, <2>3, DaysApart
    <3> QED BY <1>2, <1>5, <3>1, NotificationsAssumption
  <2> QED BY <1>2, <2>1, <2>2, <2>3
<1> QED BY <1>1, <1>5, <1>6

-----------------------------------------------------------------------------
(* Alerts.                                                                 *)

LEMMA AlertsInit == Init => Alerts
<1> SUFFICES ASSUME Init PROVE Alerts OBVIOUS
<1>1. disk = mem /\ step = "free" /\ alerted = {} BY DEF Init
<1>2. mem.pending = {} BY EmptyStateShaped
<1> QED BY <1>1, <1>2 DEF Alerts, Accounted, JobAccounted

LEMMA ClaimKinds ==
  ASSUME Shapes
  PROVE  /\ \A a \in alerted : a[1] \in Key /\ a[2] \in Nat
         /\ \A p \in mem.pending \cup disk.pending \cup job : p.key \in Key /\ p.end \in Nat
<1>1. alerted \subseteq Key \X Nat BY DEF Shapes
<1>2. mem.pending \cup disk.pending \cup job \subseteq Notice
  BY DEF Shapes, Shaped
<1> QED BY <1>1, <1>2 DEF Notice

(* A state that keeps the claims of n, those of windows that are over and  *)
(* have no notice left excepted, accounts for what n accounts for.         *)
LEMMA AccountedKept ==
  ASSUME Shapes, Accounted(mem), NEW m, m.pending \subseteq mem.pending,
         \A k \in Key, e \in Nat :
           Claimed(mem, k, e) /\ (now < e \/ \E p \in m.pending : p.end = e)
             => Claimed(m, k, e)
  PROVE  Accounted(m)
<1>1. \A a \in alerted : now < a[2] => Claimed(m, a[1], a[2])
  BY ClaimKinds DEF Accounted
<1>2. \A p \in m.pending : Claimed(m, p.key, p.end) /\ <<p.key, p.end>> \notin alerted
  BY ClaimKinds DEF Accounted
<1>3. \A p, q \in m.pending : p.key = q.key /\ p.end = q.end => p = q
  BY DEF Accounted
<1> QED BY <1>1, <1>2, <1>3 DEF Accounted

LEMMA FinishedAccounted ==
  ASSUME Shapes, Boundaries, Accounted(mem), mem.next <= now,
         NEW n, Shaped(n), n.next = mem.next, n.pending = mem.pending,
         DOMAIN n.windows = DOMAIN mem.windows,
         \A e \in DOMAIN mem.windows : n.windows[e].alerts = mem.windows[e].alerts
  PROVE  Accounted(Finished(n))
<1> DEFINE m == Finished(n)
<1>1. /\ Shaped(mem) /\ now \in Nat /\ digestTime \in 0..(DayLength - 1)
      /\ mem.next \in Nat
  BY PlainTypes
<1>2. AtDigestTime(n) /\ digestTime = FirstDigest BY DEF Boundaries, AtDigestTime
<1>3. /\ m.pending = {p \in n.pending : p.end >= m.next}
      /\ DOMAIN m.windows = {e \in DOMAIN n.windows : e >= m.next}
      /\ \A e \in DOMAIN m.windows : m.windows[e] = n.windows[e]
      /\ m.next \in Nat
  BY <1>1, FinishedFields DEF Shaped
<1>4. ASSUME NEW k \in Key, NEW e \in Nat, Claimed(mem, k, e),
             now < e \/ \E p \in m.pending : p.end = e
      PROVE  Claimed(m, k, e)
  <2>1. e \in DOMAIN n.windows /\ k \in n.windows[e].alerts BY <1>4 DEF Claimed
  <2>2. CASE \E p \in m.pending : p.end = e BY <1>3, <2>1, <2>2 DEF Claimed
  <2>3. CASE now < e
    <3>1. ~(e < m.next)
      <4>1. SUFFICES ASSUME e < m.next PROVE FALSE OBVIOUS
      <4>2. e <= now BY <1>1, <1>2, <2>1, <4>1, NothingAheadDropped
      <4> QED BY <1>1, <2>3, <4>2
    <3>2. e >= m.next BY <1>3, <3>1
    <3> QED BY <1>3, <2>1, <3>2 DEF Claimed
  <2> QED BY <1>4, <2>2, <2>3
<1>5. m.pending \subseteq mem.pending BY <1>3
<1> HIDE DEF m
<1>6. Accounted(m) BY <1>4, <1>5, AccountedKept
<1> QED BY <1>6 DEF m

LEMMA RecordedAccounted ==
  ASSUME Base, Alerts, NEW outcome \in [Account -> Outcome], NEW mode \in Mode,
         RecordRound(outcome, mode)
  PROVE  Accounted(mem') /\ JobAccounted'
<1> DEFINE end == DigestEnd(now)  cutoff == now - KeepTime
           w == WindowOf(mem, end)
<1>1. Shapes /\ Shaped(mem) /\ now \in Nat /\ digestTime \in 0..(DayLength - 1)
  BY PlainTypes DEF Base
<1>2. end \in Nat /\ now < end /\ cutoff \in Int /\ cutoff <= now
  BY <1>1, NextDigest, NotificationsAssumption
<1>3. PICK new \in SUBSET Key : Recorded(end, new) BY <1>1, RecordedRound
<1> DEFINE made == {[key |-> k, due |-> QuietUntil(now), end |-> end] : k \in new}
           kept == {p \in mem.pending : p.end >= cutoff}
<1>4. /\ DOMAIN mem'.windows = {e \in DOMAIN mem.windows : e >= cutoff} \cup {end}
      /\ \A e \in DOMAIN mem.windows :
           e >= cutoff /\ e # end => mem'.windows[e] = mem.windows[e]
      /\ mem'.windows[end].alerts = w.alerts \cup new
      /\ new \cap w.alerts = {}
      /\ \/ mem'.pending = kept \cup made /\ job' = {}
         \/ mem'.pending = kept /\ job' \in {{}, made}
  BY <1>3 DEF Recorded
<1>5. end \in DOMAIN mem.windows => w = mem.windows[end] BY <1>1, <1>2, WindowOfType
<1>6. \A p \in made : p.end = end /\ p.key \in new OBVIOUS
<1>7. \A p, q \in made : p.key = q.key => p = q OBVIOUS
<1> HIDE DEF w, made
<1>8. ASSUME NEW k \in Key, NEW e \in Nat, Claimed(mem, k, e), e >= cutoff
      PROVE  Claimed(mem', k, e)
  <2>1. e \in DOMAIN mem.windows /\ k \in mem.windows[e].alerts BY <1>8 DEF Claimed
  <2> HIDE DEF end, cutoff
  <2>2. CASE e = end BY <1>4, <1>5, <2>1, <2>2 DEF Claimed
  <2>3. CASE e # end BY <1>4, <1>8, <2>1, <2>3 DEF Claimed
  <2> QED BY <2>2, <2>3
<1>9. \A a \in alerted : now < a[2] => Claimed(mem', a[1], a[2])
  <2>1. ASSUME NEW a \in alerted, now < a[2] PROVE Claimed(mem', a[1], a[2])
    <3>1. a[1] \in Key /\ a[2] \in Nat BY <1>1, ClaimKinds
    <3>2. Claimed(mem, a[1], a[2]) BY <2>1 DEF Alerts, Accounted
    <3>3. a[2] >= cutoff BY <1>1, <1>2, <2>1, <3>1
    <3> QED BY <1>8, <3>1, <3>2, <3>3
  <2> QED BY <2>1
<1>10. \A p \in kept : Claimed(mem', p.key, p.end) /\ <<p.key, p.end>> \notin alerted
  <2>1. ASSUME NEW p \in kept
        PROVE  Claimed(mem', p.key, p.end) /\ <<p.key, p.end>> \notin alerted
    <3>1. p.key \in Key /\ p.end \in Nat BY <1>1, ClaimKinds
    <3>2. Claimed(mem, p.key, p.end) /\ <<p.key, p.end>> \notin alerted
      BY DEF Alerts, Accounted
    <3> QED BY <1>8, <3>1, <3>2
  <2> QED BY <2>1
<1>11. \A p \in made : Claimed(mem', p.key, p.end) /\ <<p.key, p.end>> \notin alerted
  <2>1. ASSUME NEW p \in made
        PROVE  Claimed(mem', p.key, p.end) /\ <<p.key, p.end>> \notin alerted
    <3>1. p.end = end /\ p.key \in new BY <1>6
    <3>2. Claimed(mem', p.key, end)
      <4> HIDE DEF end
      <4> QED BY <1>4, <3>1 DEF Claimed
    <3>3. ASSUME <<p.key, end>> \in alerted PROVE FALSE
      <4>1. Claimed(mem, p.key, end)
        <5>1. <<p.key, end>>[1] = p.key /\ <<p.key, end>>[2] = end OBVIOUS
        <5> QED BY <1>2, <3>3, <5>1 DEF Alerts, Accounted
      <4>2. p.key \in w.alerts BY <1>5, <4>1 DEF Claimed
      <4> QED BY <1>4, <3>1, <4>2
    <3> QED BY <3>1, <3>2, <3>3
  <2> QED BY <2>1
<1>12. \A p \in made, q \in kept : p.key # q.key \/ p.end # q.end
  <2>1. ASSUME NEW p \in made, NEW q \in kept, p.key = q.key, p.end = q.end
        PROVE  FALSE
    <3>1. p.end = end /\ p.key \in new BY <1>6
    <3>2. Claimed(mem, q.key, q.end) BY DEF Alerts, Accounted
    <3>3. p.key \in w.alerts BY <1>5, <2>1, <3>1, <3>2 DEF Claimed
    <3> QED BY <1>4, <3>1, <3>3
  <2> QED BY <2>1
<1>13. \A p, q \in kept : p.key = q.key /\ p.end = q.end => p = q
  BY DEF Alerts, Accounted
<1> HIDE DEF kept
<1>14. Accounted(mem')
  <2>1. \A p \in mem'.pending : Claimed(mem', p.key, p.end) /\ <<p.key, p.end>> \notin alerted
    BY <1>4, <1>10, <1>11
  <2>2. \A p, q \in mem'.pending : p.key = q.key /\ p.end = q.end => p = q
    BY <1>4, <1>7, <1>12, <1>13
  <2> QED BY <1>9, <2>1, <2>2 DEF Accounted
<1>15. alerted' = alerted BY DEF RecordRound, sent
<1>16. JobAccounted'
  <2>1. \A p \in job' : Claimed(mem', p.key, p.end) /\ <<p.key, p.end>> \notin alerted
    BY <1>4, <1>11
  <2>2. \A p, q \in job' : p.key = q.key /\ p.end = q.end => p = q
    BY <1>4, <1>7
  <2>3. \A p \in job', q \in mem'.pending : p.key # q.key \/ p.end # q.end
    BY <1>4, <1>12
  <2> QED BY <1>15, <2>1, <2>2, <2>3 DEF JobAccounted, Claimed
<1> QED BY <1>14, <1>16

(* No step but the send of the alerts forgets a claim. *)
LEMMA MemoryAccounted ==
  ASSUME Base, Boundaries, Alerts, Next, ~SendAlert
  PROVE  Accounted(mem')
<1>1. /\ Shapes /\ Shaped(mem) /\ now \in Nat /\ digestTime \in 0..(DayLength - 1)
      /\ mem.next \in Nat
  BY PlainTypes DEF Base
<1>2. Accounted(mem) /\ Accounted(disk) BY DEF Alerts
<1>3. CASE mem' = mem \/ mem' = disk BY <1>2, <1>3
<1>4. CASE Tick \/ RoundWritten \/ QueueWritten \/ AlertRecorded
  BY <1>3, <1>4 DEF Tick, RoundWritten, QueueWritten, AlertRecorded
<1>5. CASE SendDigest \/ OtherWrite \/ Reconfigure \/ CrashAndRestart
  BY <1>3, <1>5 DEF SendDigest, OtherWrite, Reconfigure, CrashAndRestart
<1>6. ASSUME NEW outcome \in [Account -> Outcome], NEW mode \in Mode,
             RecordRound(outcome, mode)
      PROVE  Accounted(mem')
  BY <1>6, RecordedAccounted
<1>7. CASE FlushQueue
  <2>1. mem'.windows = mem.windows /\ mem'.pending = mem.pending \ DueNotices
    BY <1>1, <1>7 DEF FlushQueue, Shaped
  <2>2. \A k \in Key, e \in Nat : Claimed(mem, k, e) => Claimed(mem', k, e)
    BY <2>1 DEF Claimed
  <2> QED BY <1>1, <1>2, <2>1, <2>2, AccountedKept
<1>8. CASE QueueNotWritten
  <2>1. /\ mem'.windows = mem.windows /\ mem'.pending = mem.pending \cup job
        /\ step = "flush"
    BY <1>1, <1>8 DEF QueueNotWritten, Shaped
  <2>2. /\ \A p \in job : Claimed(mem, p.key, p.end) /\ <<p.key, p.end>> \notin alerted
        /\ \A p, q \in job : p.key = q.key /\ p.end = q.end => p = q
        /\ \A p \in job, q \in mem.pending : p.key # q.key \/ p.end # q.end
    BY <2>1 DEF Alerts, JobAccounted
  <2>3. \A a \in alerted : now < a[2] => Claimed(mem', a[1], a[2])
    BY <1>2, <2>1 DEF Accounted, Claimed
  <2>4. \A p \in mem'.pending : Claimed(mem', p.key, p.end) /\ <<p.key, p.end>> \notin alerted
    BY <1>2, <2>1, <2>2 DEF Accounted, Claimed
  <2>5. \A p, q \in mem'.pending : p.key = q.key /\ p.end = q.end => p = q
    BY <1>2, <2>1, <2>2 DEF Accounted
  <2> QED BY <2>3, <2>4, <2>5 DEF Accounted
<1>9. CASE StartDigest
  <2> DEFINE w == WindowOf(mem, mem.next)
  <2>1. /\ mem'.pending = mem.pending
        /\ DOMAIN mem'.windows = DOMAIN mem.windows \cup {mem.next}
        /\ \A e \in DOMAIN mem.windows : e # mem.next => mem'.windows[e] = mem.windows[e]
        /\ mem'.windows[mem.next].alerts = w.alerts
    BY <1>1, <1>9, StartedDigest
  <2>2. mem.next \in DOMAIN mem.windows => w = mem.windows[mem.next]
    BY <1>1, WindowOfType
  <2> HIDE DEF w
  <2>3. \A k \in Key, e \in Nat : Claimed(mem, k, e) => Claimed(mem', k, e)
    BY <2>1, <2>2 DEF Claimed
  <2> QED BY <1>1, <1>2, <2>1, <2>3, AccountedKept
<1>10. CASE GiveUpDigest
  <2>1. mem' = Finished(mem) /\ mem.next <= now BY <1>1, <1>10 DEF GiveUpDigest
  <2> QED BY <1>1, <1>2, <2>1, FinishedAccounted
<1>11. ASSUME mem.next \in DOMAIN mem.windows, NEW n,
              n = [mem EXCEPT !.windows[mem.next].sending = FALSE]
       PROVE  /\ Shaped(n) /\ n.next = mem.next /\ n.pending = mem.pending
              /\ DOMAIN n.windows = DOMAIN mem.windows
              /\ \A e \in DOMAIN mem.windows : n.windows[e].alerts = mem.windows[e].alerts
              /\ Accounted(n)
  <2>1. /\ Shaped(n) /\ n.next = mem.next /\ n.pending = mem.pending
        /\ DOMAIN n.windows = DOMAIN mem.windows
        /\ \A f \in DOMAIN mem.windows : f # mem.next => n.windows[f] = mem.windows[f]
        /\ n.windows[mem.next].alerts = mem.windows[mem.next].alerts
    BY <1>1, <1>11, ReleasedDigest
  <2>2. \A e \in DOMAIN mem.windows : n.windows[e].alerts = mem.windows[e].alerts
    BY <2>1
  <2>3. \A k \in Key, e \in Nat : Claimed(mem, k, e) => Claimed(n, k, e)
    BY <2>1, <2>2 DEF Claimed
  <2>4. Accounted(n) BY <1>1, <1>2, <2>1, <2>3, AccountedKept
  <2> QED BY <2>1, <2>2, <2>4
<1>12. CASE DigestWritten
  <2>1. mem.next \in DOMAIN mem.windows
    BY <1>12 DEF DigestWritten, Base, DigestReserved
  <2> QED BY <1>3, <1>11, <1>12, <2>1 DEF DigestWritten
<1>13. CASE DigestRecorded
  <2>1. mem.next \in DOMAIN mem.windows /\ mem.next <= now
    BY <1>13 DEF DigestRecorded, Base, DigestReserved
  <2>2. PICK n : /\ n = [mem EXCEPT !.windows[mem.next].sending = FALSE]
                 /\ mem' = Finished(n) \/ mem' = n
    BY <1>1, <1>13, RecordedDigest DEF Base
  <2>3. /\ Shaped(n) /\ n.next = mem.next /\ n.pending = mem.pending
        /\ DOMAIN n.windows = DOMAIN mem.windows
        /\ \A e \in DOMAIN mem.windows : n.windows[e].alerts = mem.windows[e].alerts
        /\ Accounted(n)
    BY <1>11, <2>1, <2>2
  <2>4. Accounted(Finished(n)) BY <1>1, <1>2, <2>1, <2>3, FinishedAccounted
  <2> QED BY <2>2, <2>3, <2>4
<1> QED
  BY <1>4, <1>5, <1>6, <1>7, <1>8, <1>9, <1>10, <1>12, <1>13 DEF Next

LEMMA JobKept ==
  ASSUME Base, Alerts, Next
  PROVE  JobAccounted'
<1>1. CASE step' \notin {"record", "flush", "alert"} BY <1>1 DEF JobAccounted
<1>2. CASE step \in {"record", "flush", "alert"} /\ UNCHANGED <<mem, job, alerted>>
  BY <1>2 DEF Alerts, JobAccounted, Claimed
<1>3. ASSUME NEW outcome \in [Account -> Outcome], NEW mode \in Mode,
             RecordRound(outcome, mode)
      PROVE  JobAccounted'
  BY <1>3, RecordedAccounted
<1>4. CASE FlushQueue
  <2>1. Shaped(mem) /\ Accounted(mem) BY PlainTypes DEF Base, Alerts
  <2>2. /\ mem'.windows = mem.windows /\ mem'.pending = mem.pending \ DueNotices
        /\ job' = DueNotices /\ alerted' = alerted
    BY <1>4, <2>1 DEF FlushQueue, Shaped, sent
  <2>3. DueNotices \subseteq mem.pending BY DEF DueNotices
  <2>4. \A p \in job' : Claimed(mem', p.key, p.end) /\ <<p.key, p.end>> \notin alerted'
    BY <2>1, <2>2, <2>3 DEF Accounted, Claimed
  <2>5. \A p, q \in job' : p.key = q.key /\ p.end = q.end => p = q
    BY <2>1, <2>2, <2>3 DEF Accounted
  <2>6. \A p \in job', q \in mem'.pending : p.key # q.key \/ p.end # q.end
    BY <2>1, <2>2, <2>3 DEF Accounted
  <2> QED BY <2>4, <2>5, <2>6 DEF JobAccounted, Claimed
<1>5. CASE RoundWritten BY <1>1, <1>2, <1>5 DEF RoundWritten, sent
<1>6. CASE QueueWritten BY <1>2, <1>6 DEF QueueWritten, sent
<1>7. CASE OtherWrite BY <1>1, <1>2, <1>7 DEF OtherWrite, sent
<1>8. CASE Tick \/ QueueNotWritten \/ SendAlert \/ AlertRecorded
  BY <1>1, <1>8 DEF Tick, QueueNotWritten, SendAlert, AlertRecorded
<1>9. CASE StartDigest \/ GiveUpDigest \/ DigestWritten \/ SendDigest \/ DigestRecorded
  BY <1>1, <1>9 DEF StartDigest, GiveUpDigest, DigestWritten, SendDigest, DigestRecorded
<1>10. CASE Reconfigure \/ CrashAndRestart
  BY <1>1, <1>10 DEF Reconfigure, CrashAndRestart
<1> QED
  BY <1>3, <1>4, <1>5, <1>6, <1>7, <1>8, <1>9, <1>10 DEF Next

LEMMA AlertsNext ==
  ASSUME Base, Boundaries, Alerts, [Next]_vars
  PROVE  Alerts'
<1>1. Shapes /\ Shaped(mem) /\ now \in Nat BY PlainTypes DEF Base
<1>2. Accounted(mem) /\ Accounted(disk) BY DEF Alerts
<1>3. CASE UNCHANGED vars
  <2>1. UNCHANGED <<now, mem, disk, step, job, alerted>> BY <1>3 DEF vars, sent
  <2> QED BY <2>1 DEF Alerts, Accounted, JobAccounted, Claimed
<1>4. ASSUME Next, ~SendAlert
      PROVE  Alerts'
  <2>1. alerted' = alerted
    <3>1. ASSUME NEW outcome \in [Account -> Outcome], NEW mode \in Mode,
                 RecordRound(outcome, mode)
          PROVE  alerted' = alerted
      BY <3>1 DEF RecordRound, sent
    <3>2. CASE Tick \/ RoundWritten \/ FlushQueue \/ QueueWritten \/ QueueNotWritten
      BY <3>2 DEF Tick, RoundWritten, FlushQueue, QueueWritten, QueueNotWritten, sent
    <3>3. CASE AlertRecorded \/ StartDigest \/ GiveUpDigest \/ DigestWritten \/ SendDigest
      BY <3>3 DEF AlertRecorded, StartDigest, GiveUpDigest, DigestWritten, SendDigest, sent
    <3>4. CASE DigestRecorded \/ OtherWrite \/ Reconfigure \/ CrashAndRestart
      BY <3>4 DEF DigestRecorded, OtherWrite, Reconfigure, CrashAndRestart, sent
    <3> QED BY <1>4, <3>1, <3>2, <3>3, <3>4 DEF Next
  <2>2. Accounted(mem') /\ Accounted(disk') BY <1>2, <1>4, MemoryAccounted, WrittenMemory
  <2>3. now' \in Nat /\ now <= now' BY <1>1, <1>4, RetypedClock, NotificationsAssumption
  <2>4. \A a \in alerted : a[2] \in Nat BY <1>1, ClaimKinds
  <2>5. \A a \in alerted : now' < a[2] => now < a[2] BY <1>1, <2>3, <2>4
  <2>6. Accounted(mem)' /\ Accounted(disk)'
    BY <2>1, <2>2, <2>5 DEF Accounted, Claimed
  <2> QED BY <1>4, <2>6, JobKept DEF Alerts
<1>5. CASE SendAlert
  <2>1. /\ step = "alert" /\ step' = "result" /\ UNCHANGED <<now, mem, disk>>
        /\ alerted' = alerted \cup {<<p.key, p.end>> : p \in job}
    BY <1>5 DEF SendAlert
  <2>2. disk = mem BY <2>1 DEF Base, SentFromDisk
  <2>3. /\ \A p \in job : Claimed(mem, p.key, p.end)
        /\ \A p \in job, q \in mem.pending : p.key # q.key \/ p.end # q.end
    BY <2>1 DEF Alerts, JobAccounted
  <2>4. \A a \in alerted' : now < a[2] => Claimed(mem, a[1], a[2])
    BY <1>2, <2>1, <2>3 DEF Accounted
  <2>5. \A q \in mem.pending : <<q.key, q.end>> \notin alerted'
    BY <1>2, <2>1, <2>3 DEF Accounted
  <2>6. Accounted(mem)'
    BY <1>2, <2>1, <2>4, <2>5 DEF Accounted, Claimed
  <2>7. Accounted(disk)' BY <2>1, <2>2, <2>6 DEF Accounted, Claimed
  <2>8. JobAccounted' BY <2>1 DEF JobAccounted
  <2> QED BY <2>6, <2>7, <2>8 DEF Alerts
<1> QED BY <1>3, <1>4, <1>5

(* While digest_time does not change, an account and category are alerted  *)
(* once per digest window at most, whatever fails, crashes or waits.       *)
THEOREM AlertedOnce ==
  ASSUME DigestTime = {FirstDigest}
  PROVE  Spec => []AlertedOncePerWindow
<1>1. Init => Base /\ Boundaries /\ Alerts BY BaseInit, BoundariesInit, AlertsInit
<1>2. Base /\ Boundaries /\ Alerts /\ [Next]_vars => (Base /\ Boundaries /\ Alerts)'
  BY BaseNext, BoundariesNext, AlertsNext
<1>3. Base /\ Boundaries /\ Alerts => AlertedOncePerWindow
  BY DEF Alerts, JobAccounted, AlertedOncePerWindow
<1> QED BY <1>1, <1>2, <1>3, PTL DEF Spec

-----------------------------------------------------------------------------
(* What steps may not do.                                                  *)

(* A step that does not reload the state drops a window only by a digest,  *)
(* or a week after its end.                                                *)
LEMMA WindowsDropped ==
  ASSUME Base, Boundaries, Next, crashes' = crashes, reloads' = reloads,
         NEW e \in DOMAIN mem.windows \ DOMAIN mem'.windows
  PROVE  \/ e + KeepTime < now
         \/ /\ DueNotices = {} /\ mem.next <= now /\ e <= now
            /\ e = mem.next \/ mem.next + DayLength <= now \/ e + DayLength <= now
<1>1. /\ Shapes /\ Shaped(mem) /\ now \in Nat /\ digestTime \in 0..(DayLength - 1)
      /\ mem.next \in Nat /\ digestTime = FirstDigest /\ AtDigestTime(mem)
  BY PlainTypes DEF Base, Boundaries
<1>2. e \in Nat BY <1>1 DEF Shaped
<1>3. CASE mem' = mem BY <1>3
<1>4. CASE Tick \/ RoundWritten \/ QueueWritten \/ SendAlert \/ AlertRecorded
  BY <1>3, <1>4 DEF Tick, RoundWritten, QueueWritten, SendAlert, AlertRecorded
<1>5. CASE SendDigest \/ OtherWrite BY <1>3, <1>5 DEF SendDigest, OtherWrite
<1>6. CASE Reconfigure \/ CrashAndRestart
  <2>1. crashes \in Nat /\ reloads \in Nat BY <1>1 DEF Shapes
  <2> QED BY <1>6, <2>1 DEF Reconfigure, CrashAndRestart
<1>7. ASSUME NEW outcome \in [Account -> Outcome], NEW mode \in Mode,
             RecordRound(outcome, mode)
      PROVE  e + KeepTime < now
  <2> DEFINE cutoff == now - KeepTime
  <2>1. {f \in DOMAIN mem.windows : f >= cutoff} \subseteq DOMAIN mem'.windows
    BY <1>1, <1>7, RecordedRound DEF Recorded
  <2>2. ~(e >= cutoff) BY <2>1
  <2> QED BY <1>1, <1>2, <2>2, NotificationsAssumption
<1>8. CASE FlushQueue \/ QueueNotWritten
  <2>1. mem'.windows = mem.windows
    BY <1>1, <1>8 DEF FlushQueue, QueueNotWritten, Shaped
  <2> QED BY <2>1
<1>9. CASE StartDigest
  <2>1. DOMAIN mem.windows \subseteq DOMAIN mem'.windows
    BY <1>1, <1>9, StartedDigest
  <2> QED BY <2>1
<1>10. ASSUME NEW n, Shaped(n), n.next = mem.next, DOMAIN n.windows = DOMAIN mem.windows,
              mem' = Finished(n), mem.next <= now
       PROVE  /\ e <= now
              /\ e = mem.next \/ mem.next + DayLength <= now \/ e + DayLength <= now
  <2>1. AtDigestTime(n) BY <1>1, <1>10 DEF AtDigestTime
  <2>2. /\ DOMAIN mem'.windows = {f \in DOMAIN n.windows : f >= mem'.next}
        /\ mem'.next \in Nat
    BY <1>1, <1>10, FinishedFields DEF Shaped
  <2>3. e < mem'.next BY <1>2, <1>10, <2>2
  <2>4. e < Finished(n).next BY <1>10, <2>3
  <2>5. e \in DOMAIN n.windows /\ n.next <= now BY <1>10
  <2> QED BY <1>1, <1>10, <2>1, <2>4, <2>5, NothingAheadDropped
<1>11. CASE GiveUpDigest
  <2>1. mem' = Finished(mem) /\ mem.next <= now /\ DueNotices = {}
    BY <1>1, <1>11 DEF GiveUpDigest
  <2> QED BY <1>1, <1>10, <2>1
<1>12. CASE DigestWritten
  <2>1. mem.next \in DOMAIN mem.windows
    BY <1>12 DEF DigestWritten, Base, DigestReserved
  <2>2. mem' = mem \/ mem' = [mem EXCEPT !.windows[mem.next].sending = FALSE]
    BY <1>12 DEF DigestWritten
  <2>3. DOMAIN mem'.windows = DOMAIN mem.windows
    BY <1>1, <2>1, <2>2, ReleasedDigest
  <2> QED BY <2>3
<1>13. CASE DigestRecorded
  <2>1. mem.next <= now /\ DueNotices = {}
    BY <1>13 DEF DigestRecorded, Base, DigestReserved
  <2>2. PICK n : /\ Shaped(n) /\ n.next = mem.next
                 /\ DOMAIN n.windows = DOMAIN mem.windows
                 /\ mem' = Finished(n) \/ mem' = n
    BY <1>1, <1>13, RecordedDigest DEF Base
  <2> QED BY <1>10, <2>1, <2>2
<1> QED
  BY <1>4, <1>5, <1>6, <1>7, <1>8, <1>9, <1>11, <1>12, <1>13 DEF Next

(* While digest_time does not change, no round that was counted is dropped *)
(* before the digest of its window, unless a digest is late by a day.      *)
THEOREM RoundsReported ==
  ASSUME DigestTime = {FirstDigest}
  PROVE  Spec => RoundsAreReported
<1>1. Init => Base /\ Boundaries BY BaseInit, BoundariesInit
<1>2. Base /\ Boundaries /\ [Next]_vars => (Base /\ Boundaries)'
  BY BaseNext, BoundariesNext
<1> DEFINE Reported ==
      crashes' = crashes /\ reloads' = reloads =>
        \A e \in DOMAIN mem.windows \ DOMAIN mem'.windows :
          \/ mem.windows[e].runs = 0
          \/ e = mem.next
          \/ mem.next + DayLength <= now \/ e + DayLength <= now
<1>3. Base /\ Boundaries /\ [Next]_vars => [Reported]_vars
  <2> SUFFICES ASSUME Base, Boundaries, Next, crashes' = crashes, reloads' = reloads,
                      NEW e \in DOMAIN mem.windows \ DOMAIN mem'.windows
               PROVE  e = mem.next \/ mem.next + DayLength <= now \/ e + DayLength <= now
    OBVIOUS
  <2>1. CASE e + KeepTime < now
    <3>1. e \in Nat /\ now \in Nat BY PlainTypes DEF Base, Shaped
    <3> QED BY <2>1, <3>1, NotificationsAssumption
  <2> QED BY <2>1, WindowsDropped
<1> QED BY <1>1, <1>2, <1>3, PTL DEF Spec, RoundsAreReported

(* A failure that quiet hours hold back is due before the digest of its    *)
(* window, if the time of the digest is not in the quiet hours.            *)
LEMMA DueBeforeDigest ==
  ASSUME NEW t \in Nat, Quiet(t), digestTime \in 0..(DayLength - 1),
         digestTime = FirstDigest, ~Quiet(FirstDigest)
  PROVE  QuietUntil(t) <= DigestEnd(t)
<1> DEFINE h == t % DayLength  m == Midnight(t)
<1>1. m \in Nat /\ h \in 0..(DayLength - 1) /\ t = m + h BY MidnightPlus
<1>2. digestTime % DayLength = digestTime BY TimeOfDay
<1>3. IF QuietEnd < QuietStart
      THEN (h < QuietEnd \/ h >= QuietStart) /\ ~(digestTime < QuietEnd) /\ ~(digestTime >= QuietStart)
      ELSE QuietStart <= h /\ h < QuietEnd /\ ~(QuietStart <= digestTime /\ digestTime < QuietEnd)
  BY <1>2 DEF Quiet
<1>4. QuietUntil(t) = IF h < QuietEnd THEN m + QuietEnd ELSE m + QuietEnd + DayLength
  <2>1. t < m + QuietEnd <=> h < QuietEnd
    <3> HIDE DEF h, m
    <3> QED BY <1>1, NotificationsAssumption
  <2> QED BY <2>1 DEF QuietUntil
<1>5. DigestEnd(t) = IF h < digestTime THEN m + digestTime ELSE m + digestTime + DayLength
  <2>1. t < m + digestTime <=> h < digestTime
    <3> HIDE DEF h, m
    <3> QED BY <1>1, NotificationsAssumption
  <2> QED BY <2>1 DEF DigestEnd
<1>6. QuietStart \in 0..(DayLength - 1) /\ QuietEnd \in 0..(DayLength - 1)
      /\ DayLength \in Nat
  BY NotificationsAssumption
<1> HIDE DEF h, m
<1> QED BY <1>1, <1>3, <1>4, <1>5, <1>6

LEMMA DueFirstInit == Init => DueFirst
<1> SUFFICES ASSUME Init PROVE DueFirst OBVIOUS
<1>1. disk = mem /\ step = "free" BY DEF Init
<1>2. mem.pending = {} BY EmptyStateShaped
<1> QED BY <1>1, <1>2 DEF DueFirst

LEMMA DueFirstNext ==
  ASSUME ~Quiet(FirstDigest), Base, Boundaries, DueFirst, [Next]_vars
  PROVE  DueFirst'
<1>1. /\ Shapes /\ Shaped(mem) /\ now \in Nat /\ digestTime \in 0..(DayLength - 1)
      /\ digestTime = FirstDigest
  BY PlainTypes DEF Base, Boundaries
<1> DEFINE waiting == mem.pending \cup disk.pending \cup (IF step = "flush" THEN job ELSE {})
<1>2. \A p \in waiting : p.due <= p.end BY DEF DueFirst
<1>3. ASSUME Next
      PROVE  /\ \A p \in mem'.pending : p.due <= p.end
             /\ step' = "flush" => \A p \in job' : p.due <= p.end
  <2>1. CASE UNCHANGED <<mem, job>> /\ (step' = "flush" => step = "flush")
    BY <2>1 DEF DueFirst
  <2>2. CASE Tick \/ RoundWritten \/ QueueWritten \/ SendAlert \/ SendDigest \/ OtherWrite
    BY <2>1, <2>2 DEF Tick, RoundWritten, QueueWritten, SendAlert, SendDigest,
                      OtherWrite, DueFirst
  <2>3. CASE AlertRecorded \/ Reconfigure \/ CrashAndRestart
    BY <2>3 DEF AlertRecorded, Reconfigure, CrashAndRestart, DueFirst
  <2>4. ASSUME NEW outcome \in [Account -> Outcome], NEW mode \in Mode,
               RecordRound(outcome, mode)
        PROVE  (\A p \in mem'.pending : p.due <= p.end) /\ step' # "flush"
    <3> DEFINE end == DigestEnd(now)
    <3>1. PICK new \in SUBSET Key : Recorded(end, new) BY <1>1, <2>4, RecordedRound
    <3> DEFINE made == {[key |-> k, due |-> QuietUntil(now), end |-> end] : k \in new}
    <3>2. \/ mem'.pending \subseteq mem.pending \cup made /\ Quiet(now)
          \/ mem'.pending \subseteq mem.pending
      BY <3>1 DEF Recorded
    <3>3. Quiet(now) => \A p \in made : p.due <= p.end BY <1>1, DueBeforeDigest
    <3>4. step' # "flush" BY <2>4 DEF RecordRound
    <3> HIDE DEF made
    <3> QED BY <3>2, <3>3, <3>4 DEF DueFirst
  <2>5. CASE FlushQueue
    <3>1. mem'.pending \subseteq mem.pending /\ job' \subseteq mem.pending
      BY <1>1, <2>5 DEF FlushQueue, DueNotices, Shaped
    <3> QED BY <3>1 DEF DueFirst
  <2>6. CASE QueueNotWritten
    <3>1. mem'.pending = mem.pending \cup job /\ step = "flush" /\ step' = "free"
      BY <1>1, <2>6 DEF QueueNotWritten, Shaped
    <3> QED BY <3>1 DEF DueFirst
  <2>7. CASE StartDigest
    <3>1. mem'.pending = mem.pending /\ step' = "digest"
      BY <1>1, <2>7, StartedDigest DEF StartDigest
    <3> QED BY <3>1 DEF DueFirst
  <2>8. CASE GiveUpDigest
    <3>1. mem'.pending \subseteq mem.pending /\ step = "free" /\ step' = step
      BY <1>1, <2>8, FinishedFields DEF GiveUpDigest
    <3> QED BY <3>1 DEF DueFirst
  <2>9. CASE DigestWritten
    <3>1. mem.next \in DOMAIN mem.windows
      BY <2>9 DEF DigestWritten, Base, DigestReserved
    <3>2. mem' = mem \/ mem' = [mem EXCEPT !.windows[mem.next].sending = FALSE]
      BY <2>9 DEF DigestWritten
    <3>3. [mem EXCEPT !.windows[mem.next].sending = FALSE].pending = mem.pending
      BY <1>1, <3>1, ReleasedDigest
    <3>4. mem'.pending = mem.pending BY <3>2, <3>3
    <3>5. step' # "flush" BY <2>9 DEF DigestWritten
    <3> QED BY <3>4, <3>5 DEF DueFirst
  <2>10. CASE DigestRecorded
    <3>1. PICK n : Shaped(n) /\ n.pending = mem.pending /\ (mem' = Finished(n) \/ mem' = n)
      BY <1>1, <2>10, RecordedDigest DEF Base
    <3>2. mem'.pending \subseteq mem.pending BY <1>1, <3>1, FinishedFields
    <3>3. step' = "free" BY <2>10 DEF DigestRecorded
    <3> QED BY <3>2, <3>3 DEF DueFirst
  <2> QED
    BY <1>3, <2>2, <2>3, <2>4, <2>5, <2>6, <2>7, <2>8, <2>9, <2>10 DEF Next
<1>4. CASE UNCHANGED vars
  <2>1. UNCHANGED <<mem, disk, step, job>> BY <1>4 DEF vars
  <2> QED BY <2>1 DEF DueFirst
<1>5. CASE Next
  <2>1. \A p \in disk'.pending : p.due <= p.end
    BY <1>3, <1>5, WrittenMemory DEF DueFirst
  <2> QED BY <1>3, <1>5, <2>1 DEF DueFirst
<1> QED BY <1>4, <1>5

(* While digest_time does not change and is not in the quiet hours, no     *)
(* failure that these hold back is dropped before it was due to be sent.   *)
THEOREM QueuedSent ==
  ASSUME DigestTime = {FirstDigest}, ~Quiet(FirstDigest)
  PROVE  Spec => QueuedFailuresAreSent
<1>1. Init => Base /\ Boundaries /\ DueFirst
  BY BaseInit, BoundariesInit, DueFirstInit
<1>2. Base /\ Boundaries /\ DueFirst /\ [Next]_vars => (Base /\ Boundaries /\ DueFirst)'
  BY BaseNext, BoundariesNext, DueFirstNext
<1> DEFINE Sent ==
      crashes' = crashes /\ reloads' = reloads =>
        \A p \in mem.pending \ mem'.pending : p \in job' \/ p.end < now
<1>3. Base /\ Boundaries /\ DueFirst /\ [Next]_vars => [Sent]_vars
  <2> SUFFICES ASSUME Base, Boundaries, DueFirst, Next,
                      crashes' = crashes, reloads' = reloads,
                      NEW p \in mem.pending \ mem'.pending
               PROVE  p \in job' \/ p.end < now
    OBVIOUS
  <2>1. /\ Shapes /\ Shaped(mem) /\ now \in Nat /\ Shaped(mem')
        /\ digestTime \in 0..(DayLength - 1)
        /\ digestTime = FirstDigest /\ AtDigestTime(mem)
    BY PlainTypes, RetypedMemory DEF Base, Boundaries
  <2>2. p.end \in DOMAIN mem.windows /\ p.end \in Nat /\ p.due \in Nat
    BY <2>1 DEF Shaped, Notice
  <2>3. CASE FlushQueue
    <3>1. job' = DueNotices /\ mem'.pending = mem.pending \ DueNotices
      BY <2>1, <2>3 DEF FlushQueue, Shaped
    <3> QED BY <3>1
  <2>4. CASE p.end \notin DOMAIN mem'.windows
    <3>1. CASE p.end + KeepTime < now
      BY <2>1, <2>2, <3>1, NotificationsAssumption
    <3>2. CASE DueNotices = {} /\ p.end <= now
      <4>1. SUFFICES ASSUME p.end = now PROVE FALSE BY <2>1, <2>2, <3>2
      <4>2. now % DayLength = FirstDigest BY <2>1, <2>2, <4>1 DEF AtDigestTime
      <4>3. FirstDigest % DayLength = FirstDigest BY <2>1, TimeOfDay
      <4>4. ~Quiet(now) BY <4>2, <4>3 DEF Quiet
      <4>5. p.due <= now BY <4>1 DEF DueFirst
      <4> QED BY <3>2, <4>4, <4>5 DEF DueNotices
    <3> QED BY <2>2, <2>4, <3>1, <3>2, WindowsDropped
  <2>5. CASE p.end \in DOMAIN mem'.windows /\ ~FlushQueue
    <3>1. p \in mem'.pending
      <4>1. CASE mem' = mem BY <4>1
      <4>2. CASE Tick \/ RoundWritten \/ QueueWritten \/ SendAlert \/ AlertRecorded
        BY <4>1, <4>2 DEF Tick, RoundWritten, QueueWritten, SendAlert, AlertRecorded
      <4>3. CASE SendDigest \/ OtherWrite BY <4>1, <4>3 DEF SendDigest, OtherWrite
      <4>4. CASE Reconfigure \/ CrashAndRestart
        <5>1. crashes \in Nat /\ reloads \in Nat BY <2>1 DEF Shapes
        <5> QED BY <4>4, <5>1 DEF Reconfigure, CrashAndRestart
      <4>5. ASSUME NEW outcome \in [Account -> Outcome], NEW mode \in Mode,
                   RecordRound(outcome, mode)
            PROVE  p \in mem'.pending
        <5> DEFINE end == DigestEnd(now)  cutoff == now - KeepTime
        <5>1. /\ DOMAIN mem'.windows = {e \in DOMAIN mem.windows : e >= cutoff} \cup {end}
              /\ {q \in mem.pending : q.end >= cutoff} \subseteq mem'.pending
          BY <2>1, <4>5, RecordedRound DEF Recorded
        <5>2. end >= cutoff
          BY <2>1, NextDigest, NotificationsAssumption
        <5>3. p.end >= cutoff
          <6> HIDE DEF end, cutoff
          <6> QED BY <2>5, <5>1, <5>2
        <5> QED BY <5>1, <5>3
      <4>6. CASE QueueNotWritten
        BY <2>1, <4>6 DEF QueueNotWritten, Shaped
      <4>7. CASE StartDigest BY <2>1, <4>7, StartedDigest
      <4>8. ASSUME NEW n, Shaped(n), n.pending = mem.pending, mem' = Finished(n)
            PROVE  p \in mem'.pending
        <5>1. /\ mem'.pending = {q \in n.pending : q.end >= mem'.next}
              /\ DOMAIN mem'.windows = {e \in DOMAIN n.windows : e >= mem'.next}
          BY <2>1, <4>8, FinishedFields
        <5> QED BY <2>5, <4>8, <5>1
      <4>9. CASE GiveUpDigest BY <2>1, <4>8, <4>9 DEF GiveUpDigest
      <4>10. CASE DigestWritten
        <5>1. mem.next \in DOMAIN mem.windows
          BY <4>10 DEF DigestWritten, Base, DigestReserved
        <5>2. mem' = mem \/ mem' = [mem EXCEPT !.windows[mem.next].sending = FALSE]
          BY <4>10 DEF DigestWritten
        <5>3. [mem EXCEPT !.windows[mem.next].sending = FALSE].pending = mem.pending
          BY <2>1, <5>1, ReleasedDigest
        <5> QED BY <5>2, <5>3
      <4>11. CASE DigestRecorded
        <5>1. PICK n : Shaped(n) /\ n.pending = mem.pending /\ (mem' = Finished(n) \/ mem' = n)
          BY <2>1, <4>11, RecordedDigest DEF Base
        <5> QED BY <4>8, <5>1
      <4> QED
        BY <2>5, <4>2, <4>3, <4>4, <4>5, <4>6, <4>7, <4>9, <4>10, <4>11 DEF Next
    <3> QED BY <3>1
  <2> QED BY <2>3, <2>4, <2>5
<1> QED BY <1>1, <1>2, <1>3, PTL DEF Spec, QueuedFailuresAreSent
=============================================================================
