----------------------------- MODULE CallBudget -----------------------------
(***************************************************************************)
(* What the plugin promises about model calls, with nothing of how it is   *)
(* done: a durable ledger of reservations per account, and the calls that  *)
(* have left the process.  The promise is the one of the README and of the *)
(* comment on reserveAttempt: a call is paid for on disk before it is      *)
(* sent, no reservation pays for two calls, a live reservation is never    *)
(* forgotten (whatever crashes or fails to be written) and an account      *)
(* never has more than Limit live reservations.                            *)
(*                                                                         *)
(* Warming implements this specification, the ledger being the state file. *)
(***************************************************************************)
EXTENDS Integers, FiniteSets

CONSTANTS Account,   \* the fingerprints of the accounts
          Limit,     \* reservations an account may hold in a rolling window
          Window     \* length of the rolling window

VARIABLES now,       \* the clock
          ledger,    \* ledger[a]: the reservations of a that are on disk
          called     \* called[a]: the reservations whose call has been sent

vars == <<now, ledger, called>>

(* A reservation is live while it is less than a window old. *)
Live(S) == {e \in S : e.at + Window > now}

Init ==
  /\ now = 0
  /\ ledger = [a \in Account |-> {}]
  /\ called = [a \in Account |-> {}]

(* A write of the ledger keeps every live reservation and the limit. *)
Commit ==
  /\ \A a \in Account :
       /\ Live(ledger[a]) \subseteq ledger'[a]
       /\ IsFiniteSet(ledger'[a])
       /\ Cardinality(Live(ledger'[a])) <= Limit
  /\ UNCHANGED <<now, called>>

(* A call spends one reservation of the ledger that nothing has spent yet. *)
Call(a) ==
  /\ \E e \in ledger[a] \ called[a] :
       called' = [called EXCEPT ![a] = @ \cup {e}]
  /\ UNCHANGED <<now, ledger>>

Tick ==
  /\ now' = now + 1
  /\ UNCHANGED <<ledger, called>>

Next == Commit \/ (\E a \in Account : Call(a)) \/ Tick

Spec == Init /\ [][Next]_vars
=============================================================================
