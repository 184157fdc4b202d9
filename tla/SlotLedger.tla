----------------------------- MODULE SlotLedger -----------------------------
(***************************************************************************)
(* What the plugin promises about scheduled slots, with nothing of how it  *)
(* is done: the slots as the state file has them, and the rounds that ran  *)
(* to their end.  A round ends only under a claim that is on disk, a slot  *)
(* has one such round, and from then on its claim is never taken back from *)
(* the file; before, a claim may be put back (README: interrupted slots    *)
(* are put back, executed slots are not run again after a restart).        *)
(*                                                                         *)
(* Lifecycle implements this specification.                                *)
(***************************************************************************)
EXTENDS Naturals

CONSTANT Slot

VARIABLES file,     \* file[s]: "absent", "planned" or "started" on disk
          rounds    \* rounds[s]: how many rounds of s ran to their end

vars == <<file, rounds>>

Init ==
  /\ file = [s \in Slot |-> "absent"]
  /\ rounds = [s \in Slot |-> 0]

(* A write of the state file, by whatever operation. *)
Write ==
  /\ file' \in [Slot -> {"absent", "planned", "started"}]
  /\ \A s \in Slot : rounds[s] > 0 => file'[s] = "started"
  /\ UNCHANGED rounds

(* A round of a slot ends. *)
End(s) ==
  /\ file[s] = "started" /\ rounds[s] = 0
  /\ rounds' = [rounds EXCEPT ![s] = 1]
  /\ UNCHANGED file

Next == Write \/ \E s \in Slot : End(s)

Spec == Init /\ [][Next]_vars
=============================================================================
