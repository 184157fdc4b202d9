----------------------------- MODULE MCFollowup -----------------------------
(* Followup on small instances. *)
EXTENDS Followup

MCRetryDelay == <<1, 2>>
=============================================================================
