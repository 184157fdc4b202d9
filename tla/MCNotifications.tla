--------------------------- MODULE MCNotifications --------------------------
(* Notifications on small instances. *)
EXTENDS Notifications
=============================================================================
