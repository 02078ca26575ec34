-------------------------- MODULE MCNotifications --------------------------
(***************************************************************************)
(* Instance of Notifications for TLC: two threads and two keys, one of     *)
(* which both threads dispatch while the other belongs to one of them.     *)
(***************************************************************************)
EXTENDS Notifications, TLC

CONSTANTS w1, w2, k1, k2

Shared == (w1 :> {k1}) @@ (w2 :> {k1, k2})
=============================================================================
