-------------------------- MODULE MCRoomLifecycle --------------------------
(* The instances of RoomLifecycle that TLC checks.                         *)
EXTENDS RoomLifecycle, TLC

CONSTANTS p1, p2, l1, l3

\* Each account logs in with one Player object.
OneLoginEach == l1 :> p1 @@ l3 :> p2

=============================================================================
