---------------------------- MODULE MCNotifications ----------------------------
(***************************************************************************)
(* A small instance of Notifications: two users share a phone, and so its  *)
(* token; one of them has registered it.                                   *)
(***************************************************************************)
EXTENDS Notifications, TLC

CONSTANTS u1, u2, o1, o2

MCUserOf == o1 :> u1 @@ o2 :> u2

MCInit == InitPush /\ registered[o1] # Nothing
MCSpec == MCInit /\ [][NextPush]_pushVars /\ PushFairness
=============================================================================
