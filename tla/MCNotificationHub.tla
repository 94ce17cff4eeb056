-------------------------- MODULE MCNotificationHub --------------------------
(* Small instances of NotificationHub.                                       *)
EXTENDS NotificationHub, TLC

CONSTANTS u1, u2, c1, c2

TwoTabs == (c1 :> u1) @@ (c2 :> u1)      \* one user, two connections
TwoUsers == (c1 :> u1) @@ (c2 :> u2)     \* a connection each
OneTab == (c1 :> u1)
=============================================================================
