------------------------- MODULE MCNotificationFeed -------------------------
(* Instance of NotificationFeed for TLC.                                   *)
EXTENDS NotificationFeed
=============================================================================
