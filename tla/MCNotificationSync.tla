-------------------------- MODULE MCNotificationSync -------------------------
(* Instance of NotificationSync for TLC.                                   *)
EXTENDS NotificationSync
=============================================================================
