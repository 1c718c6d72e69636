------------------------ MODULE MCNotificationOutbox ------------------------
(***************************************************************************)
(* Small outboxes for TLC.                                                 *)
(***************************************************************************)
EXTENDS NotificationOutbox, TLC

CONSTANTS h1, h2, k1
=============================================================================
