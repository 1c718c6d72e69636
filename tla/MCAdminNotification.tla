------------------------- MODULE MCAdminNotification -------------------------
(***************************************************************************)
(* One notification, which two calls may send.                             *)
(***************************************************************************)
EXTENDS AdminNotification, TLC

CONSTANTS ann, ben, s1, s2, n1
=============================================================================
