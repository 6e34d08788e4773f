------------------------ MODULE MCNotificationQueue ------------------------
(* Two messages, so that a second one joins or delays the digest of the     *)
(* first, which has the text of one of them; a digest delay shorter than    *)
(* its cap, two attempts, one restart.                                      *)
EXTENDS NotificationQueue
=============================================================================
