-------------------------- MODULE MCOnlinePayments --------------------------
(* One intent: intents share nothing.  Three tabs, so that one may be late *)
(* while two others race.                                                  *)
EXTENDS OnlinePayments
=============================================================================
