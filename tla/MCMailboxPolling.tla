-------------------------- MODULE MCMailboxPolling --------------------------
(* Model values for MailboxPolling.                                         *)
EXTENDS MailboxPolling

CONSTANTS m1, d1, d2, k1, k2
=============================================================================
