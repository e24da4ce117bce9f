--------------------------- MODULE MCAttachments ---------------------------
(***************************************************************************)
(* Attachments for TLC.  One attachment of two chunks and a window of one, *)
(* so that a chunk waits in `needed` while another is in flight; a second  *)
(* begin of the same attachment, after a retry, is what queues up.         *)
(***************************************************************************)
EXTENDS Attachments
====
