--------------------------- MODULE MCAttachments ---------------------------
(* Attachments, with the sets its configuration chooses among.             *)
EXTENDS Attachments, TLC

CONSTANTS q1, q2, k1, k2
=============================================================================
