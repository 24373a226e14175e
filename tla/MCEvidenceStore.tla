--------------------------- MODULE MCEvidenceStore ---------------------------
(* Small instances of EvidenceStore with a probe beside it.                *)
EXTENDS HostProbe

Asked(verdict, passed, declared, leaves) ==
  [verdict |-> verdict, passed |-> passed, declared |-> declared, leaves |-> leaves]
(* Requests that are accepted, with all and with no attachments, and one   *)
(* for each way of being refused.                                          *)
MCRequests ==
  {Asked("pass", TRUE, TRUE, Leaves), Asked("product-fail", FALSE, TRUE, {}),
   Asked("pass", FALSE, TRUE, Leaves), Asked("pass", TRUE, FALSE, {})}
=============================================================================
