--------------------------- MODULE MCMessageQueue ---------------------------
(* MessageQueue with a few messages, one of them not a report.             *)
EXTENDS MessageQueue

OneMalformed == {2}
=============================================================================
