--------------------------- MODULE MCApplication ---------------------------
(* Application with two attachments, three topology revisions and up to     *)
(* two devices in one report.                                               *)
EXTENDS Application
=============================================================================
