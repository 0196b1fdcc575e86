---------------------------- MODULE MCPaperBroker ----------------------------
(***************************************************************************)
(* Instances of PaperBroker for TLC.                                       *)
(***************************************************************************)
EXTENDS PaperBroker
=============================================================================
