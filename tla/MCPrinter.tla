------------------------------ MODULE MCPrinter ------------------------------
(* The printer driver with short messages and a small mailbox.              *)
EXTENDS Printer
=============================================================================
