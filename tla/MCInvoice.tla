----------------------------- MODULE MCInvoice -----------------------------
(* Instances of Invoice for TLC.                                           *)
EXTENDS Invoice

CONSTANTS o1, o2
=============================================================================
