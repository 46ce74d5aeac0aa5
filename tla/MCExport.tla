------------------------------- MODULE MCExport -------------------------------
(* A small instance of Export for TLC.                                       *)
EXTENDS Export
===============================================================================
