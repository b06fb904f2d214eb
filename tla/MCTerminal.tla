----------------------------- MODULE MCTerminal -----------------------------
(* A terminal window whose pipes hold two bytes.                           *)
EXTENDS Terminal
=============================================================================
