------------------------------ MODULE MCPoBTests ------------------------------
(* PoBTests: one tester over TCP, a committee of up to three beside it.    *)
EXTENDS PoBTests
=============================================================================
