------------------------------ MODULE MCP2PNode ------------------------------
(* P2PNode with one peer, whose streams share its limit.                   *)
EXTENDS P2PNode
=============================================================================
