------------------------------- MODULE MCProposer -------------------------------
(* Proposer with this node and two others: a, of any status, is before or *)
(* behind this node in State's list, and q, active or not, is the last.    *)
(* Three VRF values tell the halves and thirds of a range apart.  Peers'   *)
(* blocks may lower the height, so that two heights hold any number of     *)
(* retarget windows.                                                       *)
EXTENDS Proposer, TLC

CONSTANTS a, p, q

MCOrders == {<<p, a, q>>, <<a, p, q>>}
MCStored == {f \in [Validators -> Status] : f[p] = "active" /\ f[q] # "suspended"}
=============================================================================
