-------------------------------- MODULE MCSync --------------------------------
(* Sync with a block producer and a gossip handler beside it.              *)
EXTENDS Sync, TLC

MCKind == "producer" :> "own" @@ "handler" :> "gossip"
=============================================================================
