--------------------------- MODULE MCGatewayPoller ---------------------------
(* GatewayPoller on a small instance.  One tick is one second.             *)
EXTENDS GatewayPoller
=============================================================================
