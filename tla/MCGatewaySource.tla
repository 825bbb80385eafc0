---------------------------- MODULE MCGatewaySource ----------------------------
(* GatewaySource for TLC.                                                       *)
EXTENDS GatewaySource, TLC

CONSTANTS r1, r2, h1, h2, a1, a2, c1, c2

=============================================================================
