----------------------------- MODULE MCGatewayPlane ----------------------------
EXTENDS GatewayPlane, TLC
CONSTANTS t1, t2, c1
Mono == (t1 :> c1) @@ (t2 :> c1)
================================================================================
