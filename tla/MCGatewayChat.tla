---------------------------- MODULE MCGatewayChat ----------------------------
(* Two requests of one key share the event loop, the catalogue and the     *)
(* custom provider's configuration.                                        *)
EXTENDS GatewayChat

CONSTANTS r1, r2

=============================================================================
