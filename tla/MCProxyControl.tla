---------------------------- MODULE MCProxyControl ----------------------------
(* Two requests replace the proxy, a third uses the Sidecar's own routes.  *)
EXTENDS ProxyControl

CONSTANTS a, b, api, direct, p1, p2

=============================================================================
