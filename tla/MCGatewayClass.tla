--------------------------- MODULE MCGatewayClass ---------------------------
EXTENDS GatewayClassSync
=============================================================================
