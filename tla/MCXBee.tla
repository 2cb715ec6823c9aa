------------------------------- MODULE MCXBee -------------------------------
EXTENDS XBeeBridge

CONSTANTS p0, p1
=============================================================================
