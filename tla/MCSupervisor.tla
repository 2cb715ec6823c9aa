---------------------------- MODULE MCSupervisor ----------------------------
EXTENDS HubProgram

CONSTANTS s1, ip1
=============================================================================
