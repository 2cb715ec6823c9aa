------------------------------ MODULE MCBridge ------------------------------
EXTENDS BridgeNet

CONSTANTS n1, p1, p2

ToInside(schema, target) ==
  [schema |-> schema, src |-> Everyone, target |-> target, place |-> NoPlace,
   interval |-> 0, hop |-> 1]

MCOutside ==
  {ToInside("request", Everyone), ToInside("sensor", n1), ToInside("response", BridgeId)}
=============================================================================
