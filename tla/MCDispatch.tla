----------------------------- MODULE MCDispatch -----------------------------
EXTENDS Dispatch

CONSTANTS d1, d2, sensor, config, u, v, f1

\* "Current" and "A" have a capital, "a_" is nothing for an identifier.
Words == {"device", "current", "Current", "command",
          "acme", "meter", "xpl", "group", "a", "A", "b", "roof", "a_"}
LowerCase == [w \in Words |-> CASE w = "Current" -> "current" [] w = "A" -> "a"
                                [] w = "a_" -> Illegal [] OTHER -> w]
PartMaxima == [vendor |-> 2, device |-> 2, instance |-> 2]

\* acme-meter.a and acme-meter.b are devices, xpl-group.roof is a group.
i1 == [vendor |-> <<"acme">>, device |-> <<"meter">>, instance |-> <<"a">>]
i2 == [i1 EXCEPT !.instance = <<"b">>]
g  == [vendor |-> <<"xpl">>, device |-> <<"group">>, instance |-> <<"roof">>]
Ids == {i1, i2}
GroupNames == {g.instance}

\* A program renames a device; the second name becomes small, the third is refused.
Renamings == {<<"instance", <<"b">>>>, <<"instance", <<"A">>>>, <<"vendor", <<"a_">>>>}

\* A manager asks d1 for its configuration.
Request ==
  PairAdd(SchemaSet(TargetIdSet(DeviceMessage(i2, "cmnd"), i1), config), "command", Blank)

\* The measurement of d1, set again before it is sent: the device is what it was, and
\* ends it.
Measurement ==
  LET kept == PairAdd(SchemaSet(BroadcastSet(TargetIdSet(DeviceMessage(i1, "stat"), i2), TRUE),
                                sensor), "device", u)
  IN  PairValuesSet(kept, <<Pair("Current", u), Pair("current", v),
                             Pair("device", u), Pair("current", u)>>)

\* An order to a group, without a body, from a vendor with a hyphen.
Order ==
  SourcePartSet(SchemaSet(TargetIdSet(DeviceMessage(i2, "cmnd"), g), sensor),
                "vendor", <<"acme", "meter">>)

\* Its target is not an identifier.
Stray == [TargetPartSet(Order, "vendor", <<"xpl">>) EXCEPT !.target.device = << >>]

Sent == {Request, Measurement, Order, Stray}

\* Whole datagrams outside; inside, a layer that may cut where the parser can
\* go on, and where it cannot.
Radio == {1, 3, 9}
Layers == [a \in App |-> IF a = "in" THEN Radio ELSE {}]

ASSUME OneRadio == OneCutter

Everything == [type |-> Star, schema |-> Star, source |-> Star]
Requests   == [type |-> Star, schema |-> config, source |-> i2]
Patterns   == {Everything, Requests}

First(f, p) == [func |-> f, for |-> p, heard |-> 0, new |-> FALSE]

\* d1 is configurable and in a group, d2 has a filter.
Arrangements ==
  {(d1 :> [id |-> i1, group |-> GroupNames, filter |-> {}, isreportownmsg |-> own,
           listener |-> <<First("prvConfigHandler", Requests), First(f1, Everything)>>])
   @@ (d2 :> [id |-> i2, group |-> {}, filter |-> filters, isreportownmsg |-> FALSE,
              listener |-> <<First(f1, Everything)>>])
   : own \in BOOLEAN, filters \in {{}, {Requests}}}
=============================================================================
