---------------------------- MODULE Configuration ----------------------------
(***************************************************************************)
(* The configuration of a configurable device: what a manager sets with    *)
(* config.response, and the file that keeps it over restarts               *)
(* (src/src/device_configurable.c, device_group.c, device_filter.c and     *)
(* src/src/sys/unix/device_configurable.c).  What a configuration does to  *)
(* the heartbeats is in Device.                                            *)
(***************************************************************************)
EXTENDS Naturals, Sequences, FiniteSets, SequencesExt

CONSTANTS
  Instance,          \* instance identifiers
  Generated,         \* those a device gets before it has a configuration
  Interval,          \* heartbeat intervals the program gives the device
  DefaultInterval,
  Minute,            \* ticks per minute
  Value,             \* values of items, groups and filters
  Blank,             \* the empty value; for groups and filters also a malformed one
  ItemSeq,           \* the items the program defines, in its order
  ItemMax,           \* ItemMax[n]: how many values it defines the item n for
  Default,           \* Default[n]: the first value of the item n
  Loose,             \* items the program also removes and defines again
  Reserved,          \* items whose name begins with "group" or "filter"
  Lower,             \* Lower[n]: the name of the item n in messages
  ListMax,           \* how many groups and filters a device has room for
  Body               \* the bodies of the config.responses that arrive

Lists == {"group", "filter"}
Name == Lists \cup ToSet(ItemSeq)
\* What no item is called: the lists, the reserved pairs, and the other lines of a file.
Taken == Lists \cup {"newconf", "interval", "type", "header"}
Pair == [name : {"newconf"}, value : Instance] \cup [name : {"interval"}, value : Nat]
        \cup [name : STRING \ {"newconf", "interval", "type"}, value : Value \cup {Blank}]
Maximum(n) == IF n \in Lists THEN ListMax[n] ELSE ItemMax[n]

ASSUME ConfigurationAssumption ==
  /\ Generated \subseteq Instance /\ Generated # {}
  /\ Minute \in Nat \ {0} /\ Interval \subseteq Nat /\ DefaultInterval \in Nat
  /\ ItemSeq \in Seq(STRING \ Taken) /\ IsInjective(ItemSeq)
  /\ Reserved \subseteq ToSet(ItemSeq) /\ Loose \subseteq ToSet(ItemSeq)
  /\ Default \in [ToSet(ItemSeq) -> Value] /\ Lower \in [ToSet(ItemSeq) -> STRING]
  /\ ItemMax \in [ToSet(ItemSeq) -> Nat \ {0}] /\ ListMax \in [Lists -> Nat \ {0}]
  /\ Body \subseteq Seq(Pair) /\ Blank \notin Value

VARIABLES
  running,   \* does the program run?
  device,    \* the configuration in its memory
  file,      \* the lines in the file
  pending,   \* lines a save has not written yet; empty between saves
  last,      \* the configuration of the last save that has opened the file
  saved      \* has that save written everything?

vars == <<running, device, file, pending, last, saved>>

\* havegroup and havefilter say that the list is not empty, and are left out.
NewDevice(i) ==
  [configured |-> FALSE, instance |-> i, interval |-> DefaultInterval,
   items |-> << >>, max |-> [n \in Name |-> IF n \in Lists THEN ListMax[n] ELSE 0],
   values |-> [n \in Name |-> << >>]]

\* Between two lives of the program.
NoDevice == NewDevice(CHOOSE i \in Generated : TRUE)

Init ==
  /\ running = FALSE /\ device = NoDevice
  /\ file = << >> /\ pending = << >>
  /\ last = NoDevice /\ saved = FALSE

-----------------------------------------------------------------------------
(* Pairs of a message or a file applied to a device (prvConfigSet)         *)

\* Mutant: one too many.
Past(s, n) == IF Len(s) <= n + 1 THEN s ELSE SubSeq(s, 1, n + 1)

Upto(s, n) == IF Len(s) <= n THEN s ELSE SubSeq(s, 1, n)

\* A group is "xpl-group." and a name, a filter has six parts.
IsGroup(p) == p.name = "group" /\ p.value # Blank
IsFilter(p) == p.name = "filter" /\ p.value # Blank

\* The values for n that are not refused.
Given(body, n) ==
  LET Meant(p) == p.name = n /\ (n \in Lists => IsGroup(p) \/ IsFilter(p))
  IN  FlattenSeq([i \in DOMAIN body |-> IF Meant(body[i]) THEN <<body[i].value>> ELSE << >>])

\* What is there stays; what does not fit, and what the device does not know, is
\* ignored (gxPLDeviceConfigValueAdd and its siblings for groups and filters).
Filled(d, body) ==
  [n \in Name |-> IF n \in Lists \cup ToSet(d.items)
                    THEN Upto(d.values[n] \o Given(body, n), d.max[n])
                    ELSE d.values[n]]

\* The last instance, and the last interval, that is not that of the device.
ConfigSet(d, body) ==
  LET renames == {i \in DOMAIN body : body[i].name = "newconf" /\ body[i].value # d.instance}
      retimes == {i \in DOMAIN body :
                    body[i].name = "interval" /\ body[i].value * Minute # d.interval}
  IN  [d EXCEPT
         !.configured = TRUE,
         !.instance = IF renames = {} THEN @ ELSE body[Max(renames)].value,
         !.interval = IF retimes = {} \/ body[Max(retimes)].value = 0 THEN @
                      ELSE body[Max(retimes)].value * Minute,
         !.values = Filled(d, body)]

\* Mutant: the groups of the last configuration stay.
ClearedItems(d) ==
  [d EXCEPT !.values = [n \in Name |-> IF n = "group" THEN @[n] ELSE << >>]]

\* prvConfigHandler makes room for the new values.
Cleared(d) == [d EXCEPT !.values = [n \in Name |-> << >>]]

-----------------------------------------------------------------------------
(* config.list, config.current and the file                                *)

Line(n, v) == [name |-> n, value |-> v]

\* reconf, config or option: a name, and how many values if more than one.
Defined(n, max) == Line("type", [name |-> n, values |-> IF max > 1 THEN max ELSE 1])

\* prvSendConfigList
ConfigList(d) ==
  <<Defined("newconf", 1), Defined("interval", 1),
    Defined("group", d.max["group"]), Defined("filter", d.max["filter"])>>
  \o [i \in DOMAIN d.items |-> Defined(d.items[i], d.max[d.items[i]])]

\* The values of n, under this name.
ValueLines(d, n, name) == [i \in DOMAIN d.values[n] |-> Line(name, d.values[n][i])]
ListLines(d, n) == IF d.values[n] = << >> THEN <<Line(n, Blank)>> ELSE ValueLines(d, n, n)

\* prvDeviceConfigSendCurrent, with these names for the items.
Values(d, name) ==
  <<Line("newconf", d.instance), Line("interval", d.interval \div Minute)>>
  \o ListLines(d, "group") \o ListLines(d, "filter")
  \o FlattenSeq([i \in DOMAIN d.items |-> ValueLines(d, d.items[i], name[d.items[i]])])

\* In messages names are in lower case (gxPLMessagePairAdd), in the file they are not.
Current(d) == Values(d, Lower)

\* Mutant: values before the definitions of their items.
FileOfValuesFirst(d) == <<Line("header", Blank)>> \o Values(d, [n \in ToSet(ItemSeq) |-> n]) \o ConfigList(d)

FileOf(d) == <<Line("header", Blank)>> \o ConfigList(d) \o Values(d, [n \in ToSet(ItemSeq) |-> n])

\* The items defined at the beginning, without those whose names begin like the
\* reserved ones.
DefinedItems(pairs) ==
  LET Defines(i) ==
        /\ \A j \in 1 .. i : pairs[j].name = "type"
        /\ pairs[i].value.name \notin Lists \cup {"newconf", "interval"} \cup Reserved
  IN  FlattenSeq([i \in DOMAIN pairs |-> IF Defines(i) THEN <<pairs[i].value>> ELSE << >>])

\* Mutant: without a number there is no room.
ConfigNewZero(d, pairs) ==
  LET items == DefinedItems(pairs)
      read(n) == (CHOOSE t \in ToSet(items) : t.name = n).values
  IN  [d EXCEPT !.items = [i \in DOMAIN items |-> items[i].name],
                !.max = [n \in Name |-> IF \E t \in ToSet(items) : t.name = n
                                         THEN IF read(n) > 1 THEN read(n) ELSE 0 ELSE @[n]]]

\* prvConfigNew
ConfigNew(d, pairs) ==
  LET items == DefinedItems(pairs)
      max(n) == (CHOOSE t \in ToSet(items) : t.name = n).values
  IN  [d EXCEPT !.items = [i \in DOMAIN items |-> items[i].name],
                !.max = [n \in Name |-> IF \E t \in ToSet(items) : t.name = n THEN max(n)
                                                                          ELSE @[n]]]

\* The pairs in the file, of a new device: it is neither enabled nor configured.
ConfigLoad(f) == IF Len(f) > 1 THEN Tail(f) ELSE << >>

\* Is there anything in the file but its header, if that?
IsLoadable(f) == ConfigLoad(f) # << >>

\* Lines that define items are unknown names to prvConfigSet.
Restored(f, i) ==
  IF IsLoadable(f) THEN ConfigSet(ConfigNew(NewDevice(i), ConfigLoad(f)), ConfigLoad(f))
                   ELSE NewDevice(i)

-----------------------------------------------------------------------------
(* gxPLDeviceConfigSave, its result is never looked at.                    *)

\* Mutant: the old lines stay until they are overwritten.
OpenToUpdate(d) ==
  /\ file' = file /\ pending' = FileOf(d)
  /\ last' = d /\ saved' = FALSE

\* The mode "w" truncates the file.
OpenFile(d) ==
  /\ file' = << >> /\ pending' = FileOf(d)
  /\ last' = d /\ saved' = FALSE

Save(d) ==
  \/ OpenFile(d)
  \/ UNCHANGED <<file, pending, last, saved>>

\* Stdio writes its buffer when it is full and at the end; a full disk and the file
\* system cut where they like: any number of lines.
WriteLines ==
  /\ running /\ pending # << >>
  /\ \E n \in 1 .. Len(pending) :
       /\ file' = file \o SubSeq(pending, 1, n)
       /\ pending' = SubSeq(pending, n + 1, Len(pending))
       /\ saved' = (n = Len(pending))
  /\ UNCHANGED <<running, device, last>>

-----------------------------------------------------------------------------
(* The program.                                                            *)

Idle == running /\ pending = << >>

\* gxPLDeviceConfigNew reads the file, and saves what it has read.
Start ==
  /\ ~running /\ running' = TRUE
  /\ \E i \in Generated : device' = Restored(file, i)
  /\ IF IsLoadable(file) THEN Save(device') ELSE UNCHANGED <<file, pending, last, saved>>

\* Calls of the program that change nothing but its device.
Edit(new) == Idle /\ device' = new /\ UNCHANGED <<running, file, pending, last, saved>>

\* A device that was not configured gets its items and their first values
\* (gxPLDeviceConfigItemAdd and gxPLDeviceConfigValueSet for each).
Prime ==
  /\ ~device.configured /\ device.items = << >>
  /\ Edit([device EXCEPT
       !.items = ItemSeq, !.max = [n \in Name |-> Maximum(n)],
       !.values = [n \in Name |-> IF n \in Lists THEN @[n] ELSE <<Default[n]>>]])

ItemAdd(n) ==
  /\ n \notin ToSet(device.items)
  /\ Edit([device EXCEPT !.items = Append(@, n), !.max[n] = ItemMax[n]])

ItemRemove(n) ==
  \E i \in DOMAIN device.items :
    /\ device.items[i] = n
    /\ Edit([device EXCEPT !.items = RemoveAt(@, i), !.max[n] = 0, !.values[n] = << >>])

\* gxPLDeviceConfigItemClearAll
ItemClearAll ==
  Edit([device EXCEPT !.values = [n \in Name |-> IF n \in Lists THEN @[n] ELSE << >>]])

ValueClearAll(n) == n \in ToSet(device.items) /\ Edit([device EXCEPT !.values[n] = << >>])

\* What does not fit is refused.
ValueAdd(n, v) ==
  /\ n \in ToSet(device.items)
  /\ Edit([device EXCEPT !.values[n] = Upto(Append(@, v), device.max[n])])

\* A value that is not there yet is added at the end.
ValueSetAt(n, i, v) ==
  IF i \in DOMAIN device.values[n]
  THEN n \in ToSet(device.items) /\ Edit([device EXCEPT !.values[n][i] = v])
  ELSE ValueAdd(n, v)

ValueSet(n, v) == ValueSetAt(n, 1, v)

\* gxPLDeviceHeartbeatIntervalSet
SetInterval(i) ==
  Edit([device EXCEPT !.interval = i])

\* A config.response (prvConfigHandler).  The program primes before it polls.
Response(body) ==
  /\ Idle
  /\ device.configured \/ device.items # << >>
  /\ device' = ConfigSet(Cleared(device), body)
  /\ Save(device')
  /\ UNCHANGED running

Crash ==
  /\ running /\ running' = FALSE
  /\ device' = NoDevice /\ pending' = << >>
  /\ UNCHANGED <<file, last, saved>>

Next ==
  \/ Start \/ Prime \/ WriteLines \/ Crash
  \/ \E n \in Loose : ItemAdd(n) \/ ItemRemove(n) \/ ValueClearAll(n)
  \/ \E n \in Loose, v \in Value : ValueSet(n, v)
  \/ \E n \in ToSet(ItemSeq) \ Loose, v \in Value : ValueSetAt(n, 2, v)
  \/ ItemClearAll
  \/ \E i \in Interval : SetInterval(i)
  \/ \E body \in Body : Response(body)

Spec == Init /\ [][Next]_vars

-----------------------------------------------------------------------------
\* Type correctness of the device, of the save and of the file.
ConfigurationTypeOK ==
  /\ running \in BOOLEAN /\ saved \in BOOLEAN
  /\ device.configured \in BOOLEAN
  /\ device.instance \in Instance /\ device.interval \in Nat
  /\ IsInjective(device.items) /\ ToSet(device.items) \subseteq ToSet(ItemSeq)
  /\ \A d \in {device, last}, n \in Name :
       /\ Len(d.values[n]) <= d.max[n]
       /\ d.max[n] = IF n \in Lists \cup ToSet(d.items) THEN Maximum(n) ELSE 0
       /\ ToSet(d.values[n]) \subseteq Value \cup (IF n \in Lists THEN {} ELSE {Blank})
       /\ d.max[n] = 0 => d.values[n] = << >>
  /\ pending # << >> => running
  /\ saved => pending = << >>

\* The file and config.current count in minutes; less than one says nothing.
InMinutes(i, otherwise) == IF i \div Minute = 0 THEN otherwise ELSE (i \div Minute) * Minute

\* A save that came to its end (gxPLDeviceConfigSave) can be restored by
\* gxPLDeviceConfigNew until the next one begins, whatever happens in between:
\* items and their maxima, values in their order, groups, filters, instance, and the interval in
\* whole minutes.
Restorable ==
  saved => \A i \in Generated : Restored(file, i) =
    [last EXCEPT !.configured = TRUE, !.interval = InMinutes(@, DefaultInterval)]

\* A save that was interrupted never leaves a mixture with an older one: what can be
\* restored is the beginning of the newer configuration, and what a new device has otherwise.
NothingMixed ==
  IsLoadable(file) => \A i \in Generated : LET r == Restored(file, i) IN
    /\ r.instance \in {i, last.instance}
    /\ r.interval \in {DefaultInterval, InMinutes(last.interval, DefaultInterval)}
    /\ IsPrefix(r.items, last.items)
    /\ \A n \in Lists \cup ToSet(r.items) :
         r.max[n] = last.max[n] /\ IsPrefix(r.values[n], last.values[n])

\* A manager that sends back what config.current said (prvDeviceConfigSendCurrent)
\* changes nothing, but that the interval is in whole minutes from then on: of a device
\* whose items have no capitals in their names.
EchoChangesNothing ==
  running /\ (\A n \in ToSet(device.items) : Lower[n] = n) =>
    ConfigSet(Cleared(device), Current(device)) =
      [device EXCEPT !.configured = TRUE, !.interval = InMinutes(@, @)]

\* Does the body keep to a config.list?
KeepsTo(body, list) ==
  \A n \in {p.name : p \in ToSet(body)} \ {"newconf", "interval"} :
    \E t \in ToSet(list) :
      /\ t.value.name = n
      /\ Cardinality({i \in DOMAIN body : body[i].name = n}) <= t.value.values

\* A manager that keeps to config.list (prvSendConfigList) is obeyed: a response with
\* no more values than announced, for the items announced, is taken to the last value,
\* also when the items are those of a file that was read at the start.
ListIsHonest ==
  running => \A body \in Body :
    KeepsTo(body, ConfigList(device)) =>
      LET d == ConfigSet(Cleared(device), body)
      IN  \A n \in {p.name : p \in ToSet(body)} \cap Name : d.values[n] = Given(body, n)
=============================================================================
