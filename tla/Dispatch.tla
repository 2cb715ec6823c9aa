------------------------------ MODULE Dispatch ------------------------------
(***************************************************************************)
(* From a valid message to the listeners of the program: the message       *)
(* listeners of the application, of which prvDeviceMessageDispatcher is    *)
(* the first, the devices, and the listeners of each device                *)
(* (src/src/gxpl.c, device.c, device_filter.c, device_group.c).  Listeners *)
(* are functions of the program, and may call the library while the        *)
(* message is on its way.  The heartbeats that the same messages set off   *)
(* are in Device.                                                          *)
(***************************************************************************)
EXTENDS Reception

CONSTANTS
  Device,      \* devices of the program
  Id,          \* the identifiers it gives them, as it writes them
  NewPart,     \* and the parts it changes in them, <<part, what>>
  GroupName,   \* the names of their groups
  Func,        \* functions the program registers
  ConfigHandler, Configurations, \* prvConfigHandler, and the messages it is registered for
  Pattern,     \* types and schemas they are registered for, filters of devices
  Arrangement, \* how the program may have arranged its devices at the start
  ListenerMax, \* bound: elements of a vector of listeners
  CallMax      \* bound: calls of the library by the program

Dispatcher == "prvDeviceMessageDispatcher"

\* heard and new are history: how often it has been called for this message,
\* and whether it was registered in the meantime.
Listener == [func : Func, for : Pattern, heard : Nat, new : BOOLEAN]

DeviceRecords == [id : Identifier, group : SUBSET GroupName, filter : SUBSET Pattern,
                  isreportownmsg : BOOLEAN, listener : Seq(Listener)]

\* Programs have no access to prvDeviceMessageDispatcher, which is static.
ASSUME DispatchAssumption ==
  /\ ConfigHandler \in Func /\ Configurations \in Pattern
  /\ Dispatcher \notin Func /\ None \notin Device /\ IsFiniteSet(Device)
  /\ Id \subseteq Identifier /\ NewPart \subseteq (DOMAIN PartMax) \X Part
  /\ Arrangement \subseteq [Device -> DeviceRecords]
  /\ \A arranged \in Arrangement : \A d \in Device :
       /\ Len(arranged[d].listener) <= ListenerMax
       /\ \A l \in ToSet(arranged[d].listener) : l.heard = 0
  /\ ListenerMax \in Nat \ {0}

VARIABLES
  dev,        \* the devices
  devices,    \* app->device
  listeners,  \* app->msg_listener
  at,         \* how far the message has come
  calls       \* how many calls the program has made

dispatchVars == <<dev, devices, listeners, at, calls>>
vars == <<receptionVars, dispatchVars>>

Registered(f, p) == [func |-> f, for |-> p, heard |-> 0, new |-> current # None]

\* i, j, k: indexes of the three loops, 0 outside; d: the device of the second;
\* in: is a function of the program running?  quiet: history, nothing has been
\* taken away or retuned since the message came.
Nowhere == [i |-> 0, j |-> 0, k |-> 0, d |-> None, in |-> FALSE, quiet |-> TRUE]

-----------------------------------------------------------------------------
(* What is meant for whom *)

Matches(p) ==
  /\ p.type \in {Star, current.type}
  /\ p.schema \in {Star, current.schema}

\* gxPLMessageFilterMatch
FilterMatch(p) == Matches(p) /\ p.source \in {Star, current.source}

\* gxPLDeviceMessageHandler lets the current message through to the listeners.
\* havefilter and havegroup say that the lists are not empty, and are left out.
Accepts(d) ==
  /\ dev[d].isreportownmsg \/ current.source # dev[d].id
  /\ CASE current.isbroadcast ->
            dev[d].filter = {} \/ \E p \in dev[d].filter : FilterMatch(p)
       [] current.isgrouped -> current.target.instance \in dev[d].group
       [] OTHER -> current.target = dev[d].id

-----------------------------------------------------------------------------
(* The loops *)

Forget(s) == [n \in DOMAIN s |-> [s[n] EXCEPT !.heard = 0, !.new = FALSE]]

\* gxPLAppPoll: a valid message starts on its way.
Receive(a, t, n) ==
  /\ Poll(a, t, n)
  /\ at' = IF current' = None THEN Nowhere ELSE [Nowhere EXCEPT !.i = 1]
  /\ UNCHANGED <<dev, devices, listeners, calls>>

\* The next message listener, or the end of them.
NextListener ==
  /\ current # None /\ at.j = 0 /\ ~at.in
  /\ IF at.i > Len(listeners)
     THEN /\ Release
          /\ at' = Nowhere
          /\ dev' = [d \in Device |-> [dev[d] EXCEPT !.listener = Forget(@)]]
     ELSE /\ at' = IF listeners[at.i] = Dispatcher THEN [at EXCEPT !.j = 1]
                                                   ELSE [at EXCEPT !.in = TRUE]
          /\ UNCHANGED <<receptionVars, dev>>
  /\ UNCHANGED <<devices, listeners, calls>>

\* Mutant: the first device that is not meant ends the loop.
NextMeantDevice ==
  /\ at.j > 0 /\ at.k = 0
  /\ at' = IF at.j > Len(devices) \/ ~Accepts(devices[at.j])
           THEN [at EXCEPT !.j = 0, !.i = @ + 1]
           ELSE [at EXCEPT !.k = 1, !.d = devices[at.j]]
  /\ UNCHANGED <<receptionVars, dev, devices, listeners, calls>>

\* prvDeviceMessageDispatcher: the next device, or the end of them.
NextDevice ==
  /\ at.j > 0 /\ at.k = 0
  /\ at' = IF at.j > Len(devices) THEN [at EXCEPT !.j = 0, !.i = @ + 1]
           ELSE IF Accepts(devices[at.j]) THEN [at EXCEPT !.k = 1, !.d = devices[at.j]]
           ELSE [at EXCEPT !.j = @ + 1]
  /\ UNCHANGED <<receptionVars, dev, devices, listeners, calls>>

\* prvDeviceDispatchEvent: the next listener of the device, or the end of them.
NextDeviceListener ==
  LET l == dev[at.d].listener
  IN  /\ at.k > 0 /\ ~at.in
      /\ IF at.k > Len(l)
         THEN /\ at' = [at EXCEPT !.k = 0, !.d = None, !.j = @ + 1]
              /\ UNCHANGED dev
         ELSE IF Matches(l[at.k].for)
         THEN /\ at' = [at EXCEPT !.in = TRUE]
              /\ dev' = [dev EXCEPT ![at.d].listener[at.k].heard = @ + 1]
         ELSE /\ at' = [at EXCEPT !.k = @ + 1]
              /\ UNCHANGED dev
      /\ UNCHANGED <<receptionVars, devices, listeners, calls>>

\* A function of the program returns.
Return ==
  /\ at.in
  /\ at' = IF at.k > 0 THEN [at EXCEPT !.in = FALSE, !.k = @ + 1]
                       ELSE [at EXCEPT !.in = FALSE, !.i = @ + 1]
  /\ UNCHANGED <<receptionVars, dev, devices, listeners, calls>>

-----------------------------------------------------------------------------
(* Calls of the program: between two messages, or from a function of its own *)

MayCall == calls < CallMax /\ (current = None \/ at.in)
Call == MayCall /\ calls' = calls + 1

Disturb == at' = [at EXCEPT !.quiet = current = None]

\* Which listener iVectorFindFirstIndex finds for f, 0 for none: the first for
\* which the comparison returns 0, as gxPLIdCmp and strcmp do for equals; but
\* prvListenerMatch returns 0 for functions that are not equal.
FindFirst(functions, f) == SelectInSeq(functions, LAMBDA g : g # f)

\* Mutant: the newest listener comes first.
ListenerAddFirst(d, f, p) ==
  /\ Call /\ d \in ToSet(devices) /\ Len(dev[d].listener) < ListenerMax
  /\ dev' = [dev EXCEPT ![d].listener = <<Registered(f, p)>> \o @]
  /\ UNCHANGED <<receptionVars, devices, listeners, at>>

ListenerAdd(d, f, p) ==
  /\ Call /\ d \in ToSet(devices) /\ Len(dev[d].listener) < ListenerMax
  /\ dev' = [dev EXCEPT ![d].listener = Append(@, Registered(f, p))]
  /\ UNCHANGED <<receptionVars, devices, listeners, at>>

ListenerRemove(d, f) ==
  LET n == FindFirst([i \in DOMAIN dev[d].listener |-> dev[d].listener[i].func], f)
  IN  /\ Call /\ d \in ToSet(devices) /\ n > 0
      /\ dev' = [dev EXCEPT ![d].listener = RemoveAt(@, n)]
      /\ Disturb
      /\ UNCHANGED <<receptionVars, devices, listeners>>

MessageListenerAdd(f) ==
  /\ Call /\ Len(listeners) < ListenerMax
  /\ listeners' = Append(listeners, f)
  /\ UNCHANGED <<receptionVars, dev, devices, at>>

MessageListenerRemove(f) ==
  LET n == FindFirst(listeners, f)
  IN  /\ Call /\ n > 0
      /\ listeners' = RemoveAt(listeners, n)
      /\ Disturb
      /\ UNCHANGED <<receptionVars, dev, devices>>

\* A second device of an identifier is not added.
Enlist(d, parts, l) ==
  /\ Call /\ d \notin ToSet(devices)
  /\ IdCopy(parts) # Illegal /\ \A o \in ToSet(devices) : dev[o].id # IdCopy(parts)
  /\ devices' = Append(devices, d)
  /\ dev' = [dev EXCEPT ![d] = [id |-> IdCopy(parts), group |-> {}, filter |-> {},
                                isreportownmsg |-> FALSE, listener |-> l]]
  /\ UNCHANGED <<receptionVars, listeners, at>>

AddDevice(d, parts) == Enlist(d, parts, << >>)

\* Its instance is generated: id stands for what the address and the clock give.
AddConfigurableDevice(d, id) == Enlist(d, id, <<Registered(ConfigHandler, Configurations)>>)

\* gxPLAppRemoveDevice: the first device with the identifier of d goes.  Programs
\* do not remove the device that is listening.
RemoveDevice(d) ==
  LET n == SelectInSeq(devices, LAMBDA o : dev[o].id = dev[d].id)
  IN  /\ Call /\ d \in ToSet(devices) /\ devices[n] # at.d
      /\ devices' = RemoveAt(devices, n)
      /\ dev' = [dev EXCEPT ![devices[n]].listener = << >>]
      /\ Disturb
      /\ UNCHANGED <<receptionVars, listeners>>

\* What else the program, or its configuration, changes of a device.
Retune(d, new) ==
  /\ Call /\ d \in ToSet(devices) /\ new # dev[d]
  /\ dev' = [dev EXCEPT ![d] = new]
  /\ Disturb
  /\ UNCHANGED <<receptionVars, devices, listeners>>

IdSet(d, id) ==
  MayCall /\ IdCopy(id) # Illegal /\ Retune(d, [dev[d] EXCEPT !.id = IdCopy(id)])

\* gxPLDeviceVendorIdSet and its like, on a copy of the identifier.
PartIdSet(d, k, part) ==
  MayCall /\ Suits(k, part) /\ IdSet(d, PartSet(dev[d].id, k, part))

\* The name is kept as it is written: one with a capital is never addressed.
GroupAdd(d, g)  == Retune(d, [dev[d] EXCEPT !.group = @ \cup {g}])
GroupClear(d)   == Retune(d, [dev[d] EXCEPT !.group = {}])
FilterAdd(d, p) == Retune(d, [dev[d] EXCEPT !.filter = @ \cup {p}])
FilterClear(d)  == Retune(d, [dev[d] EXCEPT !.filter = {}])
ReportOwnMessagesSet(d, b) == Retune(d, [dev[d] EXCEPT !.isreportownmsg = b])

-----------------------------------------------------------------------------
Init ==
  /\ ReceptionInit
  /\ \E arranged \in Arrangement : dev = arranged
  /\ devices = SetToSeq(Device)
  /\ listeners = <<Dispatcher>>
  /\ at = Nowhere /\ calls = 0

Next ==
  \/ \E a \in App : \E t \in Coming(a) : \E n \in Ends(a, t) : Receive(a, t, n)
  \/ NextListener
  \/ NextDevice
  \/ NextDeviceListener
  \/ Return
  \/ \E f \in Func : MessageListenerAdd(f) \/ MessageListenerRemove(f)
  \/ \E d \in Device :
       \/ \E f \in Func : ListenerRemove(d, f) \/ \E p \in Pattern : ListenerAdd(d, f, p)
       \/ \E id \in Id : AddDevice(d, id) \/ AddConfigurableDevice(d, id) \/ IdSet(d, id)
       \/ \E new \in NewPart : PartIdSet(d, new[1], new[2])
       \/ \E g \in GroupName : GroupAdd(d, g)
       \/ \E p \in Pattern : FilterAdd(d, p)
       \/ GroupClear(d) \/ FilterClear(d) \/ RemoveDevice(d)
       \/ \E b \in BOOLEAN : ReportOwnMessagesSet(d, b)

Spec == Init /\ [][Next]_vars

-----------------------------------------------------------------------------
Positions ==
  [i : Nat, j : Nat, k : Nat, d : Device \cup {None}, in : BOOLEAN, quiet : BOOLEAN]

VectorsOK ==
  /\ dev \in [Device -> DeviceRecords] /\ \A d \in Device : Len(dev[d].listener) <= ListenerMax
  /\ devices \in Seq(Device) /\ IsInjective(devices)
  /\ listeners \in Seq(Func \cup {Dispatcher}) /\ Len(listeners) <= ListenerMax
  /\ at \in Positions
  /\ current = None => at = Nowhere
  /\ at.k > 0 <=> at.d # None
  /\ at.d # None => at.d \in ToSet(devices)

DispatchTypeOK == ReceptionTypeOK /\ VectorsOK

(* While the functions of the program add, remove and retune, the loops of
   gxpl.c:156, gxpl.c:378 and device.c:172 go over vectors that change: no
   listener is called twice for a message. *)
HeardOnce ==
  \A d \in Device : \A n \in DOMAIN dev[d].listener : dev[d].listener[n].heard <= 1

(* When a message has made its way and nothing was taken away meanwhile, each
   listener that was there when it came has been called if its device is meant
   and its pattern matches, and not otherwise, whatever was added meanwhile. *)
NobodyMissed ==
  (current # None /\ at.i > Len(listeners) /\ at.quiet /\ Dispatcher \in ToSet(listeners)) =>
    \A d \in ToSet(devices) : \A n \in DOMAIN dev[d].listener :
      LET l == dev[d].listener[n]
      IN  ~l.new => (l.heard = 1 <=> Accepts(d) /\ Matches(l.for))

(* Of the listeners that are registered, the one the program asks to remove
   is the one that is removed, of the listeners of a
   device and of those of the application (include/gxPL/device.h:115,
   include/gxPL.h:289). *)
RemovesThatOne ==
  [][\A f \in Func :
       /\ \A d \in Device : (\E l \in ToSet(dev[d].listener) : l.func = f) /\ ListenerRemove(d, f) =>
            SelectSeq(dev[d].listener, LAMBDA l : l.func # f) =
              SelectSeq(dev[d].listener', LAMBDA l : l.func # f)
       /\ f \in ToSet(listeners) /\ MessageListenerRemove(f) =>
            SelectSeq(listeners, LAMBDA l : l # f) = SelectSeq(listeners', LAMBDA l : l # f)]_vars
=============================================================================
