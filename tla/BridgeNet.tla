----------------------------- MODULE BridgeNet -----------------------------
(***************************************************************************)
(* The bridge between its two networks.  Inside, devices are switched on   *)
(* and off, die, and are moved to another radio module; outside, anybody   *)
(* sends to the devices inside and configures the bridge.  Packets get     *)
(* lost on the air and on the local network, and the bridge dies and is    *)
(* started again by its supervisor.                                        *)
(***************************************************************************)
EXTENDS Bridge

CONSTANT Outside    \* the messages of the outside world

\* Nobody outside speaks in the name of a device inside.
ASSUME BridgeNetAssumption ==
  /\ Outside \subseteq Message
  /\ \A m \in Outside : m.src \notin Id

VARIABLES
  on,         \* on[d]: does the device d run?
  where,      \* where[d]: the radio module it runs on
  mute        \* mute[d]: does its hello carry no address, whatever happens?

vars == <<up, clients, broadcast, allow, turn, polls, sweep, toIn, toOut, toNode, on, where, mute>>
devices == <<on, where, mute>>

Init ==
  /\ BridgeInit
  /\ on = [d \in Id |-> FALSE]
  /\ where \in [Id -> Place]
  /\ mute \in [Id -> BOOLEAN]

-----------------------------------------------------------------------------
FromInside(d, schema) ==
  [schema |-> schema, src |-> d, target |-> Everyone,
   place |-> IF schema = "basic" /\ ~mute[d] THEN where[d] ELSE NoPlace,
   interval |-> 0, hop |-> 1]

Send(d, schema) == toIn' = Push(toIn, FromInside(d, schema))

NodeSends(d, schema) ==
  /\ on[d] /\ Send(d, schema)
  /\ UNCHANGED <<bridgeState, toOut, toNode, devices>>

NodeStarts(d) ==
  /\ ~on[d]
  /\ on' = [on EXCEPT ![d] = TRUE]
  /\ \E p \in Place : where' = [where EXCEPT ![d] = p]
  /\ UNCHANGED <<bridgeVars, mute>>

NodeStops(d) ==
  /\ on[d]
  /\ on' = [on EXCEPT ![d] = FALSE]
  /\ Send(d, "end") \/ UNCHANGED toIn
  /\ UNCHANGED <<bridgeState, toOut, toNode, where, mute>>

\* A loss is noticed when the bridge would have read the packet.
LoseIn ==
  /\ turn = "in" /\ sweep = 0 /\ toIn # << >>
  /\ toIn' = Tail(toIn)
  /\ UNCHANGED <<bridgeState, toOut, toNode, devices>>

\* The hub relays a message of the outside world to the bridge, when it runs.
OutsideSends ==
  /\ up /\ \E m \in Outside : Len(toOut) < QueueLen /\ toOut' = Append(toOut, m)
  /\ UNCHANGED <<bridgeState, toIn, toNode, devices>>

LoseOut ==
  /\ turn = "out" /\ toOut # << >>
  /\ toOut' = Tail(toOut)
  /\ UNCHANGED <<bridgeState, toIn, toNode, devices>>

Next ==
  \/ (BridgeStep \/ BridgeCrash \/ BridgeStart \/ BridgeTick) /\ UNCHANGED devices
  \/ \E d \in Id : \/ \E schema \in {"basic", "sensor"} : NodeSends(d, schema)
                   \/ NodeStarts(d) \/ NodeStops(d)
  \/ OutsideSends \/ LoseIn \/ LoseOut

Spec == Init /\ [][Next]_vars

(***************************************************************************)
(* gxPLBridgePoll is called in an endless loop, a supervisor restarts the  *)
(* bridge, time passes, devices that run beat, and the radio is lossy but  *)
(* fair: a hello that is sent again and again is read in the end.          *)
(***************************************************************************)
BridgeHears(d) ==
  /\ PollInMessage /\ UNCHANGED devices
  /\ Head(toIn).schema = "basic" /\ Head(toIn).src = d

Fairness ==
  /\ WF_vars(BridgeStep /\ UNCHANGED devices)
  /\ WF_vars(BridgeStart /\ UNCHANGED devices)
  /\ SF_vars(BridgeTick /\ UNCHANGED devices)
  /\ \A d \in Id : SF_vars(NodeSends(d, "basic")) /\ SF_vars(BridgeHears(d))

\* Nobody goes on forever to change the radio network of the bridge.
Settled ==
  <>[][toIn # << >> /\ toOut # << >> /\ toOut' = Tail(toOut) =>
         ~NewNetwork(Head(toOut))]_vars

FairSpec == Spec /\ Fairness /\ Settled

-----------------------------------------------------------------------------
\* Type correctness of the bridge and of its links.
BridgeTypeOK ==
  /\ up \in BOOLEAN
  /\ clients \in Seq(Client)
  /\ broadcast \in BOOLEAN /\ allow \in SUBSET Schema
  /\ turn \in {"in", "out"}
  /\ polls \in 0 .. SweepPolls - 1
  /\ sweep \in 0 .. Len(clients) + 2
  /\ toIn \in Seq(Message)
  /\ toOut \in Seq(Message)
  /\ toNode \in [Place -> SUBSET Message]
  /\ on \in [Id -> BOOLEAN]
  /\ where \in [Id -> Place]
  /\ mute \in [Id -> BOOLEAN]

\* No device has two slots for one address, and none beside a slot without an
\* address: the search of prvHandleInnerMessage would have found it.
OneSlotPerPlace ==
  \A i, j \in DOMAIN clients :
    Matches(clients[i].id, clients[i].place, clients[j]) => i = j

\* With the limit of one hop, the default of both bridge programs, nothing that
\* was said inside comes back from outside, although the hub relays to the
\* bridge what the bridge itself has sent: a device hears the others directly or
\* as the bridge repeats them (hop 1), and once.
NoReflection ==
  MaxHop = 1 =>
    \A p \in Place : \A m \in toNode[p] : m.src \in Id => m.hop = 1

\* A device that runs and tells its address is known at the place where it runs, after it was moved,
\* after its slot was swept away or lost with the process: messages from outside
\* find it.
KnownWhereItIs ==
  <>[]up => \A d \in Id, p \in Place :
    on[d] /\ where[d] = p /\ ~mute[d] ~>
      \/ ~on[d] \/ where[d] # p
      \/ \E c \in ToSet(clients) : c.id = d /\ c.place = p

\* No slot outlives its device forever: that of a device which has been moved
\* is not removed by the goodbye that removes the first slot, and the sweep passes
\* over the slot behind one it removes.
GhostsGo ==
  \A d \in Id : ~on[d] ~> on[d] \/ \A c \in ToSet(clients) : c.id # d
=============================================================================
