------------------------------- MODULE Bridge -------------------------------
(***************************************************************************)
(* The bridge (src/src/bridge.c) between a radio network inside, where it  *)
(* plays the hub, and the local network outside, where it is a client of   *)
(* the hub: what it sends there comes back to it.  It keeps a table of the *)
(* devices inside, lets messages cross both ways under a limit of hops,    *)
(* and is configured from outside.                                         *)
(***************************************************************************)
EXTENDS Naturals, Sequences, FiniteSets, SequencesExt

CONSTANTS
  Id,          \* identifiers of the devices inside
  BridgeId,    \* the identifier of the bridge's own device
  Everyone,    \* the target of a broadcast message
  Place,       \* addresses of the radio modules inside
  NoPlace,     \* no address: the family gxPLNetFamilyUnknown
  MaxHop,      \* bridge->max_hop
  AllowLists,  \* the lists of schemas a configuration may allow
  Minute,      \* 60 seconds, in ticks of the clock
  MaxAge,      \* bound: ages (now - hbeat_last) saturate here
  QueueLen,    \* bound: messages waiting on one link
  SweepPolls   \* polls that add up to the 60000 ms between two sweeps

\* The messages, by schema; "basic" stands for hbeat.basic and config.basic.
Schema == {"basic", "end", "request", "response", "sensor"}

ASSUME BridgeAssumption ==
  /\ NoPlace \notin Place
  /\ BridgeId \notin Id /\ Everyone \notin Id /\ Everyone # BridgeId
  /\ MaxHop \in 1 .. 9
  /\ AllowLists \subseteq SUBSET Schema
  /\ Minute \in Nat \ {0} /\ MaxAge \in Nat
  /\ QueueLen \in Nat \ {0} /\ SweepPolls \in Nat \ {0}

Message ==
  [schema : Schema, src : Id \cup {Everyone}, target : Id \cup {BridgeId, Everyone},
   place : Place \cup {NoPlace}, interval : Nat, hop : Nat]

VARIABLES
  up,         \* does the bridge process run?
  clients,    \* bridge->clients; idle stands for now - hbeat_last
  broadcast,  \* gxPLAppSetting (bridge->in)->broadcast
  allow,      \* bridge->allow
  turn,       \* the application gxPLBridgePoll polls next, "in" or "out"
  polls,      \* bridge->timeout, counted in polls
  sweep,      \* index of the next client the sweep examines, 0 outside it
  toIn,       \* packets of the radio modules, waiting on the serial port
  toOut,      \* datagrams on their way from the hub to the bridge
  toNode      \* toNode[p]: the packets the last poll sent to the module p

bridgeState == <<up, clients, broadcast, allow, turn, polls, sweep>>
links       == <<toIn, toOut, toNode>>
bridgeVars  == <<up, clients, broadcast, allow, turn, polls, sweep, toIn, toOut, toNode>>

Client == [id : Id, place : Place \cup {NoPlace}, hbeat_period_max : Nat, idle : 0 .. MaxAge]

Push(q, m) == IF Len(q) < QueueLen THEN Append(q, m) ELSE q

Silence == [p \in Place |-> {}]

Expired(c) == c.idle > c.hbeat_period_max

\* gxPLBridgeDeviceSet: the values of a bridge that is not configured yet.
BridgeInit ==
  /\ up = TRUE
  /\ clients = << >>
  /\ broadcast = FALSE /\ allow = {"request"}
  /\ turn = "in" /\ polls = 0 /\ sweep = 0
  /\ toIn = << >> /\ toOut = << >> /\ toNode = Silence

-----------------------------------------------------------------------------
(* The table of the clients.                                               *)

\* Mutant: the addresses are not compared.
MatchesById(id, place, c) == c.id = id

\* prvClientMatch: an unknown address, on either side, matches every address.
Matches(id, place, c) ==
  /\ c.id = id
  /\ place # NoPlace /\ c.place # NoPlace => c.place = place

\* i is the slot a search of the vector returns.
FirstMatch(i, id, place) ==
  /\ i \in DOMAIN clients
  /\ Matches(id, place, clients[i])
  /\ \A j \in DOMAIN clients : j < i => ~Matches(id, place, clients[j])

IsKnown(id, place) == \E i \in DOMAIN clients : Matches(id, place, clients[i])

Period(m) == m.interval * Minute * 2 + Minute

\* Mutant: the vector is not searched before the client is appended.
AddClientBlindly(m) ==
  /\ clients' = Append(clients, [id |-> m.src, place |-> m.place,
                                 hbeat_period_max |-> Period(m), idle |-> 0])

AddClient(m) ==
  /\ ~IsKnown(m.src, m.place)
  /\ clients' = Append(clients, [id |-> m.src, place |-> m.place,
                                 hbeat_period_max |-> Period(m), idle |-> 0])

\* A slot keeps the address it was made with.
RefreshClient(m) ==
  \E i \in DOMAIN clients :
    /\ FirstMatch(i, m.src, m.place)
    /\ clients' = [clients EXCEPT ![i].hbeat_period_max = Period(m), ![i].idle = 0]

\* The address of a goodbye is not read: the first slot of the identifier goes.
RemoveClient(m) ==
  \/ \E i \in DOMAIN clients :
       FirstMatch(i, m.src, NoPlace) /\ clients' = RemoveAt(clients, i)
  \/ ~IsKnown(m.src, NoPlace) /\ UNCHANGED clients

UpdateClients(m) ==
  \/ m.schema = "basic" /\ (AddClient(m) \/ RefreshClient(m))
  \/ m.schema = "end" /\ RemoveClient(m)
  \/ m.schema \notin {"basic", "end"} /\ UNCHANGED clients

-----------------------------------------------------------------------------
(* From inside to outside.                                                 *)

\* The slot that has just been added or refreshed by m, seen after the update.
EchoPlaces(m) ==
  {clients'[i].place : i \in {j \in DOMAIN clients' :
      /\ Matches(m.src, m.place, clients'[j])
      /\ \A k \in DOMAIN clients' : k < j => ~Matches(m.src, m.place, clients'[k])}}

\* The radio of the bridge, a coordinator, sends m to some modules, or to all.
RadioSend(m, places) == toNode' = [p \in Place |-> IF p \in places THEN {m} ELSE {}]

\* Everyone inside hears m again, or the client that says hello alone.
EchoInside(m) ==
  RadioSend(m, CASE broadcast -> Place
                 [] ~broadcast /\ m.schema = "basic" -> EchoPlaces(m)
                 [] OTHER -> {})

\* Mutant: the hop is not counted on the way out.
CrossOutUncounted(m) ==
  toOut' = IF m.hop <= MaxHop THEN Push(toOut, m) ELSE toOut

\* What the bridge sends outside comes back through the hub.
CrossOut(m) ==
  toOut' = IF m.hop <= MaxHop THEN Push(toOut, [m EXCEPT !.hop = @ + 1]) ELSE toOut

\* gxPLAppPoll of the inner application, with a message, and without one.
PollInMessage ==
  /\ up /\ turn = "in" /\ sweep = 0
  /\ toIn # << >>
  /\ toIn' = Tail(toIn)
  /\ LET m == Head(toIn) IN UpdateClients(m) /\ EchoInside(m) /\ CrossOut(m)
  /\ turn' = "out"
  /\ UNCHANGED <<up, broadcast, allow, polls, sweep>>

PollInIdle ==
  /\ up /\ turn = "in" /\ sweep = 0
  /\ toIn = << >>
  /\ turn' = "out" /\ toNode' = Silence
  /\ UNCHANGED <<up, clients, broadcast, allow, polls, sweep, toIn, toOut>>

-----------------------------------------------------------------------------
(* From outside to inside.                                                 *)

\* The clients that m is delivered to when the bridge does not broadcast.
Wants(c, m) == c.id = m.target \/ m.schema \in allow

\* A client without an address is sent to the null address, where nobody is.  The
\* copies for several clients of one module are one packet here.
CrossIn(m) ==
  LET crossed == [m EXCEPT !.hop = @ + 1]
      wanted  == {p \in Place : broadcast \/ \E c \in ToSet(clients) : c.place = p /\ Wants(c, m)}
  IN  RadioSend(crossed, IF m.hop <= MaxHop THEN wanted ELSE {})

IsConfiguration(m) == m.schema = "response" /\ m.target = BridgeId

\* A configuration may change the radio network: the inner application is closed
\* and opened again, the table stays, what was on the air is lost.
NewNetwork(m) == IsConfiguration(m) /\ toIn' = << >> /\ toNode' = Silence

\* A config.response to the device of the bridge takes effect after it has crossed.
Configure(m) ==
  /\ IsConfiguration(m)
  /\ broadcast' \in BOOLEAN /\ allow' \in AllowLists
  /\ (CrossIn(m) /\ UNCHANGED toIn) \/ NewNetwork(m)

\* Mutants: bridge->timeout is not reset; the loop starts with the second client.
CountPollOnly ==
  polls' = polls + 1 /\ sweep' = IF polls + 1 >= SweepPolls THEN 1 ELSE 0

CountPollFromTwo ==
  IF polls + 1 >= SweepPolls THEN polls' = 0 /\ sweep' = 2
                             ELSE polls' = polls + 1 /\ sweep' = 0

CountPoll ==
  IF polls + 1 >= SweepPolls THEN polls' = 0 /\ sweep' = 1
                             ELSE polls' = polls + 1 /\ sweep' = 0

\* gxPLAppPoll of the outer application, with a message, and without one; the
\* poll of the bridge ends with it.
PollOutMessage ==
  /\ up /\ turn = "out"
  /\ toOut # << >>
  /\ toOut' = Tail(toOut)
  /\ LET m == Head(toOut) IN
       \/ Configure(m)
       \/ ~IsConfiguration(m) /\ CrossIn(m) /\ UNCHANGED <<broadcast, allow, toIn>>
  /\ turn' = "in" /\ CountPoll
  /\ UNCHANGED <<up, clients>>

PollOutIdle ==
  /\ up /\ turn = "out"
  /\ toOut = << >>
  /\ turn' = "in" /\ CountPoll /\ toNode' = Silence
  /\ UNCHANGED <<up, clients, broadcast, allow, toIn, toOut>>

\* After a removal the vector has shifted and the index moves on all the same.
SweepStep ==
  /\ up /\ sweep \in DOMAIN clients
  /\ clients' = IF Expired(clients[sweep]) THEN RemoveAt(clients, sweep) ELSE clients
  /\ sweep' = sweep + 1
  /\ UNCHANGED <<up, broadcast, allow, turn, polls, links>>

SweepEnd ==
  /\ up /\ sweep > Len(clients)
  /\ sweep' = 0
  /\ UNCHANGED <<up, clients, broadcast, allow, turn, polls, links>>

BridgeStep ==
  \/ PollInMessage \/ PollInIdle
  \/ PollOutMessage \/ PollOutIdle \/ SweepStep \/ SweepEnd

-----------------------------------------------------------------------------
(* The process: its supervisor starts another, which reads the settings    *)
(* back from the configuration file and knows no client.                   *)

BridgeCrash ==
  /\ up
  /\ up' = FALSE
  /\ clients' = << >> /\ turn' = "in" /\ polls' = 0 /\ sweep' = 0
  /\ toOut' = << >> /\ toNode' = Silence
  /\ UNCHANGED <<broadcast, allow, toIn>>

\* The radio is initialised: packets that came before are thrown away.
BridgeStart ==
  /\ ~up
  /\ up' = TRUE
  /\ toIn' = << >>
  /\ UNCHANGED <<clients, broadcast, allow, turn, polls, sweep, toOut, toNode>>

Older(age) == IF age < MaxAge THEN age + 1 ELSE age

\* A tick of the clock; the sweep reads it once, before its loop.
BridgeTick ==
  /\ sweep = 0
  /\ clients' = [i \in DOMAIN clients |-> [clients[i] EXCEPT !.idle = Older(@)]]
  /\ UNCHANGED <<up, broadcast, allow, turn, polls, sweep, links>>
=============================================================================
