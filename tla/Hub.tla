-------------------------------- MODULE Hub --------------------------------
(***************************************************************************)
(* The hub (src/src/hub.c): the table of the local applications, the relay *)
(* of every message to all of them, and the sweep that removes those that  *)
(* have fallen silent.  The loop of the sweep is one action per iteration, *)
(* and nothing else of the hub runs before the loop has ended.             *)
(***************************************************************************)
EXTENDS Network, FiniteSets, SequencesExt

CONSTANTS
  Local,       \* hub->local_addr_list, as the addresses of this computer
  SweepPolls   \* polls that add up to the 60000 ms between two sweeps

ASSUME HubAssumption ==
  /\ Local \subseteq Addr
  /\ SweepPolls \in Nat \ {0}

VARIABLES
  up,          \* does the hub process run?
  clients,     \* hub->clients; idle stands for now - hbeat_last
  polls,       \* hub->timeout, counted in polls
  sweep        \* index of the next client the sweep examines, 0 outside it

hubState == <<up, clients, polls, sweep>>
hubVars  == <<up, clients, polls, sweep, toHub, toApp>>

Client  == [addr : Local, hbeat_period_max : Nat, idle : 0 .. MaxAge]
Clients == ToSet(clients)
Members == {c.addr : c \in Clients}

\* Mutant: no allowance for a lost heartbeat.
PeriodOfOneBeat(interval) == interval * Minute

PeriodMax(interval) == interval * Minute * 2 + Minute

\* Mutant: a client is given up one tick too early.
ExpiredEarly(c) == c.idle >= c.hbeat_period_max

Expired(c) == c.idle > c.hbeat_period_max

HubInit ==
  /\ up = TRUE
  /\ clients = << >>
  /\ polls = 0
  /\ sweep = 0

-----------------------------------------------------------------------------
(* prvHandleMessage: the table, then the relay.                            *)

Fresh(m) ==
  [addr |-> m.addr, hbeat_period_max |-> PeriodMax(m.interval), idle |-> 0]

IsLocalHeartbeat(m) == m.kind \in {"app", "end"} /\ m.addr \in Local

\* i is the first slot of the address, the one a search of the vector returns.
FirstSlot(i, addr) ==
  /\ i \in DOMAIN clients
  /\ clients[i].addr = addr
  /\ \A j \in DOMAIN clients : j < i => clients[j].addr # addr

\* Mutant: the vector is not searched before the client is appended.
AddClientBlindly(m) ==
  /\ IsLocalHeartbeat(m) /\ m.kind = "app"
  /\ clients' = Append(clients, Fresh(m))

AddClient(m) ==
  /\ IsLocalHeartbeat(m) /\ m.kind = "app"
  /\ m.addr \notin Members
  /\ clients' = Append(clients, Fresh(m))

RefreshClient(m) ==
  /\ IsLocalHeartbeat(m) /\ m.kind = "app"
  /\ \E i \in DOMAIN clients :
       /\ FirstSlot(i, m.addr)
       /\ clients' = [clients EXCEPT ![i] = Fresh(m)]

RemoveClient(m) ==
  /\ IsLocalHeartbeat(m) /\ m.kind = "end"
  /\ \E i \in DOMAIN clients :
       /\ FirstSlot(i, m.addr)
       /\ clients' = RemoveAt(clients, i)

KeepClients(m) ==
  /\ \/ ~IsLocalHeartbeat(m)
     \/ m.kind = "end" /\ m.addr \notin Members
  /\ UNCHANGED clients

\* gxPLAppSendMessage to every client of the updated table.
Relay(m) ==
  toApp' = [a \in App |-> IF a \in Members' THEN Push(toApp[a], <<m>>) ELSE toApp[a]]

-----------------------------------------------------------------------------
(* gxPLHubPoll: at most one message, then the sweep when it is due.        *)

\* Mutants: hub->timeout is not reset; the loop starts with the second client.
CountPollOnly ==
  polls' = polls + 1 /\ sweep' = IF polls + 1 >= SweepPolls THEN 1 ELSE 0

CountPollFromTwo ==
  IF polls + 1 >= SweepPolls THEN polls' = 0 /\ sweep' = 2
                             ELSE polls' = polls + 1 /\ sweep' = 0

CountPoll ==
  IF polls + 1 >= SweepPolls THEN polls' = 0 /\ sweep' = 1
                             ELSE polls' = polls + 1 /\ sweep' = 0

HubPollMessage(s) ==
  /\ up /\ sweep = 0
  /\ toHub[s] # << >>
  /\ toHub' = [toHub EXCEPT ![s] = Tail(@)]
  /\ LET m == Head(toHub[s]) IN
       /\ AddClient(m) \/ RefreshClient(m) \/ RemoveClient(m) \/ KeepClients(m)
       /\ Relay(m)
  /\ CountPoll
  /\ UNCHANGED up

HubPollIdle ==
  /\ up /\ sweep = 0
  /\ \A s \in Sender : toHub[s] = << >>
  /\ CountPoll
  /\ UNCHANGED <<up, clients, toHub, toApp>>

\* After a removal the vector has shifted and the index moves on all the same.
SweepStep ==
  /\ up /\ sweep \in DOMAIN clients
  /\ clients' = IF Expired(clients[sweep]) THEN RemoveAt(clients, sweep) ELSE clients
  /\ sweep' = sweep + 1
  /\ UNCHANGED <<up, polls, toHub, toApp>>

SweepEnd ==
  /\ up /\ sweep > Len(clients)
  /\ sweep' = 0
  /\ UNCHANGED <<up, clients, polls, toHub, toApp>>

-----------------------------------------------------------------------------
(* The process: it dies with its table, and a supervisor starts another.   *)

HubCrash ==
  /\ up
  /\ up' = FALSE
  /\ clients' = << >> /\ polls' = 0 /\ sweep' = 0
  /\ UNCHANGED <<toHub, toApp>>

HubStart ==
  /\ ~up
  /\ up' = TRUE
  /\ UNCHANGED <<clients, polls, sweep, toHub, toApp>>

\* A tick of the clock; the sweep reads it once, before its loop.
HubTick ==
  /\ sweep = 0
  /\ clients' = [i \in DOMAIN clients |->
                   [clients[i] EXCEPT !.idle = Older(@)]]
  /\ UNCHANGED <<up, polls, sweep>>

HubStep == (\E s \in Sender : HubPollMessage(s)) \/ HubPollIdle \/ SweepStep \/ SweepEnd

\* Datagrams are lost on their way to the hub (which notices when it would have
\* read them), and always when no hub listens.
HubLoss ==
  /\ ~up \/ (Lossy /\ sweep = 0)
  /\ \E s \in Sender : LoseToHub(s)
  /\ UNCHANGED hubState

=============================================================================
