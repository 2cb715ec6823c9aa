----------------------------- MODULE HubProofs -----------------------------
(***************************************************************************)
(* Proofs about the hub.  First what its steps keep: types, and one slot   *)
(* per client in the table.  Then the hub that faces an arbitrary network, *)
(* and how it implements the abstract table.  Then the hub and its         *)
(* applications as one system: what holds whatever is lost and whoever     *)
(* dies, and the timeliness of a system that keeps up with the clock.      *)
(***************************************************************************)
EXTENDS HubNet, HubAlone, DeviceProofs

-----------------------------------------------------------------------------
(* The hub: its table after a message, after a sweep, after a tick.        *)

HubSound ==
  /\ up \in BOOLEAN
  /\ clients \in Seq(Client)
  /\ OneSlotPerClient
  /\ ~up => clients = << >>
  /\ polls \in 0 .. SweepPolls - 1
  /\ sweep \in 0 .. Len(clients) + 2

\* A client of the hub is one of its slots.
LEMMA ClientsAreSlots ==
  ASSUME clients \in Seq(Client), NEW c
  PROVE  c \in Clients <=> \E i \in 1 .. Len(clients) : clients[i] = c
BY ElementsAreAtIndexes DEF Clients, ToSet

\* What the hub stores of a local heartbeat is a client, granted what it announces.
LEMMA FreshClient ==
  ASSUME NEW m \in Msg, IsLocalHeartbeat(m)
  PROVE  /\ Fresh(m) \in Client /\ m.interval \in Nat
         /\ Fresh(m).addr = m.addr /\ Fresh(m).idle = 0
         /\ Fresh(m).hbeat_period_max = PeriodMax(m.interval)
<1>1. m.interval \in Nat /\ m.addr \in Local
  BY DEF IsLocalHeartbeat, Msg, HeartbeatMsg, RequestMsg, ResponseMsg, OtherMsg
<1>2. PeriodMax(m.interval) \in Nat
  BY <1>1, NetworkAssumption DEF PeriodMax
<1> QED  BY <1>1, <1>2, NetworkAssumption DEF Fresh, Client

\* Some slot is removed: the others stay as they are, one per client.
LEMMA RemoveSlot ==
  ASSUME clients \in Seq(Client), OneSlotPerClient, NEW i \in 1 .. Len(clients),
         clients' = RemoveAt(clients, i)
  PROVE  /\ clients' \in Seq(Client) /\ OneSlotPerClient'
         /\ Len(clients') = Len(clients) - 1
         /\ \A c \in Clients' : c \in Clients /\ c.addr # clients[i].addr
<1> DEFINE old(j) == IF j < i THEN j ELSE j + 1
<1>1. /\ clients' \in Seq(Client) /\ Len(clients') = Len(clients) - 1
      /\ \A j \in 1 .. Len(clients) - 1 : clients'[j] = clients[old(j)]
  BY RemoveAtShifts
<1>2. /\ Len(clients) \in Nat /\ DOMAIN clients = 1 .. Len(clients)
      /\ DOMAIN clients' = 1 .. Len(clients) - 1
  BY <1>1, LenProperties
<1>3. \A j \in 1 .. Len(clients) - 1 : old(j) \in 1 .. Len(clients) /\ old(j) # i
  BY <1>2
<1>4. OneSlotPerClient'
  <2> SUFFICES ASSUME NEW j \in 1 .. Len(clients) - 1, NEW k \in 1 .. Len(clients) - 1,
                      clients'[j].addr = clients'[k].addr
               PROVE  j = k
    BY <1>2 DEF OneSlotPerClient
  <2>1. old(j) \in 1 .. Len(clients) /\ old(k) \in 1 .. Len(clients)
    BY <1>3
  <2>2. clients[old(j)].addr = clients[old(k)].addr
    BY <1>1
  <2>3. old(j) = old(k)
    BY <1>2, <2>1, <2>2 DEF OneSlotPerClient
  <2> QED  BY <1>2, <2>3
<1>5. ASSUME NEW c \in Clients'
      PROVE  c \in Clients /\ c.addr # clients[i].addr
  <2>1. PICK j \in 1 .. Len(clients) - 1 : clients'[j] = c
    BY <1>1, <1>2, <1>5 DEF Clients, ToSet
  <2>2. c = clients[old(j)] /\ old(j) \in 1 .. Len(clients) /\ old(j) # i
    BY <1>1, <1>3, <2>1
  <2> QED  BY <1>2, <2>2, ClientsAreSlots DEF OneSlotPerClient
<1> QED  BY <1>1, <1>4, <1>5

\* The table after the message m: the clients with another address are those from
\* before, the one with the address of m has just been heard.
LEMMA TableAfterMessage ==
  ASSUME clients \in Seq(Client), OneSlotPerClient, NEW m \in Msg,
         AddClient(m) \/ RefreshClient(m) \/ RemoveClient(m) \/ KeepClients(m)
  PROVE  /\ clients' \in Seq(Client) /\ OneSlotPerClient'
         /\ \A c \in Clients' :
              \/ c \in Clients /\ (IsLocalHeartbeat(m) => c.addr # m.addr)
              \/ IsLocalHeartbeat(m) /\ c = Fresh(m)
<1>0. Len(clients) \in Nat /\ DOMAIN clients = 1 .. Len(clients)
  BY LenProperties
<1>1. CASE AddClient(m)
  <2>1. /\ clients' = Append(clients, Fresh(m)) /\ IsLocalHeartbeat(m)
        /\ m.addr \notin Members
    BY <1>1 DEF AddClient
  <2>2. Fresh(m) \in Client /\ Fresh(m).addr = m.addr
    BY <2>1, FreshClient
  <2>3. /\ clients' \in Seq(Client)
        /\ Len(clients') = Len(clients) + 1
        /\ DOMAIN clients' = 1 .. Len(clients) + 1
        /\ \A j \in 1 .. Len(clients) : clients'[j] = clients[j]
        /\ clients'[Len(clients) + 1] = Fresh(m)
    BY <2>1, <2>2, AppendType, LenProperties
  <2>4. \A c \in Clients : c.addr # m.addr
    BY <2>1 DEF Members
  <2>5. \A j \in 1 .. Len(clients) : clients[j] \in Clients
    BY ClientsAreSlots
  <2>6. OneSlotPerClient'
    <3> SUFFICES ASSUME NEW j \in 1 .. Len(clients) + 1, NEW k \in 1 .. Len(clients) + 1,
                        clients'[j].addr = clients'[k].addr
                 PROVE  j = k
      BY <2>3 DEF OneSlotPerClient
    <3>1. CASE j \in 1 .. Len(clients) /\ k \in 1 .. Len(clients)
      BY <1>0, <2>3, <3>1 DEF OneSlotPerClient
    <3>2. CASE j = Len(clients) + 1 \/ k = Len(clients) + 1
      BY <1>0, <2>2, <2>3, <2>4, <2>5, <3>2
    <3> QED  BY <1>0, <3>1, <3>2
  <2>7. ASSUME NEW c \in Clients'
        PROVE  c \in Clients \/ c = Fresh(m)
    <3>1. PICK j \in 1 .. Len(clients) + 1 : clients'[j] = c
      BY <2>3, <2>7 DEF Clients, ToSet
    <3> QED  BY <1>0, <2>3, <2>5, <3>1
  <2> QED  BY <2>1, <2>3, <2>4, <2>6, <2>7
<1>2. CASE RefreshClient(m)
  <2>1. PICK i \in 1 .. Len(clients) :
          /\ clients[i].addr = m.addr
          /\ clients' = [clients EXCEPT ![i] = Fresh(m)]
    BY <1>0, <1>2 DEF RefreshClient, FirstSlot
  <2>2. IsLocalHeartbeat(m) /\ Fresh(m) \in Client /\ Fresh(m).addr = m.addr
    BY <1>2, FreshClient DEF RefreshClient
  <2>3. /\ clients' \in Seq(Client) /\ DOMAIN clients' = DOMAIN clients
        /\ \A j \in DOMAIN clients : clients'[j] = IF j = i THEN Fresh(m) ELSE clients[j]
    BY <2>1, <2>2, ExceptSeq
  <2>4. OneSlotPerClient'
    BY <1>0, <2>1, <2>2, <2>3 DEF OneSlotPerClient
  <2>5. ASSUME NEW c \in Clients'
        PROVE  (c \in Clients /\ c.addr # m.addr) \/ c = Fresh(m)
    <3>1. PICK j \in 1 .. Len(clients) : clients'[j] = c
      BY <1>0, <2>3, <2>5 DEF Clients, ToSet
    <3>2. j # i => clients[j].addr # m.addr /\ clients[j] \in Clients
      BY <1>0, <2>1, ClientsAreSlots DEF OneSlotPerClient
    <3> QED  BY <1>0, <2>3, <3>1, <3>2
  <2> QED  BY <2>2, <2>3, <2>4, <2>5
<1>3. CASE RemoveClient(m)
  <2>1. PICK i \in 1 .. Len(clients) :
          clients[i].addr = m.addr /\ clients' = RemoveAt(clients, i)
    BY <1>0, <1>3 DEF RemoveClient, FirstSlot
  <2> QED  BY <2>1, RemoveSlot
<1>4. CASE KeepClients(m)
  <2>1. clients' = clients /\ Clients' = Clients
    BY <1>4 DEF KeepClients, Clients
  <2>2. IsLocalHeartbeat(m) => \A c \in Clients : c.addr # m.addr
    BY <1>4 DEF KeepClients, Members
  <2> QED  BY <2>1, <2>2 DEF OneSlotPerClient
<1> QED  BY <1>1, <1>2, <1>3, <1>4

\* The clock makes every client older and changes nothing else of it.
LEMMA TableAfterTick ==
  ASSUME clients \in Seq(Client), OneSlotPerClient, HubTick
  PROVE  /\ clients' \in Seq(Client) /\ OneSlotPerClient' /\ Len(clients') = Len(clients)
         /\ \A c \in Clients' : \E b \in Clients :
              /\ c.addr = b.addr /\ c.hbeat_period_max = b.hbeat_period_max
              /\ c.idle = Older(b.idle) /\ b \in Client
<1>0. Len(clients) \in Nat /\ DOMAIN clients = 1 .. Len(clients)
  BY LenProperties
<1>1. clients' = [i \in 1 .. Len(clients) |-> [clients[i] EXCEPT !.idle = Older(@)]]
  BY <1>0 DEF HubTick
<1>2. ASSUME NEW i \in 1 .. Len(clients)
      PROVE  /\ clients'[i] \in Client /\ clients[i] \in Client
             /\ clients'[i].addr = clients[i].addr
             /\ clients'[i].hbeat_period_max = clients[i].hbeat_period_max
             /\ clients'[i].idle = Older(clients[i].idle)
  <2>1. clients[i] \in Client
    BY ElementOfSeq
  <2>2. Older(clients[i].idle) \in 0 .. MaxAge
    BY <2>1, NetworkAssumption DEF Older, Client
  <2> QED  BY <1>1, <2>1, <2>2 DEF Client
<1>3. clients' \in Seq(Client) /\ Len(clients') = Len(clients)
  <2>1. clients' \in [1 .. Len(clients) -> Client]
    BY <1>1, <1>2
  <2> QED  BY <1>0, <2>1, FunctionIsSeq
<1>4. DOMAIN clients' = 1 .. Len(clients)
  BY <1>1
<1>5. OneSlotPerClient'
  BY <1>0, <1>2, <1>4 DEF OneSlotPerClient
<1>6. ASSUME NEW c \in Clients'
      PROVE  \E b \in Clients : /\ c.addr = b.addr /\ c.hbeat_period_max = b.hbeat_period_max
                                /\ c.idle = Older(b.idle) /\ b \in Client
  <2>1. PICK i \in 1 .. Len(clients) : clients'[i] = c
    BY <1>4, <1>6 DEF Clients, ToSet
  <2>2. clients[i] \in Clients
    BY ClientsAreSlots
  <2> QED  BY <1>2, <2>1, <2>2
<1> QED  BY <1>3, <1>5, <1>6

\* Counting a poll starts the sweep at the first client, or not at all.
LEMMA CountPollSound ==
  ASSUME polls \in 0 .. SweepPolls - 1, CountPoll
  PROVE  polls' \in 0 .. SweepPolls - 1 /\ sweep' \in {0, 1}
BY HubAssumption DEF CountPoll

\* A queue holds messages of its kind, whatever is pushed into it or taken from it.
LEMMA PushType ==
  ASSUME NEW S, NEW q \in Seq(S), NEW out \in Seq(S)
  PROVE  Push(q, out) \in Seq(S)
BY CutType, NetworkAssumption DEF Push

LEMMA PushOneType ==
  ASSUME NEW S, NEW q \in Seq(S), NEW m \in S
  PROVE  Push(q, <<m>>) \in Seq(S)
<1>1. <<m>> \in Seq(S)
  OBVIOUS
<1> QED  BY <1>1, PushType

LEMMA TakeType ==
  ASSUME NEW S, NEW q \in Seq(S), q # << >>
  PROVE  Head(q) \in S /\ Tail(q) \in Seq(S)
BY HeadTailProperties

\* The steps of the hub.
LEMMA HubPollMessageKeeps ==
  ASSUME HubSound, NetworkTypeOK, NEW s \in Sender, HubPollMessage(s)
  PROVE  HubSound' /\ NetworkTypeOK'
<1> DEFINE m == Head(toHub[s])
<1>1. toHub[s] \in Seq(Msg) /\ toHub[s] # << >> /\ toHub' = [toHub EXCEPT ![s] = Tail(@)]
  BY DEF NetworkTypeOK, HubPollMessage
<1>2. m \in Msg /\ toHub' \in [Sender -> Seq(Msg)]
  BY <1>1, TakeType DEF NetworkTypeOK
<1>3. clients' \in Seq(Client) /\ OneSlotPerClient'
  BY <1>2, TableAfterMessage DEF HubPollMessage, HubSound
<1>4. toApp' \in [App -> Seq(Msg)]
  <2>1. \A a \in App : toApp[a] \in Seq(Msg) /\ Push(toApp[a], <<m>>) \in Seq(Msg)
    BY <1>2, PushOneType DEF NetworkTypeOK
  <2> QED  BY <2>1 DEF HubPollMessage, Relay
<1>5. Len(clients') \in Nat
  BY <1>3, LenProperties
<1>6. polls' \in 0 .. SweepPolls - 1 /\ sweep' \in {0, 1}
  BY CountPollSound DEF HubPollMessage, HubSound
<1>7. up /\ up' = up
  BY DEF HubPollMessage
<1> QED  BY <1>2, <1>3, <1>4, <1>5, <1>6, <1>7 DEF HubSound, NetworkTypeOK

LEMMA SweepStepKeeps ==
  ASSUME HubSound, NetworkTypeOK, SweepStep
  PROVE  /\ HubSound' /\ NetworkTypeOK' /\ UNCHANGED <<toHub, toApp>>
         /\ \A c \in Clients' : c \in Clients
<1>0. Len(clients) \in Nat /\ sweep \in 1 .. Len(clients) /\ sweep' = sweep + 1
  BY LenProperties DEF SweepStep, HubSound
<1>1. /\ clients' \in Seq(Client) /\ OneSlotPerClient'
      /\ Len(clients') = Len(clients) \/ Len(clients') = Len(clients) - 1
      /\ \A c \in Clients' : c \in Clients
  <2>1. CASE Expired(clients[sweep])
    BY <1>0, <2>1, RemoveSlot DEF SweepStep, HubSound
  <2>2. CASE ~Expired(clients[sweep])
    <3>1. clients' = clients
      BY <2>2 DEF SweepStep
    <3> QED  BY <3>1 DEF HubSound, OneSlotPerClient, Clients
  <2> QED  BY <2>1, <2>2
<1>2. sweep' \in 0 .. Len(clients') + 2
  BY <1>0, <1>1
<1>3. up /\ UNCHANGED <<up, polls, toHub, toApp>>
  BY DEF SweepStep
<1> QED  BY <1>1, <1>2, <1>3 DEF HubSound, NetworkTypeOK

\* The steps of the hub that leave its table alone, or drop all of it.
LEMMA HubRestKeeps ==
  ASSUME HubSound, NetworkTypeOK,
         HubPollIdle \/ SweepEnd \/ HubStart \/ HubCrash \/ HubLoss
  PROVE  HubSound' /\ NetworkTypeOK'
<1>0. Len(clients) \in Nat
  BY LenProperties DEF HubSound
<1>1. CASE HubPollIdle
  <2>1. polls' \in 0 .. SweepPolls - 1 /\ sweep' \in {0, 1}
    BY <1>1, CountPollSound DEF HubPollIdle, HubSound
  <2> QED  BY <1>0, <1>1, <2>1 DEF HubPollIdle, HubSound, OneSlotPerClient, NetworkTypeOK
<1>2. CASE SweepEnd
  BY <1>0, <1>2 DEF SweepEnd, HubSound, OneSlotPerClient, NetworkTypeOK
<1>3. CASE HubStart
  BY <1>3 DEF HubStart, HubSound, OneSlotPerClient, NetworkTypeOK
<1>4. CASE HubCrash
  <2>1. /\ clients' = << >> /\ up' = FALSE /\ sweep' = 0 /\ polls' = 0
        /\ UNCHANGED <<toHub, toApp>>
    BY <1>4 DEF HubCrash
  <2>2. clients' \in Seq(Client) /\ Len(clients') = 0 /\ DOMAIN clients' = {}
    BY <2>1, EmptySeq
  <2>3. polls' \in 0 .. SweepPolls - 1 /\ sweep' \in 0 .. Len(clients') + 2
    BY <2>1, <2>2, HubAssumption
  <2>4. OneSlotPerClient'
    BY <2>2 DEF OneSlotPerClient
  <2>5. NetworkTypeOK'
    BY <2>1 DEF NetworkTypeOK
  <2> QED  BY <2>1, <2>2, <2>3, <2>4, <2>5 DEF HubSound
<1>5. CASE HubLoss
  <2>1. PICK s \in Sender : LoseToHub(s)
    BY <1>5 DEF HubLoss
  <2>2. toHub' \in [Sender -> Seq(Msg)] /\ toApp' = toApp
    BY <2>1, TakeType DEF LoseToHub, NetworkTypeOK
  <2> QED  BY <1>5, <2>2 DEF HubLoss, hubState, HubSound, OneSlotPerClient, NetworkTypeOK
<1> QED  BY <1>1, <1>2, <1>3, <1>4, <1>5

\* What leaves the hub alone leaves it sound.
LEMMA HubRests ==
  ASSUME HubSound, UNCHANGED hubState
  PROVE  HubSound'
BY DEF HubSound, OneSlotPerClient, hubState

-----------------------------------------------------------------------------
(***************************************************************************)
(* The hub alone.                                                          *)
(***************************************************************************)
AloneInv == HubSound /\ NetworkTypeOK

\* Every step of the hub alone keeps its table, its counters and the queues sound.
LEMMA AloneStep ==
  AloneInv /\ [AloneNext]_hubVars => AloneInv'
<1> SUFFICES ASSUME HubSound, NetworkTypeOK, [AloneNext]_hubVars
             PROVE  HubSound' /\ NetworkTypeOK'
  BY DEF AloneInv
<1>1. CASE HubStep
  BY <1>1, HubPollMessageKeeps, SweepStepKeeps, HubRestKeeps DEF HubStep
<1>2. CASE HubCrash \/ HubStart \/ HubLoss
  BY <1>2, HubRestKeeps
<1>3. CASE AnySends
  <2>1. PICK s \in Sender, m \in Broadcasts : Broadcast(s, <<m>>)
    BY <1>3 DEF AnySends
  <2>2. Push(toHub[s], <<m>>) \in Seq(Msg)
    BY PushOneType, BroadcastsAssumption DEF NetworkTypeOK
  <2>3. toHub' \in [Sender -> Seq(Msg)]
    BY <2>1, <2>2 DEF Broadcast, NetworkTypeOK
  <2> QED  BY <1>3, <2>3, HubRests DEF AnySends, NetworkTypeOK
<1>4. CASE AnyReads
  <2>1. PICK a \in App : LoseToApp(a)
    BY <1>4 DEF AnyReads
  <2>2. Tail(toApp[a]) \in Seq(Msg)
    BY <2>1, TakeType DEF LoseToApp, NetworkTypeOK
  <2>3. toApp' \in [App -> Seq(Msg)] /\ toHub' = toHub
    BY <2>1, <2>2 DEF LoseToApp, NetworkTypeOK
  <2> QED  BY <1>4, <2>3, HubRests DEF AnyReads, NetworkTypeOK
<1>5. CASE HubTick /\ UNCHANGED <<toHub, toApp>>
  <2>1. clients' \in Seq(Client) /\ OneSlotPerClient' /\ Len(clients') = Len(clients)
    BY <1>5, TableAfterTick DEF HubSound
  <2> QED  BY <1>5, <2>1 DEF HubTick, HubSound, NetworkTypeOK
<1>6. CASE UNCHANGED hubVars
  BY <1>6 DEF hubVars, HubSound, OneSlotPerClient, NetworkTypeOK
<1> QED  BY <1>1, <1>2, <1>3, <1>4, <1>5, <1>6 DEF AloneNext

LEMMA AloneHolds == AloneSpec => []AloneInv
<1>1. AloneInit => AloneInv
  <2> SUFFICES ASSUME AloneInit
               PROVE  AloneInv
    OBVIOUS
  <2>1. /\ << >> \in Seq(Client) /\ << >> \in Seq(Msg)
        /\ Len(<< >>) = 0 /\ DOMAIN << >> = {}
    BY EmptySeq
  <2>2. 0 \in 0 .. SweepPolls - 1
    BY HubAssumption
  <2> QED
    BY <2>1, <2>2
       DEF AloneInit, HubInit, NetworkInit, AloneInv, HubSound, OneSlotPerClient, NetworkTypeOK
<1> QED  BY <1>1, AloneStep, PTL DEF AloneSpec

\* The hub keeps its table, counters and queues well typed, forever.
THEOREM HubTypeCorrect == AloneSpec => []HubTypeOK
<1>1. AloneInv => HubTypeOK
  BY DEF AloneInv, HubSound, HubTypeOK
<1> QED  BY <1>1, AloneHolds, PTL

\* No application ever has two slots in the table of the hub.
THEOREM OneSlotHolds == AloneSpec => []OneSlotPerClient
<1>1. AloneInv => OneSlotPerClient
  BY DEF AloneInv, HubSound
<1> QED  BY <1>1, AloneHolds, PTL

-----------------------------------------------------------------------------
(***************************************************************************)
(* Tables.  The facts are about any sequence cs of clients, so that they   *)
(* hold of clients and of clients' alike.                                  *)
(***************************************************************************)
Distinct(cs) == \A i, j \in DOMAIN cs : cs[i].addr = cs[j].addr => i = j

Addrs(cs) == {c.addr : c \in ToSet(cs)}

\* An address of a table is the address of one of its slots.
LEMMA AddrsOfSlots ==
  ASSUME NEW cs \in Seq(Client), NEW a
  PROVE  a \in Addrs(cs) <=> \E i \in 1 .. Len(cs) : cs[i].addr = a
<1>1. DOMAIN cs = 1 .. Len(cs)
  BY LenProperties
<1> QED  BY <1>1 DEF Addrs, ToSet

\* A new address may be appended.
LEMMA AppendDistinct ==
  ASSUME NEW cs \in Seq(Client), Distinct(cs), NEW c \in Client, c.addr \notin Addrs(cs)
  PROVE  Distinct(Append(cs, c))
<1> DEFINE new == Append(cs, c)
<1>1. /\ Len(cs) \in Nat /\ DOMAIN cs = 1 .. Len(cs)
      /\ DOMAIN new = 1 .. Len(cs) + 1
      /\ \A i \in 1 .. Len(cs) : new[i] = cs[i]
      /\ new[Len(cs) + 1] = c
  BY AppendProperties, LenProperties
<1>2. \A i \in 1 .. Len(cs) : cs[i].addr # c.addr
  BY AddrsOfSlots
<1> HIDE DEF new
<1>3. SUFFICES ASSUME NEW i \in 1 .. Len(cs) + 1, NEW j \in 1 .. Len(cs) + 1,
                      new[i].addr = new[j].addr
               PROVE  i = j
  BY <1>1 DEF Distinct, new
<1>4. CASE i \in 1 .. Len(cs) /\ j \in 1 .. Len(cs)
  BY <1>1, <1>3, <1>4 DEF Distinct
<1>5. CASE i = Len(cs) + 1 \/ j = Len(cs) + 1
  BY <1>1, <1>2, <1>3, <1>5
<1> QED  BY <1>1, <1>4, <1>5

\* A slot may get other contents, as long as its address stays.
LEMMA ExceptDistinct ==
  ASSUME NEW cs \in Seq(Client), Distinct(cs), NEW i \in 1 .. Len(cs),
         NEW c \in Client, c.addr = cs[i].addr
  PROVE  Distinct([cs EXCEPT ![i] = c])
<1>1. DOMAIN cs = 1 .. Len(cs)
  BY LenProperties
<1> QED  BY <1>1 DEF Distinct

\* A slot may be removed.
LEMMA RemoveDistinct ==
  ASSUME NEW cs \in Seq(Client), Distinct(cs), NEW i \in 1 .. Len(cs)
  PROVE  Distinct(RemoveAt(cs, i))
<1> DEFINE new == RemoveAt(cs, i)
           old(j) == IF j < i THEN j ELSE j + 1
<1>1. /\ Len(cs) \in Nat /\ DOMAIN cs = 1 .. Len(cs)
      /\ DOMAIN new = 1 .. Len(cs) - 1
      /\ \A j \in 1 .. Len(cs) - 1 : new[j] = cs[old(j)]
  BY RemoveAtShifts, LenProperties
<1> HIDE DEF new
<1>2. SUFFICES ASSUME NEW j \in 1 .. Len(cs) - 1, NEW k \in 1 .. Len(cs) - 1,
                      new[j].addr = new[k].addr
               PROVE  j = k
  BY <1>1 DEF Distinct, new
<1>3. old(j) \in 1 .. Len(cs) /\ old(k) \in 1 .. Len(cs)
  BY <1>1
<1>4. cs[old(j)].addr = cs[old(k)].addr
  BY <1>1, <1>2
<1>5. old(j) = old(k)
  BY <1>1, <1>3, <1>4 DEF Distinct
<1> QED  BY <1>1, <1>5

-----------------------------------------------------------------------------
(***************************************************************************)
(* The hub implements Membership.  StateOf is what the abstract hub keeps  *)
(* of a client, TableOf the table it keeps of a vector of them.            *)
(***************************************************************************)
StateOf(c) == [period |-> c.hbeat_period_max, idle |-> c.idle]

TableOf(cs) ==
  [a \in Addrs(cs) |->
     LET c == CHOOSE c \in ToSet(cs) : c.addr = a
     IN  [period |-> c.hbeat_period_max, idle |-> c.idle]]

\* The table holds the state of every slot.
LEMMA TableOfSlots ==
  ASSUME NEW cs \in Seq(Client), Distinct(cs), NEW i \in 1 .. Len(cs)
  PROVE  cs[i].addr \in Addrs(cs) /\ TableOf(cs)[cs[i].addr] = StateOf(cs[i])
<1> DEFINE a == cs[i].addr
           c == CHOOSE c \in ToSet(cs) : c.addr = a
<1>1. DOMAIN cs = 1 .. Len(cs)
  BY LenProperties
<1>2. cs[i] \in ToSet(cs) /\ a \in Addrs(cs)
  BY <1>1 DEF ToSet, Addrs
<1>3. c \in ToSet(cs) /\ c.addr = a
  BY <1>2
<1>4. c = cs[i]
  <2>1. PICK j \in 1 .. Len(cs) : c = cs[j]
    BY <1>1, <1>3 DEF ToSet
  <2> QED  BY <1>1, <1>3, <2>1 DEF Distinct
<1> QED  BY <1>2, <1>4 DEF TableOf, StateOf

\* A function that holds the state of every slot, and no more, is the table.
LEMMA TableOfEqual ==
  ASSUME NEW cs \in Seq(Client), Distinct(cs),
         NEW f, f = [a \in Addrs(cs) |-> f[a]],
         \A i \in 1 .. Len(cs) : f[cs[i].addr] = StateOf(cs[i])
  PROVE  TableOf(cs) = f
<1>1. ASSUME NEW a \in Addrs(cs)
      PROVE  TableOf(cs)[a] = f[a]
  <2>1. PICK i \in 1 .. Len(cs) : cs[i].addr = a
    BY AddrsOfSlots
  <2> QED  BY <2>1, TableOfSlots
<1>2. TableOf(cs) = [a \in Addrs(cs) |-> TableOf(cs)[a]]
  BY DEF TableOf
<1> QED  BY <1>1, <1>2

LEMMA TableIsTableOf == Table = TableOf(clients) /\ Table' = TableOf(clients')
BY DEF Table, TableOf, Members, Clients, Addrs

\* The table after a client has been appended, or has got a new slot.
Put(cs, c) ==
  [b \in Addrs(cs) \cup {c.addr} |-> IF b = c.addr THEN StateOf(c) ELSE TableOf(cs)[b]]

LEMMA AppendTable ==
  ASSUME NEW cs \in Seq(Client), Distinct(cs), NEW c \in Client, c.addr \notin Addrs(cs)
  PROVE  TableOf(Append(cs, c)) = Put(cs, c)
<1> DEFINE new == Append(cs, c)
<1>1. /\ new \in Seq(Client) /\ Len(new) = Len(cs) + 1 /\ Len(cs) \in Nat
      /\ \A i \in 1 .. Len(cs) : new[i] = cs[i]
      /\ new[Len(cs) + 1] = c
  BY AppendProperties
<1>2. Distinct(new)
  BY AppendDistinct
<1> HIDE DEF new
<1>3. Addrs(new) = Addrs(cs) \cup {c.addr}
  <2>1. ASSUME NEW a \in Addrs(new)
        PROVE  a \in Addrs(cs) \cup {c.addr}
    <3>1. PICK i \in 1 .. Len(new) : new[i].addr = a
      BY <1>1, AddrsOfSlots
    <3> QED  BY <1>1, <3>1, AddrsOfSlots
  <2>2. ASSUME NEW a \in Addrs(cs)
        PROVE  a \in Addrs(new)
    <3>1. PICK i \in 1 .. Len(cs) : cs[i].addr = a
      BY AddrsOfSlots
    <3>2. i \in 1 .. Len(new) /\ new[i].addr = a
      BY <1>1, <3>1
    <3> QED  BY <1>1, <3>2, AddrsOfSlots
  <2>3. c.addr \in Addrs(new)
    BY <1>1, AddrsOfSlots
  <2> QED  BY <2>1, <2>2, <2>3
<1>4. \A i \in 1 .. Len(new) : Put(cs, c)[new[i].addr] = StateOf(new[i])
  <2> SUFFICES ASSUME NEW i \in 1 .. Len(new)
               PROVE  Put(cs, c)[new[i].addr] = StateOf(new[i])
    OBVIOUS
  <2>1. CASE i = Len(cs) + 1
    BY <1>1, <2>1 DEF Put
  <2>2. CASE i \in 1 .. Len(cs)
    <3>1. new[i] = cs[i] /\ cs[i].addr \in Addrs(cs) /\ cs[i].addr # c.addr
      BY <1>1, <2>2, AddrsOfSlots
    <3> QED  BY <2>2, <3>1, TableOfSlots DEF Put
  <2> QED  BY <1>1, <2>1, <2>2
<1>5. Put(cs, c) = [a \in Addrs(new) |-> Put(cs, c)[a]]
  BY <1>3 DEF Put
<1> QED  BY <1>1, <1>2, <1>4, <1>5, TableOfEqual DEF new

\* The table after the contents of a slot have been replaced.
LEMMA ExceptTable ==
  ASSUME NEW cs \in Seq(Client), Distinct(cs), NEW i \in 1 .. Len(cs),
         NEW c \in Client, c.addr = cs[i].addr
  PROVE  TableOf([cs EXCEPT ![i] = c]) = Put(cs, c)
<1> DEFINE new == [cs EXCEPT ![i] = c]
<1>1. /\ new \in Seq(Client) /\ Len(new) = Len(cs) /\ Distinct(new)
      /\ \A j \in 1 .. Len(cs) : new[j] = IF j = i THEN c ELSE cs[j]
  BY ExceptSeq, ExceptDistinct
<1> HIDE DEF new
<1>2. \A j \in 1 .. Len(cs) : new[j].addr = cs[j].addr
  BY <1>1
<1>3. Addrs(new) = Addrs(cs)
  <2>1. ASSUME NEW a \in Addrs(new)
        PROVE  a \in Addrs(cs)
    <3>1. PICK j \in 1 .. Len(new) : new[j].addr = a
      BY <1>1, AddrsOfSlots
    <3> QED  BY <1>1, <1>2, <3>1, AddrsOfSlots
  <2>2. ASSUME NEW a \in Addrs(cs)
        PROVE  a \in Addrs(new)
    <3>1. PICK j \in 1 .. Len(cs) : cs[j].addr = a
      BY AddrsOfSlots
    <3> QED  BY <1>1, <1>2, <3>1, AddrsOfSlots
  <2> QED  BY <2>1, <2>2
<1>4. ASSUME NEW j \in 1 .. Len(cs)
      PROVE  Put(cs, c)[new[j].addr] = StateOf(new[j])
  <2>0. cs[j].addr \in Addrs(cs) /\ DOMAIN cs = 1 .. Len(cs)
    BY AddrsOfSlots, LenProperties
  <2>1. CASE j = i
    BY <1>1, <2>0, <2>1 DEF Put
  <2>2. CASE j # i
    <3>1. cs[j].addr # c.addr
      BY <2>0, <2>2 DEF Distinct
    <3> QED  BY <1>1, <2>0, <2>2, <3>1, TableOfSlots DEF Put
  <2> QED  BY <2>1, <2>2
<1>5. c.addr \in Addrs(cs)
  BY AddrsOfSlots
<1>6. Put(cs, c) = [a \in Addrs(new) |-> Put(cs, c)[a]]
  BY <1>3, <1>5 DEF Put
<1>7. TableOf(new) = Put(cs, c)
  <2> DEFINE t == Put(cs, c)
  <2>1. \A j \in 1 .. Len(new) : t[new[j].addr] = StateOf(new[j])
    BY <1>1, <1>4
  <2>2. t = [a \in Addrs(new) |-> t[a]]
    BY <1>6
  <2> HIDE DEF t
  <2>3. TableOf(new) = t
    BY <1>1, <2>1, <2>2, TableOfEqual
  <2> QED  BY <2>3 DEF t
<1> QED  BY <1>7 DEF new

\* The table after a slot has been removed.
LEMMA RemoveTable ==
  ASSUME NEW cs \in Seq(Client), Distinct(cs), NEW i \in 1 .. Len(cs)
  PROVE  TableOf(RemoveAt(cs, i)) = [b \in Addrs(cs) \ {cs[i].addr} |-> TableOf(cs)[b]]
<1> DEFINE new == RemoveAt(cs, i)
           t == [b \in Addrs(cs) \ {cs[i].addr} |-> TableOf(cs)[b]]
<1>0. Len(cs) \in Nat /\ DOMAIN cs = 1 .. Len(cs)
  BY LenProperties
<1>1. /\ new \in Seq(Client) /\ Len(new) = Len(cs) - 1 /\ Distinct(new)
      /\ \A j \in 1 .. Len(cs) - 1 : new[j] = IF j < i THEN cs[j] ELSE cs[j + 1]
  BY RemoveAtShifts, RemoveDistinct
<1> HIDE DEF new
<1>2. ASSUME NEW j \in 1 .. Len(cs) - 1
      PROVE  \E k \in 1 .. Len(cs) : k # i /\ new[j] = cs[k]
  <2>1. CASE j < i
    BY <1>0, <1>1, <2>1
  <2>2. CASE ~(j < i)
    <3>1. j + 1 \in 1 .. Len(cs) /\ j + 1 # i /\ new[j] = cs[j + 1]
      BY <1>0, <1>1, <2>2
    <3> QED  BY <3>1
  <2> QED  BY <2>1, <2>2
<1>3. ASSUME NEW k \in 1 .. Len(cs), k # i
      PROVE  \E j \in 1 .. Len(cs) - 1 : new[j] = cs[k]
  <2>1. CASE k < i
    <3>1. k \in 1 .. Len(cs) - 1 /\ new[k] = cs[k]
      BY <1>0, <1>1, <2>1
    <3> QED  BY <3>1
  <2>2. CASE ~(k < i)
    <3>1. k - 1 \in 1 .. Len(cs) - 1 /\ ~(k - 1 < i) /\ (k - 1) + 1 = k
      BY <1>0, <1>3, <2>2
    <3>2. new[k - 1] = cs[k]
      BY <1>1, <3>1
    <3> QED  BY <3>1, <3>2
  <2> QED  BY <2>1, <2>2
<1>4. Addrs(new) = Addrs(cs) \ {cs[i].addr}
  <2>1. ASSUME NEW a \in Addrs(new)
        PROVE  a \in Addrs(cs) \ {cs[i].addr}
    <3>1. PICK j \in 1 .. Len(cs) - 1 : new[j].addr = a
      BY <1>1, AddrsOfSlots
    <3>2. PICK k \in 1 .. Len(cs) : k # i /\ cs[k].addr = a
      BY <1>2, <3>1
    <3> QED  BY <1>0, <3>2, AddrsOfSlots DEF Distinct
  <2>2. ASSUME NEW a \in Addrs(cs) \ {cs[i].addr}
        PROVE  a \in Addrs(new)
    <3>1. PICK k \in 1 .. Len(cs) : k # i /\ cs[k].addr = a
      BY AddrsOfSlots
    <3>2. PICK j \in 1 .. Len(cs) - 1 : new[j] = cs[k]
      BY <1>3, <3>1
    <3>3. j \in 1 .. Len(new) /\ new[j].addr = a
      BY <1>1, <3>1, <3>2
    <3> QED  BY <1>1, <3>3, AddrsOfSlots
  <2> QED  BY <2>1, <2>2
<1>5. ASSUME NEW j \in 1 .. Len(new)
      PROVE  t[new[j].addr] = StateOf(new[j])
  <2>1. PICK k \in 1 .. Len(cs) : k # i /\ new[j] = cs[k]
    BY <1>1, <1>2
  <2>2. new[j].addr \in Addrs(cs) \ {cs[i].addr}
    BY <1>1, <1>4, AddrsOfSlots
  <2> QED  BY <2>1, <2>2, TableOfSlots
<1>6. t = [a \in Addrs(new) |-> t[a]]
  BY <1>4
<1> HIDE DEF t
<1>7. TableOf(new) = t
  BY <1>1, <1>5, <1>6, TableOfEqual
<1> QED  BY <1>7 DEF new, t

\* The table after a tick: everybody is older, and nothing else changes.
LEMMA TickTable ==
  ASSUME HubTypeOK, Distinct(clients), HubTick
  PROVE  Table' = [a \in DOMAIN Table |-> [Table[a] EXCEPT !.idle = Older(@)]]
<1> DEFINE t == [a \in Addrs(clients) |->
                   [TableOf(clients)[a] EXCEPT !.idle = Older(@)]]
<1>1. /\ clients \in Seq(Client) /\ DOMAIN clients = 1 .. Len(clients)
      /\ \A i \in 1 .. Len(clients) : clients[i] \in Client
  BY ElementOfSeq, LenProperties DEF HubTypeOK
<1>2. clients' \in Seq(Client) /\ Len(clients') = Len(clients) /\ Distinct(clients')
  BY <1>1, TableAfterTick DEF OneSlotPerClient, Distinct
<1>3. ASSUME NEW i \in 1 .. Len(clients)
      PROVE  /\ clients'[i].addr = clients[i].addr
             /\ StateOf(clients'[i]) = [StateOf(clients[i]) EXCEPT !.idle = Older(@)]
  <2>1. clients[i] \in Client /\ clients'[i] = [clients[i] EXCEPT !.idle = Older(@)]
    BY <1>1 DEF HubTick
  <2> QED  BY <2>1 DEF Client, StateOf
<1>4. Addrs(clients') = Addrs(clients)
  <2>1. ASSUME NEW a
        PROVE  (\E i \in 1 .. Len(clients) : clients'[i].addr = a)
                 <=> (\E i \in 1 .. Len(clients) : clients[i].addr = a)
    BY <1>3
  <2>2. ASSUME NEW a
        PROVE  a \in Addrs(clients') <=> a \in Addrs(clients)
    BY SMTT(30), <1>1, <1>2, <2>1, AddrsOfSlots
  <2> QED  BY <2>2
<1>5. ASSUME NEW i \in 1 .. Len(clients')
      PROVE  t[clients'[i].addr] = StateOf(clients'[i])
  <2>1. i \in 1 .. Len(clients)
    BY <1>2
  <2>2. clients[i].addr \in Addrs(clients)
    BY <1>1, <2>1, AddrsOfSlots
  <2>3. TableOf(clients)[clients[i].addr] = StateOf(clients[i])
    BY <1>1, <2>1, TableOfSlots
  <2> QED  BY <1>3, <2>1, <2>2, <2>3
<1>6. t = [a \in Addrs(clients') |-> t[a]]
  BY <1>4
<1>7. DOMAIN TableOf(clients) = Addrs(clients)
  BY DEF TableOf
<1> HIDE DEF t
<1>8. TableOf(clients') = t
  BY <1>2, <1>5, <1>6, TableOfEqual
<1> QED  BY <1>7, <1>8, TableIsTableOf DEF t

\* What a message makes of the table is a step of the abstract hub.
LEMMA MessagePromised ==
  ASSUME HubTypeOK, Distinct(clients), NEW s \in Sender, HubPollMessage(s)
  PROVE  [Promise!MembershipNext]_Table
<1> DEFINE m == Head(toHub[s])
<1>1. m \in Msg /\ Promise!Takes(s)
  BY TakeType DEF HubPollMessage, HubTypeOK, NetworkTypeOK, Promise!Takes
<1>2. clients \in Seq(Client) /\ DOMAIN clients = 1 .. Len(clients)
  BY LenProperties DEF HubTypeOK
<1>3. Table = TableOf(clients) /\ Table' = TableOf(clients')
  BY TableIsTableOf
<1>4. DOMAIN TableOf(clients) = Addrs(clients) /\ Addrs(clients) = Members
  BY DEF TableOf, Addrs, Members, Clients
<1>5. ASSUME IsLocalHeartbeat(m), m.kind = "app", Table' = Put(clients, Fresh(m))
      PROVE  Promise!Announce(s, m.addr) /\ m.addr \in Local
  <2>1. m.addr \in Local /\ Fresh(m).addr = m.addr
    BY <1>1, <1>5, FreshClient DEF IsLocalHeartbeat
  <2>2. StateOf(Fresh(m)) = [period |-> Promise!Grace(m.interval), idle |-> 0]
    BY DEF StateOf, Fresh, PeriodMax, Promise!Grace
  <2> QED  BY <1>1, <1>3, <1>4, <1>5, <2>1, <2>2
              DEF Promise!Announce, Promise!Registered, Put
<1>6. CASE AddClient(m)
  <2>1. Fresh(m) \in Client /\ Fresh(m).addr = m.addr
    BY <1>1, <1>6, FreshClient DEF AddClient
  <2>2. Table' = Put(clients, Fresh(m))
    BY <1>2, <1>3, <1>4, <1>6, <2>1, AppendTable DEF AddClient
  <2> QED  BY <1>5, <1>6, <2>2 DEF AddClient, Promise!MembershipNext, Promise!Sender, Sender
<1>7. CASE RefreshClient(m)
  <2>1. Fresh(m) \in Client /\ Fresh(m).addr = m.addr
    BY <1>1, <1>7, FreshClient DEF RefreshClient
  <2>2. PICK i \in DOMAIN clients :
          clients[i].addr = m.addr /\ clients' = [clients EXCEPT ![i] = Fresh(m)]
    BY <1>7 DEF RefreshClient, FirstSlot
  <2>3. Table' = Put(clients, Fresh(m))
    BY <1>2, <1>3, <2>1, <2>2, ExceptTable
  <2> QED  BY <1>5, <1>7, <2>3 DEF RefreshClient, Promise!MembershipNext, Promise!Sender, Sender
<1>8. CASE RemoveClient(m)
  <2>1. PICK i \in DOMAIN clients :
          clients[i].addr = m.addr /\ clients' = RemoveAt(clients, i)
    BY <1>8 DEF RemoveClient, FirstSlot
  <2>2. Table' = [b \in Addrs(clients) \ {clients[i].addr} |-> TableOf(clients)[b]]
    BY <1>2, <1>3, <2>1, RemoveTable
  <2>3. Promise!Drop(m.addr)
    BY <1>3, <1>4, <2>1, <2>2 DEF Promise!Drop, Promise!Registered
  <2>4. Promise!Leave(s, m.addr) /\ m.addr \in Local
    BY <1>1, <1>8, <2>3 DEF RemoveClient, IsLocalHeartbeat, Promise!Leave
  <2> QED  BY <2>4 DEF Promise!MembershipNext, Promise!Sender, Sender
<1>9. CASE KeepClients(m)
  BY <1>3, <1>9 DEF KeepClients
<1> QED  BY <1>6, <1>7, <1>8, <1>9 DEF HubPollMessage

\* What the sweep removes is overdue in the abstract hub.
LEMMA SweepPromised ==
  ASSUME HubTypeOK, Distinct(clients), SweepStep
  PROVE  [Promise!MembershipNext]_Table
<1> DEFINE a == clients[sweep].addr
<1>1. /\ clients \in Seq(Client) /\ DOMAIN clients = 1 .. Len(clients)
      /\ sweep \in 1 .. Len(clients) /\ clients[sweep] \in Client
  BY LenProperties, ElementOfSeq DEF HubTypeOK, SweepStep
<1>2. Table = TableOf(clients) /\ Table' = TableOf(clients')
  BY TableIsTableOf
<1>3. DOMAIN TableOf(clients) = Addrs(clients) /\ a \in Addrs(clients) /\ a \in Local
  BY <1>1, AddrsOfSlots DEF TableOf, Client
<1>4. CASE Expired(clients[sweep])
  <2>1. TableOf(clients)[a] = StateOf(clients[sweep])
    BY <1>1, TableOfSlots
  <2>2. Promise!Overdue(a)
    BY <1>2, <1>3, <1>4, <2>1 DEF Promise!Overdue, Promise!Registered, Expired, StateOf
  <2>3. clients' = RemoveAt(clients, sweep)
    BY <1>4 DEF SweepStep
  <2>4. Table' = [b \in Addrs(clients) \ {a} |-> TableOf(clients)[b]]
    BY <1>1, <1>2, <2>3, RemoveTable
  <2>5. Promise!Drop(a)
    BY <1>2, <1>3, <2>4 DEF Promise!Drop, Promise!Registered
  <2> QED  BY <1>3, <2>2, <2>5 DEF Promise!Expire, Promise!MembershipNext
<1>5. CASE ~Expired(clients[sweep])
  BY <1>2, <1>5 DEF SweepStep
<1> QED  BY <1>4, <1>5

\* An empty vector is an empty table.
LEMMA EmptyTable == TableOf(<< >>) = << >>
<1>1. Addrs(<< >>) = {}
  BY DEF Addrs, ToSet
<1>2. TableOf(<< >>) = [a \in {} |-> StateOf(a)]
  BY <1>1 DEF TableOf
<1> QED  BY <1>2

\* Every step of the hub is a step of the abstract hub, or leaves its table.
LEMMA StepPromised ==
  HubTypeOK /\ OneSlotPerClient /\ [AloneNext]_hubVars => [Promise!MembershipNext]_Table
<1> SUFFICES ASSUME HubTypeOK, Distinct(clients), [AloneNext]_hubVars
             PROVE  [Promise!MembershipNext]_Table
  BY DEF OneSlotPerClient, Distinct
<1>1. ASSUME NEW s \in Sender, HubPollMessage(s)
      PROVE  [Promise!MembershipNext]_Table
  BY <1>1, MessagePromised
<1>2. CASE SweepStep
  BY <1>2, SweepPromised
<1>3. CASE HubCrash
  <2>1. Table' = << >>
    BY <1>3, TableIsTableOf, EmptyTable DEF HubCrash
  <2> QED  BY <1>3, <2>1 DEF HubCrash, Promise!Stop, Promise!MembershipNext
<1>4. CASE HubTick
  BY <1>4, TickTable
     DEF Promise!Pass, Promise!Registered, Promise!Older, Older, Promise!MembershipNext
<1>5. CASE UNCHANGED clients
  BY <1>5, TableIsTableOf
<1> QED
  BY <1>1, <1>2, <1>3, <1>4, <1>5
     DEF AloneNext, HubStep, HubPollIdle, SweepEnd, HubStart, HubLoss, AnySends, AnyReads,
         hubState, hubVars

\* The hub keeps its promise: nobody enters, is refreshed or leaves the table
\* but for the reasons Membership gives.
THEOREM HubImplementsMembership == AloneSpec => KeepsPromise
<1>1. AloneInit => Promise!MembershipInit
  BY TableIsTableOf, EmptyTable DEF AloneInit, HubInit, Promise!MembershipInit
<1> QED  BY <1>1, HubTypeCorrect, OneSlotHolds, StepPromised, PTL
            DEF AloneSpec, KeepsPromise, Promise!MembershipSpec

-----------------------------------------------------------------------------
(* The whole system.                                                       *)

NInv == DevicesSound /\ HubSound

\* What changes neither devices nor queues leaves them sound.
LEMMA DevicesRest ==
  ASSUME DevicesSound, NetworkTypeOK', UNCHANGED devVars
  PROVE  DevicesSound'
BY DEF DevicesSound, AllCurrent, Current, HeartbeatClass, devVars

LEMMA NInvStep ==
  NInv /\ [Next]_vars => NInv'
<1> SUFFICES ASSUME DevicesSound, HubSound, NetworkTypeOK, [Next]_vars
             PROVE  DevicesSound' /\ HubSound'
  BY DEF NInv, DevicesSound
<1>1. ASSUME NEW a \in App, AppStep(a), UNCHANGED hubState
      PROVE  DevicesSound' /\ HubSound'
  BY <1>1, LoopBeginsKeeps, HandleMessageKeeps, PollHeartbeatKeeps, DisableNextKeeps,
     CloseNextKeeps, HubRests DEF AppStep, AppLoop, AppTurn
<1>2. CASE Program /\ UNCHANGED hubState
  <2>1. \A d \in Dev : NewId[d] \subseteq Id
    BY HubNetAssumption
  <2> QED
    BY <1>2, <2>1, LoopBeginsKeeps, ProgramKeeps, ProcessKeeps, HubRests DEF Program
<1>3. CASE (HubStep \/ HubStart \/ HubLoss \/ HubCrash) /\ UNCHANGED devVars
  <2>1. HubSound' /\ NetworkTypeOK'
    BY <1>3, HubPollMessageKeeps, SweepStepKeeps, HubRestKeeps DEF HubStep
  <2> QED  BY <1>3, <2>1, DevicesRest
<1>4. CASE ManagerSends /\ UNCHANGED hubState
  <2>1. PICK m \in Traffic : Broadcast(Manager, <<m>>)
    BY <1>4 DEF ManagerSends
  <2>2. m \in Msg /\ Manager \in Sender
    BY HubNetAssumption DEF Sender
  <2>3. toHub' \in [Sender -> Seq(Msg)]
    BY <2>1, <2>2, PushOneType DEF Broadcast, NetworkTypeOK
  <2>4. NetworkTypeOK' /\ UNCHANGED devVars
    BY <1>4, <2>3 DEF ManagerSends, NetworkTypeOK
  <2> QED  BY <1>4, <2>4, DevicesRest, HubRests
<1>5. CASE (\E a \in App : LoseToApp(a)) /\ UNCHANGED <<devVars, hubState>>
  <2>1. PICK a \in App : LoseToApp(a)
    BY <1>5
  <2>2. NetworkTypeOK'
    BY <2>1, TakeType DEF LoseToApp, NetworkTypeOK
  <2> QED  BY <1>5, <2>2, DevicesRest, HubRests
<1>6. CASE (\E a \in App : Crash(a)) /\ UNCHANGED hubState
  BY <1>6, ProcessKeeps, HubRests
<1>7. CASE Tick
  <2>1. HubTick /\ DeviceTick /\ UNCHANGED <<toHub, toApp>>
    BY <1>7 DEF Tick
  <2>2. DevicesSound'
    BY <2>1, TickKeeps
  <2>3. HubSound'
    <3>1. UNCHANGED <<up, polls, sweep>>
      BY <2>1 DEF HubTick
    <3>2. clients' \in Seq(Client) /\ OneSlotPerClient' /\ Len(clients') = Len(clients)
      BY <2>1, TableAfterTick DEF HubSound
    <3>3. clients = << >> => clients' = << >>
      BY <3>2, EmptySeq
    <3> QED  BY <3>1, <3>2, <3>3 DEF HubSound
  <2> QED  BY <2>2, <2>3
<1>8. CASE UNCHANGED vars
  <2>1. NetworkTypeOK' /\ UNCHANGED devVars /\ UNCHANGED hubState
    BY <1>8 DEF vars, devVars, hubState, NetworkTypeOK
  <2> QED  BY <2>1, DevicesRest, HubRests
<1> QED
  BY <1>1, <1>2, <1>3, <1>4, <1>5, <1>6, <1>7, <1>8 DEF Next, Failure

LEMMA NInvInit == Init => NInv
<1> SUFFICES ASSUME Init
             PROVE  NInv
  OBVIOUS
<1>1. \A d \in Dev : dev[d] = NewDevice(d)
  BY DEF Init, DeviceInit
<1>2. dev \in [Dev -> DeviceState] /\ AllCurrent
  BY <1>1, NewDeviceSound DEF Init, DeviceInit, AllCurrent
<1>3. NoJob \in Job /\ << >> \in Seq(Msg)
  BY EmptySeq, DeviceAssumption DEF NoJob, Job
<1>4. DevicesSound
  BY <1>2, <1>3 DEF Init, DeviceInit, NetworkInit, DevicesSound, NetworkTypeOK
<1>5. clients \in Seq(Client) /\ Len(clients) = 0 /\ DOMAIN clients = {}
  BY EmptySeq DEF Init, HubInit
<1>6. HubSound
  BY <1>5, HubAssumption DEF Init, HubInit, HubSound, OneSlotPerClient
<1> QED  BY <1>4, <1>6 DEF NInv

LEMMA Soundness == Spec => []NInv
BY NInvInit, NInvStep, PTL DEF Spec

\* The whole system is well typed, whatever is lost and whoever dies.
THEOREM NetTypeCorrect == Spec => []NetTypeOK
<1>1. NInv => NetTypeOK
  BY DEF NInv, DevicesSound, HubSound, NetTypeOK
<1> QED  BY <1>1, Soundness, PTL

\* Between applications that come, go and are restarted, and a hub that hears them
\* late or not at all, no application ever has two slots, and the heartbeat a
\* device sends again and again says who it is.
THEOREM SlotsAndHeartbeats == Spec => [](OneSlotPerClient /\ AllCurrent)
<1>1. NInv => OneSlotPerClient /\ AllCurrent
  BY DEF NInv, DevicesSound, HubSound
<1> QED  BY <1>1, Soundness, PTL

-----------------------------------------------------------------------------
(***************************************************************************)
(* Timeliness.  The hub knows a program by the last heartbeat it has read; *)
(* as nothing is lost and the clock waits, the silence it counts is never  *)
(* longer than the time since the last hello, which the schedule of the    *)
(* application keeps below the silence granted.                            *)
(***************************************************************************)
Patience(i) == PeriodMax(i \div Minute)

\* What an application sends, and what reaches applications.
Own(a) == {m \in HeartbeatMsg : m.addr = a}
Known  == HeartbeatMsg \cup Traffic

Origin ==
  /\ \A a \in App : /\ toHub[a] \in Seq(Own(a))
                    /\ toApp[a] \in Seq(Known)
                    /\ job[a].msg \in Known \cup {NoMsg}
  /\ toHub[Manager] \in Seq(Traffic)

\* An application that goes through its device has been heard before, and sleeps
\* only before it answers a request.
Asked(a) == job[a].what = "message" /\ job[a].msg.kind = "request"

Orderly(a) ==
  /\ IF job[a].what = "none" THEN job[a].wait = 0
                             ELSE toHub[a] = << >> /\ job[a].todo = DevSeq[a]
  /\ job[a].wait > 0 => Asked(a)

\* The interval of a device is one of those that are covered, and the heartbeat it
\* keeps has the address of its application.
Steady(d, r) ==
  /\ Covered(r.interval)
  /\ r.hbeat_msg # NoMsg => r.hbeat_msg.addr = AppOf[d]

\* The heartbeat kept by r is a hello that announces the interval.
Beats(r) ==
  /\ r.hbeat_msg # NoMsg /\ r.hbeat_msg.kind = "app"
  /\ r.hbeat_msg.interval = r.interval \div Minute

\* An enabled device has time left: for the longest sleep, or for what is left of
\* the one its application is in.
OnTime(d) ==
  dev[d].enabled =>
    /\ alive[AppOf[d]]
    /\ Beats(dev[d])
    /\ dev[d].elapsed + (IF Asked(AppOf[d]) THEN job[AppOf[d]].wait ELSE MaxDelay)
         <= Patience(dev[d].interval)

\* The hub grants an enabled device what its interval gives, and counts no more
\* silence than there was, or will read this from its last hello.
Granted(d) ==
  dev[d].enabled =>
    IF toHub[AppOf[d]] = << >>
      THEN \A c \in Clients : c.addr = AppOf[d] =>
             c.idle <= dev[d].elapsed /\ c.hbeat_period_max = Patience(dev[d].interval)
      ELSE toHub[AppOf[d]][Len(toHub[AppOf[d]])] = dev[d].hbeat_msg

TInv ==
  /\ refusing = FALSE
  /\ Origin
  /\ \A a \in App : Orderly(a)
  /\ \A d \in Dev : Steady(d, dev[d]) /\ OnTime(d) /\ Granted(d)

-----------------------------------------------------------------------------
(* The constants of a timely system.                                       *)

\* There is one device to an application.
LEMMA OneDevice ==
  ASSUME Timely
  PROVE  /\ \A d \in Dev : AppOf[d] \in App /\ DevSeq[AppOf[d]] = <<d>>
         /\ \A d, e \in Dev : AppOf[d] = AppOf[e] => d = e
         /\ \A a \in App : DevSeq[a] # << >> =>
              /\ Len(DevSeq[a]) = 1 /\ Head(DevSeq[a]) \in Dev
              /\ AppOf[Head(DevSeq[a])] = a
<1>1. ASSUME NEW d \in Dev
      PROVE  AppOf[d] \in App /\ DevSeq[AppOf[d]] = <<d>>
  <2> DEFINE s == DevSeq[AppOf[d]]
  <2>1. AppOf[d] \in App /\ s \in Seq(Dev) /\ Len(s) <= 1
    BY DeviceAssumption DEF Timely
  <2>2. Len(s) \in Nat /\ DOMAIN s = 1 .. Len(s)
    BY <2>1, LenProperties
  <2>3. PICK i \in DOMAIN s : \A j \in DOMAIN s : s[j] = d <=> j = i
    BY DeviceAssumption
  <2> HIDE DEF s
  <2>4. Len(s) = 1 /\ s[1] = d
    BY <2>1, <2>2, <2>3
  <2>5. s = <<d>>
    BY <2>1, <2>4, SeqEqual
  <2> QED  BY <2>1, <2>5 DEF s
<1>2. ASSUME NEW d \in Dev, NEW e \in Dev, AppOf[d] = AppOf[e]
      PROVE  d = e
  <2>1. <<d>> = <<e>>
    BY <1>1, <1>2
  <2> QED  BY <2>1
<1>3. ASSUME NEW a \in App, DevSeq[a] # << >>
      PROVE  /\ Len(DevSeq[a]) = 1 /\ Head(DevSeq[a]) \in Dev
             /\ AppOf[Head(DevSeq[a])] = a
  <2>1. DevSeq[a] \in Seq(Dev) /\ Len(DevSeq[a]) <= 1
    BY DeviceAssumption DEF Timely
  <2>2. Len(DevSeq[a]) = 1 /\ 1 \in DOMAIN DevSeq[a]
    <3> DEFINE s == DevSeq[a]
    <3>1. s \in Seq(Dev) /\ Len(s) <= 1 /\ s # << >>
      BY <1>3, <2>1
    <3> HIDE DEF s
    <3>2. DOMAIN s = 1 .. Len(s) /\ Len(s) \in Nat /\ Len(s) # 0
      BY <3>1, LenProperties, EmptySeq
    <3>3. Len(s) = 1
      BY <3>1, <3>2
    <3> QED  BY <3>2, <3>3 DEF s
  <2>3. Head(DevSeq[a]) = DevSeq[a][1] /\ Head(DevSeq[a]) \in Dev
    BY <1>3, <2>1, HeadTailProperties
  <2>4. AppOf[DevSeq[a][1]] = a
    BY <2>2, DeviceAssumption
  <2> QED  BY <2>2, <2>3, <2>4
<1> QED  BY <1>1, <1>2, <1>3

\* What an interval is granted is a number, and a device that was just heard has
\* time for the longest sleep.
LEMMA PatienceType ==
  ASSUME NEW i \in Nat
  PROVE  /\ i \div Minute \in Nat /\ Patience(i) \in Nat
         /\ Covered(i) => /\ i + MaxDelay <= Patience(i)
                          /\ ConfigInterval + MaxDelay <= Patience(i)
                          /\ DiscoveryInterval + MaxDelay <= Patience(i)
                          /\ MaxDelay <= Patience(i)
<1>1. i \div Minute \in Nat
  BY NetworkAssumption
<1>2. Patience(i) \in Nat
  BY <1>1, NetworkAssumption DEF Patience, PeriodMax
<1>3. ASSUME Covered(i)
      PROVE  \A t \in {i, ConfigInterval, DiscoveryInterval} : t + MaxDelay <= Patience(i)
  BY <1>3 DEF Covered, Patience
<1>4. MaxDelay \in Nat
  BY DeviceAssumption
<1> QED  BY <1>1, <1>2, <1>3, <1>4

\* An empty queue takes all that one operation sends.
LEMMA PushOnEmpty ==
  ASSUME Timely, NEW S, NEW out \in Seq(S), Len(out) <= 3
  PROVE  Push(<< >>, out) = out
<1>1. << >> \o out = out /\ Len(<< >>) = 0 /\ Len(out) \in Nat
  BY EmptySeq, ConcatEmptySeq, LenProperties
<1>2. QueueLen \in Nat /\ QueueLen >= 3
  BY NetworkAssumption DEF Timely
<1> QED  BY <1>1, <1>2 DEF Push

-----------------------------------------------------------------------------
(***************************************************************************)
(* What the functions of device.c send when every send succeeds.  Told: it *)
(* is in the name of the application.  Said: the last one sent is the      *)
(* heartbeat that is kept.                                                 *)
(***************************************************************************)
Told(d, p) ==
  /\ p \in Progress
  /\ p.r.hbeat_msg # NoMsg => p.r.hbeat_msg.addr = AppOf[d]
  /\ p.out \in Seq(Own(AppOf[d])) /\ Len(p.out) \in Nat

Said(p) ==
  /\ p.out # << >> /\ p.out[Len(p.out)] = p.r.hbeat_msg
  /\ p.r.elapsed = 0 /\ Beats(p.r)

\* A hello from p to q, and a goodbye.
HelloFrom(d, p, q) ==
  /\ Told(d, q) /\ Len(q.out) = Len(p.out) + 1
  /\ q.ok
  /\ q.r.enabled = p.r.enabled /\ q.r.interval = p.r.interval
  /\ p.r.hbeat_msg = NoMsg \/ Beats(p.r) => Said(q)

GoodbyeFrom(d, p, q) ==
  /\ Told(d, q) /\ Len(q.out) = Len(p.out) + 1
  /\ q.ok
  /\ q.r.hbeat_msg = NoMsg
  /\ q.r.enabled = p.r.enabled /\ q.r.interval = p.r.interval

LEMMA HelloSays ==
  ASSUME NEW d \in Dev, NEW p, Told(d, p)
  PROVE  HelloFrom(d, p, SendHello(d, p, TRUE))
<1> DEFINE m == IF p.r.hbeat_msg = NoMsg THEN HeartbeatMessageNew(d, p.r, "app")
                                         ELSE p.r.hbeat_msg
           r == [p.r EXCEPT !.hbeat_msg = m, !.elapsed = 0]
           out == Append(p.out, m)
<1>1. p \in Progress /\ p.r \in DeviceState /\ p.out \in Seq(Own(AppOf[d]))
  BY DEF Told, Progress
<1>2. m \in Own(AppOf[d]) /\ m # NoMsg
  <2>1. CASE p.r.hbeat_msg = NoMsg
    <3>1. /\ HeartbeatMessageNew(d, p.r, "app") \in HeartbeatMsg
          /\ HeartbeatMessageNew(d, p.r, "app").addr = AppOf[d]
      BY <1>1, NewHeartbeat
    <3> QED  BY <2>1, <3>1, HeartbeatIsSome DEF Own
  <2>2. CASE p.r.hbeat_msg # NoMsg
    BY <1>1, <2>2 DEF Told, DeviceState, Own
  <2> QED  BY <2>1, <2>2
<1>3. p.r.hbeat_msg = NoMsg \/ Beats(p.r) => m.kind = "app" /\ m.interval = p.r.interval \div Minute
  BY DEF Beats, HeartbeatMessageNew
<1>4. SendHello(d, p, TRUE) = [r |-> r, out |-> out, ok |-> TRUE]
  BY DEF SendHello
<1> HIDE DEF m
<1>5. /\ r \in DeviceState /\ r.hbeat_msg = m /\ r.elapsed = 0
      /\ r.enabled = p.r.enabled /\ r.interval = p.r.interval
      /\ r.configured = p.r.configured
  <2>1. m \in HeartbeatMsg /\ 0 \in 0 .. MaxAge
    BY <1>2, NetworkAssumption DEF Own
  <2> QED  BY <1>1, <2>1 DEF DeviceState
<1>6. /\ out \in Seq(Own(AppOf[d])) /\ Len(out) = Len(p.out) + 1
      /\ out[Len(out)] = m /\ out # << >>
  BY <1>1, <1>2, AppendProperties, LenProperties, EmptySeq
<1>8. out \in Seq(HeartbeatMsg)
  BY <1>6, SeqMonotonic DEF Own
<1> HIDE DEF r, out
<1>9. Told(d, [r |-> r, out |-> out, ok |-> TRUE])
  BY <1>2, <1>5, <1>6, <1>8, LenProperties DEF Told, Progress, Own
<1>10. p.r.hbeat_msg = NoMsg \/ Beats(p.r) => Said([r |-> r, out |-> out, ok |-> TRUE])
  BY <1>2, <1>3, <1>5, <1>6 DEF Said, Beats
<1> DEFINE q == SendHello(d, p, TRUE)
<1>11. q = [r |-> r, out |-> out, ok |-> TRUE]
  BY <1>4
<1>12. q.ok
  BY DEF SendHello
<1>13. Told(d, q) /\ (p.r.hbeat_msg = NoMsg \/ Beats(p.r) => Said(q))
  BY <1>4, <1>9, <1>10
<1> HIDE DEF q
<1>14. q.r = r /\ q.out = out
  BY <1>11
<1>15. HelloFrom(d, p, q)
  BY <1>5, <1>6, <1>12, <1>13, <1>14 DEF HelloFrom
<1> QED  BY <1>15 DEF q

LEMMA GoodbyeSays ==
  ASSUME NEW d \in Dev, NEW p, Told(d, p)
  PROVE  GoodbyeFrom(d, p, SendGoodbye(d, p, TRUE))
<1> DEFINE m == HeartbeatMessageNew(d, p.r, "end")
           r == [p.r EXCEPT !.hbeat_msg = NoMsg]
           out == Append(p.out, m)
<1>1. p \in Progress /\ p.r \in DeviceState /\ p.out \in Seq(Own(AppOf[d]))
  BY DEF Told, Progress
<1>2. m \in Own(AppOf[d])
  BY <1>1, NewHeartbeat DEF Own
<1>3. SendGoodbye(d, p, TRUE) = [r |-> r, out |-> out, ok |-> TRUE]
  BY DEF SendGoodbye
<1> HIDE DEF m
<1>4. /\ r \in DeviceState /\ r.hbeat_msg = NoMsg
      /\ r.enabled = p.r.enabled /\ r.interval = p.r.interval
      /\ r.configured = p.r.configured
  BY <1>1 DEF DeviceState
<1>5. out \in Seq(Own(AppOf[d])) /\ Len(out) = Len(p.out) + 1
  BY <1>1, <1>2, AppendProperties
<1>7. out \in Seq(HeartbeatMsg)
  BY <1>5, SeqMonotonic DEF Own
<1> HIDE DEF r, out
<1>8. Told(d, [r |-> r, out |-> out, ok |-> TRUE])
  BY <1>4, <1>5, <1>7, LenProperties DEF Told, Progress
<1> DEFINE q == SendGoodbye(d, p, TRUE)
<1>9. q = [r |-> r, out |-> out, ok |-> TRUE]
  BY <1>3
<1>10. q.ok
  BY DEF SendGoodbye
<1>11. Told(d, q)
  BY <1>3, <1>8
<1> HIDE DEF q
<1>12. q.r = r /\ q.out = out
  BY <1>9
<1>13. GoodbyeFrom(d, p, q)
  BY <1>4, <1>5, <1>10, <1>11, <1>12 DEF GoodbyeFrom
<1> QED  BY <1>13 DEF q

\* Fields of the device are assigned in the middle of an operation.
LEMMA AssignTold ==
  ASSUME NEW d \in Dev, NEW p, Told(d, p), NEW r \in DeviceState,
         r.hbeat_msg = NoMsg \/ r.hbeat_msg = p.r.hbeat_msg
  PROVE  LET q == [p EXCEPT !.r = r]
         IN  Told(d, q) /\ q.r = r /\ q.out = p.out
BY DEF Told, Progress

\* A device that is switched on or off has told of it, unless it was so before.
SwitchFrom(d, p, on, q) ==
  /\ Told(d, q) /\ Len(q.out) <= Len(p.out) + 1
  /\ q.ok
  /\ q.r.interval = p.r.interval
  /\ q.r.enabled = on
  /\ on /\ ~p.r.enabled => Said(q)
  /\ p.r.enabled = on => q.r = p.r /\ q.out = p.out

LEMMA EnableSays ==
  ASSUME NEW d \in Dev, NEW p, Told(d, p), NEW on \in BOOLEAN
  PROVE  SwitchFrom(d, p, on, Enable(d, p, on, TRUE))
<1> DEFINE q == Enable(d, p, on, TRUE)
<1>1. p \in Progress /\ p.r \in DeviceState /\ Len(p.out) \in Nat
  BY DEF Told, Progress
<1>2. CASE p.r.enabled = on
  <2>1. q = [p EXCEPT !.ok = TRUE]
    BY <1>2 DEF Enable
  <2> HIDE DEF q
  <2>2. q \in Progress /\ q.r = p.r /\ q.out = p.out
    BY <1>1, <2>1 DEF Progress
  <2>3. q.ok
    BY <1>1, <2>1 DEF Progress
  <2>4. Told(d, q) /\ Len(q.out) <= Len(p.out) + 1
    BY <1>1, <2>2 DEF Told
  <2>5. ~(on /\ ~p.r.enabled)
    BY <1>2
  <2>6. SwitchFrom(d, p, on, q)
    BY <1>2, <2>2, <2>3, <2>4, <2>5 DEF SwitchFrom
  <2> QED  BY <2>6 DEF q
<1>3. CASE p.r.enabled # on /\ on
  <2> DEFINE r == [p.r EXCEPT !.enabled = TRUE, !.hbeat_msg = NoMsg]
             b == [p EXCEPT !.r = r]
  <2>1. /\ r \in DeviceState /\ r.enabled = TRUE /\ r.hbeat_msg = NoMsg
        /\ r.interval = p.r.interval
    BY <1>1 DEF DeviceState
  <2>2. [p EXCEPT !.r.enabled = TRUE, !.r.hbeat_msg = NoMsg] = b
    BY <1>1 DEF Progress, DeviceState
  <2>3. q = SendHello(d, b, TRUE)
    BY <1>3, <2>2 DEF Enable
  <2> HIDE DEF r
  <2>4. Told(d, b) /\ b.r = r /\ b.out = p.out
    BY <2>1, AssignTold
  <2> HIDE DEF b, q
  <2>5. HelloFrom(d, b, q)
    BY <2>3, <2>4, HelloSays
  <2>6. on = TRUE
    BY <1>3
  <2>7. Told(d, q) /\ q.ok /\ Len(q.out) <= Len(p.out) + 1
    BY <1>1, <2>4, <2>5 DEF HelloFrom
  <2>8. Said(q) /\ q.r.enabled = on /\ q.r.interval = p.r.interval
    BY <2>1, <2>4, <2>5, <2>6 DEF HelloFrom
  <2>10. SwitchFrom(d, p, on, q)
    BY <1>3, <2>7, <2>8 DEF SwitchFrom
  <2> QED  BY <2>10 DEF q
<1>4. CASE p.r.enabled # on /\ ~on
  <2> DEFINE r == [p.r EXCEPT !.enabled = FALSE]
             b == [p EXCEPT !.r = r]
  <2>1. /\ r \in DeviceState /\ r.enabled = FALSE /\ r.hbeat_msg = p.r.hbeat_msg
        /\ r.interval = p.r.interval
    BY <1>1 DEF DeviceState
  <2>2. [p EXCEPT !.r.enabled = FALSE] = b
    BY <1>1 DEF Progress, DeviceState
  <2>3. q = SendGoodbye(d, b, TRUE)
    BY <1>4, <2>2 DEF Enable
  <2> HIDE DEF r
  <2>4. Told(d, b) /\ b.r = r /\ b.out = p.out
    BY <2>1, AssignTold
  <2> HIDE DEF b, q
  <2>5. GoodbyeFrom(d, b, q)
    BY <2>3, <2>4, GoodbyeSays
  <2>6. on = FALSE
    BY <1>4
  <2>7. Told(d, q) /\ q.ok /\ Len(q.out) <= Len(p.out) + 1
    BY <1>1, <2>4, <2>5 DEF GoodbyeFrom
  <2>8. q.r.enabled = on /\ q.r.interval = p.r.interval
    BY <2>1, <2>4, <2>5, <2>6 DEF GoodbyeFrom
  <2>10. SwitchFrom(d, p, on, q)
    BY <1>4, <2>7, <2>8 DEF SwitchFrom
  <2> QED  BY <2>10 DEF q
<1> QED  BY <1>2, <1>3, <1>4

\* What an operation on r leaves behind: a covered interval, and the enabled device
\* has either said what it keeps, or said nothing and changed nothing that counts.
Outcome(d, r, p) ==
  /\ Told(d, p) /\ Len(p.out) <= 3 /\ Covered(p.r.interval)
  /\ p.r.enabled =>
       \/ Said(p)
       \/ /\ p.out = << >> /\ Beats(p.r) /\ r.enabled
          /\ p.r.elapsed = r.elapsed /\ p.r.interval = r.interval

\* The beginning of an operation.
LEMMA BeginTold ==
  ASSUME NEW d \in Dev, NEW r \in DeviceState, Steady(d, r)
  PROVE  /\ Told(d, Begin(r)) /\ Begin(r).r = r
         /\ Begin(r).out = << >> /\ Len(Begin(r).out) = 0
<1>1. << >> \in Seq(Own(AppOf[d])) /\ << >> \in Seq(HeartbeatMsg) /\ Len(<< >>) = 0
  BY EmptySeq
<1> QED  BY <1>1 DEF Begin, Told, Progress, Steady

LEMMA HelloOutcome ==
  ASSUME NEW d \in Dev, NEW r \in DeviceState, Steady(d, r), r.enabled => Beats(r)
  PROVE  /\ Outcome(d, r, SendHello(d, Begin(r), TRUE))
         /\ SendHello(d, Begin(r), TRUE).out # << >>
<1> DEFINE q == SendHello(d, Begin(r), TRUE)
           p == Begin(r)
<1>1. Told(d, p) /\ p.r = r /\ Len(p.out) = 0
  BY BeginTold
<1>2. HelloFrom(d, p, q)
  BY <1>1, HelloSays
<1> HIDE DEF q, p
<1>3. /\ Told(d, q) /\ Len(q.out) = 1
      /\ q.r.enabled = r.enabled /\ q.r.interval = r.interval
      /\ r.enabled => Said(q)
  BY <1>1, <1>2 DEF HelloFrom
<1>4. Outcome(d, r, q)
  BY <1>3 DEF Outcome, Steady
<1>5. q.out # << >>
  <2>1. Len(<< >>) = 0 /\ Len(q.out) # 0
    BY <1>3, EmptySeq
  <2> QED  BY <2>1
<1> QED  BY <1>4, <1>5 DEF q, p

LEMMA NothingOutcome ==
  ASSUME NEW d \in Dev, NEW r \in DeviceState, Steady(d, r), r.enabled => Beats(r)
  PROVE  Outcome(d, r, Begin(r))
BY BeginTold DEF Outcome, Steady

LEMMA EnableOutcome ==
  ASSUME NEW d \in Dev, NEW r \in DeviceState, Steady(d, r), r.enabled => Beats(r),
         NEW on \in BOOLEAN
  PROVE  /\ Outcome(d, r, Enable(d, Begin(r), on, TRUE))
         /\ Enable(d, Begin(r), on, TRUE).ok
         /\ Enable(d, Begin(r), on, TRUE).r.enabled = on
<1> DEFINE p == Begin(r)
           q == Enable(d, p, on, TRUE)
<1>1. Told(d, p) /\ p.r = r /\ p.out = << >> /\ Len(p.out) = 0
  BY BeginTold
<1>2. SwitchFrom(d, p, on, q)
  BY <1>1, EnableSays
<1> HIDE DEF p, q
<1>3. Told(d, q) /\ Len(q.out) <= 3 /\ Covered(q.r.interval)
  BY <1>1, <1>2 DEF SwitchFrom, Told, Steady
<1>4. ASSUME r.enabled = on
      PROVE  Outcome(d, r, q)
  <2>1. q.r = r /\ q.out = << >>
    BY <1>1, <1>2, <1>4 DEF SwitchFrom
  <2> QED  BY <1>3, <2>1 DEF Outcome
<1>5. ASSUME r.enabled # on
      PROVE  Outcome(d, r, q)
  <2>1. q.r.enabled => Said(q)
    BY <1>1, <1>2, <1>5 DEF SwitchFrom
  <2> QED  BY <1>3, <2>1 DEF Outcome
<1>6. Outcome(d, r, q)
  BY <1>4, <1>5
<1>7. q.ok /\ q.r.enabled = on
  BY <1>2 DEF SwitchFrom
<1> QED  BY <1>6, <1>7 DEF q, p

LEMMA IdSetOutcome ==
  ASSUME NEW d \in Dev, NEW r \in DeviceState, Steady(d, r), r.enabled => Beats(r),
         NEW id \in Id
  PROVE  Outcome(d, r, IdSet(d, Begin(r), id, TRUE, TRUE))
<1> DEFINE p == Begin(r)
           gone == SendGoodbye(d, p, TRUE)
<1>1. /\ Told(d, p) /\ p.r = r /\ p.out = << >> /\ Len(p.out) = 0 /\ p.ok = TRUE
      /\ p \in Progress
  BY BeginTold DEF Told, Begin
<1> HIDE DEF p
<1>2. CASE id = r.id
  <2>1. IdSet(d, p, id, TRUE, TRUE) = [p EXCEPT !.ok = TRUE]
    BY <1>1, <1>2 DEF IdSet
  <2>2. [p EXCEPT !.ok = TRUE] = p
    BY <1>1 DEF Progress
  <2> QED  BY <2>1, <2>2, NothingOutcome DEF p
<1>3. CASE id # r.id /\ ~r.enabled
  <2> DEFINE s == [r EXCEPT !.id = id]
             b == [p EXCEPT !.r = s]
  <2>1. IdSet(d, p, id, TRUE, TRUE) = [p EXCEPT !.r.id = id, !.ok = TRUE]
    BY <1>1, <1>3 DEF IdSet
  <2>2. [p EXCEPT !.r.id = id, !.ok = TRUE] = b
    BY <1>1 DEF Progress
  <2>3. /\ s \in DeviceState /\ s.hbeat_msg = r.hbeat_msg /\ s.enabled = r.enabled
        /\ s.interval = r.interval
    BY DEF DeviceState
  <2> HIDE DEF s
  <2>4. Told(d, b) /\ b.r = s /\ b.out = p.out
    BY <1>1, <2>3, AssignTold
  <2> HIDE DEF b
  <2>6. Outcome(d, r, b)
    BY <1>1, <1>3, <2>3, <2>4 DEF Outcome, Steady
  <2> QED  BY <2>1, <2>2, <2>6 DEF p
<1>4. CASE id # r.id /\ r.enabled
  <2> DEFINE s == [gone.r EXCEPT !.id = id]
             b == [gone EXCEPT !.r = s]
             q == SendHello(d, b, TRUE)
  <2>0. GoodbyeFrom(d, p, gone)
    BY <1>1, GoodbyeSays
  <2>1. /\ Told(d, gone) /\ gone.ok /\ gone.r.hbeat_msg = NoMsg
        /\ gone.r.interval = r.interval /\ Len(gone.out) = 1
    <3> HIDE DEF gone
    <3> QED  BY <1>1, <2>0 DEF GoodbyeFrom
  <2>2. IdSet(d, p, id, TRUE, TRUE) = SendHello(d, [gone EXCEPT !.r.id = id], TRUE)
    BY <1>1, <1>4, <2>1 DEF IdSet
  <2> HIDE DEF gone
  <2>3. gone \in Progress /\ gone.r \in DeviceState
    BY <2>1 DEF Told, Progress
  <2>4. [gone EXCEPT !.r.id = id] = b
    BY <2>3 DEF Progress, DeviceState
  <2>5. s \in DeviceState /\ s.hbeat_msg = NoMsg /\ s.interval = r.interval
    BY <2>1, <2>3 DEF DeviceState
  <2> HIDE DEF s
  <2>6. Told(d, b) /\ b.r = s /\ b.out = gone.out
    BY <2>1, <2>5, AssignTold
  <2> HIDE DEF b
  <2>7. HelloFrom(d, b, q)
    BY <2>6, HelloSays
  <2> HIDE DEF q
  <2>8. Told(d, q) /\ Said(q) /\ q.r.interval = r.interval /\ Len(q.out) = 2
    BY <2>1, <2>5, <2>6, <2>7 DEF HelloFrom
  <2>9. Outcome(d, r, q)
    BY <2>8 DEF Outcome, Steady
  <2> QED  BY <2>2, <2>4, <2>9 DEF p, q
<1> QED  BY <1>2, <1>3, <1>4 DEF p

\* A configuration restarts the device or leaves its interval, and tells of its class.
LEMMA ConfigOutcome ==
  ASSUME NEW d \in Dev, NEW r \in DeviceState, Steady(d, r), Current(d, r),
         r.enabled => Beats(r),
         NEW m \in ResponseMsg, m.interval > 0 => Covered(m.interval * Minute)
  PROVE  Outcome(d, r, ConfigSet(d, Begin(r), m, TRUE, TRUE, TRUE))
<1> DEFINE p == Begin(r)
           q == ConfigSet(d, p, m, TRUE, TRUE, TRUE)
<1>1. /\ Told(d, p) /\ p.r = r /\ p.out = << >> /\ Len(p.out) = 0
      /\ Sound(d, p)
  BY BeginTold, BeginSound
<1> HIDE DEF p
<1>2. PICK stopped, set, started :
        ConfigSteps(d, p, m, TRUE, TRUE, TRUE, stopped, set, started)
  BY <1>1, ConfigSetShape
<1>3. Ticks(m) \in Nat /\ (Ticks(m) > 0 => Covered(Ticks(m)))
  <2>1. m.interval \in Nat /\ Minute \in Nat
    BY NetworkAssumption DEF ResponseMsg
  <2>2. CASE m.interval = 0
    BY <2>1, <2>2 DEF Ticks
  <2>3. CASE m.interval > 0
    BY <2>1, <2>3 DEF Ticks
  <2> QED  BY <2>1, <2>2, <2>3
<1>4. /\ set \in Progress /\ set.r.enabled = stopped.r.enabled
      /\ set.r.hbeat_msg = stopped.r.hbeat_msg /\ set.out = stopped.out
      /\ set.r.elapsed = stopped.r.elapsed
      /\ set.r.interval = IF Ticks(m) > 0 THEN Ticks(m) ELSE stopped.r.interval
      /\ q = IF ~r.configured /\ started.r.hbeat_msg # NoMsg
               THEN SendHello(d, [started EXCEPT !.r.hbeat_msg = NoMsg], TRUE)
               ELSE started
  BY <1>1, <1>2 DEF ConfigSteps
<1> HIDE DEF q
<1> SUFFICES Outcome(d, r, q)
  BY DEF q, p
<1>5. ASSUME Told(d, started), Len(started.out) <= 2, Covered(started.r.interval),
             started.r.enabled =>
               \/ Said(started)
               \/ /\ started.out = << >> /\ Beats(started.r) /\ r.enabled
                  /\ started.r.elapsed = r.elapsed /\ started.r.interval = r.interval
      PROVE  Outcome(d, r, q)
  <2>1. started \in Progress /\ started.r \in DeviceState /\ Len(started.out) \in Nat
    BY <1>5 DEF Told, Progress
  <2>2. CASE ~r.configured /\ started.r.hbeat_msg # NoMsg
    <3> DEFINE s == [started.r EXCEPT !.hbeat_msg = NoMsg]
               b == [started EXCEPT !.r = s]
    <3>1. [started EXCEPT !.r.hbeat_msg = NoMsg] = b
      BY <2>1 DEF Progress, DeviceState
    <3>2. s \in DeviceState /\ s.hbeat_msg = NoMsg /\ s.interval = started.r.interval
      BY <2>1 DEF DeviceState
    <3>3. q = SendHello(d, b, TRUE)
      BY <1>4, <2>2, <3>1
    <3> HIDE DEF s
    <3>4. Told(d, b) /\ b.r = s /\ b.out = started.out
      BY <1>5, <3>2, AssignTold
    <3> HIDE DEF b
    <3>5. HelloFrom(d, b, q)
      BY <3>3, <3>4, HelloSays
    <3>6. /\ Told(d, q) /\ Said(q) /\ q.r.interval = started.r.interval
          /\ Len(q.out) <= 3
      BY <1>5, <2>1, <3>2, <3>4, <3>5 DEF HelloFrom
    <3> QED  BY <1>5, <3>6 DEF Outcome
  <2>3. CASE ~(~r.configured /\ started.r.hbeat_msg # NoMsg)
    <3>1. q = started
      BY <1>4, <2>3
    <3>2. Told(d, q) /\ Len(q.out) <= 3
      BY <1>5, <2>1, <3>1
    <3> QED  BY <1>5, <3>1, <3>2 DEF Outcome
  <2> QED  BY <2>2, <2>3
<1>6. CASE stopped = Enable(d, p, FALSE, TRUE) /\ started = Enable(d, set, TRUE, TRUE)
  <2>1. SwitchFrom(d, p, FALSE, stopped)
    BY <1>1, <1>6, EnableSays
  <2>2. /\ Told(d, stopped) /\ stopped.r.enabled = FALSE
        /\ stopped.r.interval = r.interval /\ Len(stopped.out) <= 1
    BY <1>1, <2>1 DEF SwitchFrom
  <2>3. Told(d, set) /\ set.r.enabled = FALSE /\ Len(set.out) <= 1
    BY <1>4, <2>2 DEF Told
  <2>5. SwitchFrom(d, set, TRUE, started)
    BY <1>6, <2>3, EnableSays
  <2>6. Told(d, started) /\ started.r.interval = set.r.interval /\ Said(started)
    BY <2>3, <2>5 DEF SwitchFrom
  <2>7. Len(started.out) <= 2
    BY <2>3, <2>5 DEF SwitchFrom, Told
  <2>4. Covered(started.r.interval)
    BY <1>3, <1>4, <2>2, <2>6 DEF Steady
  <2> QED  BY <1>5, <2>4, <2>6, <2>7
<1>7. CASE /\ stopped = p /\ started = set
           /\ p.r.enabled => Ticks(m) = p.r.interval
  <2>1. Told(d, started) /\ Len(started.out) = 0
    BY <1>1, <1>4, <1>7 DEF Told
  <2>2. Covered(started.r.interval)
    BY <1>1, <1>3, <1>4, <1>7 DEF Steady
  <2>3. started.r.enabled =>
          /\ started.out = << >> /\ Beats(started.r) /\ r.enabled
          /\ started.r.elapsed = r.elapsed /\ started.r.interval = r.interval
    BY <1>1, <1>3, <1>4, <1>7 DEF Beats
  <2> QED  BY <1>5, <2>1, <2>2, <2>3
<1>8. \/ stopped = Enable(d, p, FALSE, TRUE) /\ started = Enable(d, set, TRUE, TRUE)
      \/ /\ stopped = p /\ started = set
         /\ p.r.enabled => Ticks(m) = p.r.interval
  BY <1>2 DEF ConfigSteps
<1> QED  BY <1>6, <1>7, <1>8

-----------------------------------------------------------------------------
(***************************************************************************)
(* The steps of the applications keep the system in time.                  *)
(***************************************************************************)

\* What TInv says of one device and of its application, with the types it is in.
LEMMA InTime ==
  ASSUME NInv, TInv, NEW d \in Dev
  PROVE  /\ AppOf[d] \in App /\ AppOf[d] \in Sender
         /\ dev[d] \in DeviceState /\ dev[d].elapsed \in Nat /\ dev[d].interval \in Nat
         /\ Patience(dev[d].interval) \in Nat /\ Current(d, dev[d])
         /\ Steady(d, dev[d]) /\ OnTime(d) /\ Granted(d) /\ Orderly(AppOf[d])
         /\ dev[d].enabled => Beats(dev[d])
<1>1. AppOf[d] \in App /\ AppOf[d] \in Sender
  BY DeviceAssumption DEF Sender
<1>2. dev[d] \in DeviceState /\ Current(d, dev[d])
  BY DEF NInv, DevicesSound, AllCurrent
<1>3. dev[d].elapsed \in Nat /\ dev[d].interval \in Nat
  BY <1>2, NetworkAssumption DEF DeviceState
<1>4. Patience(dev[d].interval) \in Nat
  BY <1>3, PatienceType
<1>5. Steady(d, dev[d]) /\ OnTime(d) /\ Granted(d) /\ Orderly(AppOf[d])
  BY <1>1 DEF TInv
<1>6. dev[d].enabled => Beats(dev[d])
  BY <1>5 DEF OnTime
<1> QED  BY <1>1, <1>2, <1>3, <1>4, <1>5, <1>6

\* A device that nothing has happened to, nor to its application, stays in time.
LEMMA DeviceRests ==
  ASSUME NEW e \in Dev, Steady(e, dev[e]), OnTime(e), dev'[e] = dev[e],
         job'[AppOf[e]] = job[AppOf[e]], alive'[AppOf[e]] = alive[AppOf[e]]
  PROVE  Steady(e, dev'[e]) /\ OnTime(e)'
BY DEF OnTime, Asked

LEMMA GrantRests ==
  ASSUME NEW e \in Dev, Granted(e), dev'[e] = dev[e],
         toHub'[AppOf[e]] = toHub[AppOf[e]], clients' = clients
  PROVE  Granted(e)'
BY DEF Granted, Clients

LEMMA OrderRests ==
  ASSUME NEW b \in App, Orderly(b), job'[b] = job[b], toHub'[b] = toHub[b]
  PROVE  Orderly(b)'
BY DEF Orderly, Asked

\* The device d has sent what p says, and its application has come to rest.
LEMMA TurnInTime ==
  ASSUME Timely, NInv, TInv, NEW d \in Dev, NEW p,
         Outcome(d, dev[d], p), Commit(d, p),
         toHub[AppOf[d]] = << >>, alive[AppOf[d]],
         Asked(AppOf[d]) => p.out # << >>,
         job'[AppOf[d]].what = "none", job'[AppOf[d]].wait = 0,
         job'[AppOf[d]].msg \in Known \cup {NoMsg},
         \A b \in App : b # AppOf[d] => job'[b] = job[b],
         UNCHANGED <<alive, refusing, toApp, clients>>
  PROVE  TInv'
<1> DEFINE a == AppOf[d]
<1>1. a \in App /\ a \in Sender /\ a # Manager /\ Manager \in Sender
  BY InTime, NetworkAssumption DEF Sender
<1>2. \A e \in Dev : AppOf[e] = a => e = d
  BY OneDevice
<1>3. /\ p.r \in DeviceState /\ p.out \in Seq(Own(a)) /\ Len(p.out) <= 3
      /\ Covered(p.r.interval)
      /\ p.r.hbeat_msg # NoMsg => p.r.hbeat_msg.addr = a
  BY DEF Outcome, Told, Progress
<1>4. dev'[d] = p.r /\ \A e \in Dev : e # d => dev'[e] = dev[e]
  BY DEF Commit, NInv, DevicesSound
<1>5. toHub'[a] = p.out /\ \A s \in Sender : s # a => toHub'[s] = toHub[s]
  <2>1. Push(<< >>, p.out) = p.out
    BY <1>3, PushOnEmpty
  <2>2. toHub' = [toHub EXCEPT ![a] = Push(toHub[a], p.out)]
    BY DEF Commit, Broadcast
  <2> QED  BY <1>1, <2>1, <2>2 DEF NInv, DevicesSound, NetworkTypeOK
<1>6. Origin'
  <2>1. \A b \in App : b \in Sender /\ b # Manager
    BY NetworkAssumption DEF Sender
  <2>2. toHub'[Manager] \in Seq(Traffic)
    BY <1>1, <1>5 DEF TInv, Origin
  <2>3. \A b \in App : /\ toHub'[b] \in Seq(Own(b)) /\ toApp'[b] \in Seq(Known)
                       /\ job'[b].msg \in Known \cup {NoMsg}
    BY <1>3, <1>5, <2>1 DEF TInv, Origin
  <2> QED  BY <2>2, <2>3 DEF Origin, Own, Known
<1>7. ASSUME NEW b \in App
      PROVE  Orderly(b)'
  <2>1. CASE b = a
    BY <2>1 DEF Orderly
  <2>2. CASE b # a
    <3>1. Orderly(b) /\ b \in Sender
      BY DEF TInv, Sender
    <3> QED  BY <1>5, <2>2, <3>1, OrderRests
  <2> QED  BY <2>1, <2>2
<1>8. ASSUME NEW e \in Dev, e # d
      PROVE  Steady(e, dev'[e]) /\ OnTime(e)' /\ Granted(e)'
  <2>1. AppOf[e] # a /\ AppOf[e] \in App /\ AppOf[e] \in Sender
    BY <1>2, <1>8, InTime
  <2>2. Steady(e, dev[e]) /\ OnTime(e) /\ Granted(e)
    BY InTime
  <2>3. Steady(e, dev'[e]) /\ OnTime(e)'
    BY <1>4, <1>8, <2>1, <2>2, DeviceRests
  <2>4. Granted(e)'
    BY <1>4, <1>5, <1>8, <2>1, <2>2, GrantRests
  <2> QED  BY <2>3, <2>4
<1>9. Steady(d, dev'[d])
  BY <1>3, <1>4 DEF Steady
<1>10. ASSUME p.r.enabled, Said(p)
       PROVE  OnTime(d)' /\ Granted(d)'
  <2>1. p.out # << >> /\ p.out[Len(p.out)] = p.r.hbeat_msg /\ Beats(p.r) /\ p.r.elapsed = 0
    BY <1>10 DEF Said
  <2>2. MaxDelay <= Patience(p.r.interval) /\ MaxDelay \in Nat
    BY <1>3, PatienceType, DeviceAssumption DEF DeviceState
  <2>3. OnTime(d)'
    BY <1>4, <2>1, <2>2 DEF OnTime, Asked, Beats
  <2>4. Granted(d)'
    BY <1>4, <1>5, <2>1 DEF Granted
  <2> QED  BY <2>3, <2>4
<1>11. ASSUME p.r.enabled, ~Said(p)
       PROVE  OnTime(d)' /\ Granted(d)'
  <2>1. /\ p.out = << >> /\ Beats(p.r) /\ dev[d].enabled
        /\ p.r.elapsed = dev[d].elapsed /\ p.r.interval = dev[d].interval
    BY <1>11 DEF Outcome
  <2>2. dev[d].elapsed + MaxDelay <= Patience(dev[d].interval)
    <3>1. OnTime(d) /\ ~Asked(a)
      BY <2>1, InTime
    <3> QED  BY <2>1, <3>1 DEF OnTime
  <2>3. OnTime(d)'
    BY <1>4, <2>1, <2>2 DEF OnTime, Asked, Beats
  <2>4. \A c \in Clients : c.addr = a =>
          c.idle <= dev[d].elapsed /\ c.hbeat_period_max = Patience(dev[d].interval)
    BY <2>1, InTime DEF Granted
  <2>5. Granted(d)'
    BY <1>4, <1>5, <2>1, <2>4 DEF Granted, Clients
  <2> QED  BY <2>3, <2>5
<1>12. OnTime(d)' /\ Granted(d)'
  <2>1. ~p.r.enabled => OnTime(d)' /\ Granted(d)'
    BY <1>4 DEF OnTime, Granted
  <2> QED  BY <1>10, <1>11, <2>1
<1>13. refusing' = FALSE
  BY DEF TInv
<1>14. \A e \in Dev : Steady(e, dev'[e]) /\ OnTime(e)' /\ Granted(e)'
  BY <1>8, <1>9, <1>12
<1> QED  BY <1>6, <1>7, <1>13, <1>14 DEF TInv, Steady, Covered

\* A loop begins, with a sleep if the application has been asked.
LEMMA StartInTime ==
  ASSUME Timely, NInv, TInv, NEW a \in App,
         NEW what \in {"message", "poll", "disable", "close"},
         NEW m \in Known \cup {NoMsg}, m.kind = "request" => what = "message",
         Idle(a), toHub[a] = << >>, Start(a, what, m),
         \A b \in App : toApp'[b] \in Seq(Known),
         UNCHANGED <<alive, dev, toHub, refusing, clients>>
  PROVE  TInv'
<1>1. PICK w \in Delay(m) :
        job' = [job EXCEPT ![a] = IF DevSeq[a] = << >> THEN NoJob
                  ELSE [what |-> what, msg |-> m, todo |-> DevSeq[a], wait |-> w]]
  BY DEF Start
<1>2. /\ DevSeq[a] = << >> => job'[a] = NoJob
      /\ DevSeq[a] # << >> =>
           job'[a] = [what |-> what, msg |-> m, todo |-> DevSeq[a], wait |-> w]
      /\ \A b \in App : b # a => job'[b] = job[b]
  BY <1>1 DEF NInv, DevicesSound
<1>3. w \in Nat /\ w <= MaxDelay /\ (w > 0 => m.kind = "request")
  BY DeviceAssumption DEF Delay
<1>4. NoJob.what = "none" /\ NoJob.wait = 0 /\ NoJob.msg = NoMsg
  BY DEF NoJob
<1>5. Origin'
  <2>1. \A b \in App : job'[b].msg \in Known \cup {NoMsg}
    BY <1>2, <1>4 DEF TInv, Origin
  <2> QED  BY <2>1 DEF TInv, Origin, Own, Known
<1>6. ASSUME NEW b \in App
      PROVE  Orderly(b)'
  <2>1. CASE b = a /\ DevSeq[a] = << >>
    BY <1>2, <1>4, <2>1 DEF Orderly
  <2>2. CASE b = a /\ DevSeq[a] # << >>
    <3>1. /\ job'[a].what = what /\ job'[a].msg = m /\ job'[a].todo = DevSeq[a]
          /\ job'[a].wait = w
      BY <1>2, <2>2
    <3> QED  BY <1>3, <2>2, <3>1 DEF Orderly, Asked
  <2>3. CASE b # a
    <3>1. Orderly(b)
      BY DEF TInv
    <3> QED  BY <1>2, <2>3, <3>1, OrderRests
  <2> QED  BY <2>1, <2>2, <2>3
<1>7. ASSUME NEW e \in Dev
      PROVE  Steady(e, dev'[e]) /\ OnTime(e)' /\ Granted(e)'
  <2>1. /\ Steady(e, dev[e]) /\ OnTime(e) /\ Granted(e) /\ AppOf[e] \in App
        /\ dev[e].elapsed \in Nat /\ Patience(dev[e].interval) \in Nat
    BY InTime
  <2>2. Granted(e)'
    BY <2>1, GrantRests
  <2>3. CASE AppOf[e] # a
    BY <1>2, <2>1, <2>2, <2>3, DeviceRests
  <2>4. CASE AppOf[e] = a
    <3>1. DevSeq[a] # << >>
      <4>1. DevSeq[a] = <<e>>
        BY <2>4, OneDevice
      <4> QED  BY <4>1
    <3>2. job'[a].wait = w
      BY <1>2, <3>1
    <3>3. ~Asked(a)
      BY DEF Asked, Idle
    <3>4. dev[e].enabled =>
            /\ alive[a] /\ Beats(dev[e])
            /\ dev[e].elapsed + MaxDelay <= Patience(dev[e].interval)
            /\ dev[e].elapsed + w <= Patience(dev[e].interval)
      <4>1. dev[e].enabled =>
              /\ alive[a] /\ Beats(dev[e])
              /\ dev[e].elapsed + MaxDelay <= Patience(dev[e].interval)
        BY <2>1, <2>4, <3>3 DEF OnTime
      <4> QED  BY SMTT(30), <1>3, <2>1, <4>1, DeviceAssumption
    <3>5. OnTime(e)'
      BY <2>4, <3>2, <3>4 DEF OnTime, Beats
    <3> QED  BY <2>1, <2>2, <3>5
  <2> QED  BY <2>3, <2>4
<1>8. refusing' = FALSE
  BY DEF TInv
<1> QED  BY <1>5, <1>6, <1>7, <1>8 DEF TInv, Steady, Covered

\* The application a begins something.
LEMMA BeginsInTime ==
  ASSUME Timely, NInv, TInv, NEW a \in App, Heard(a), UNCHANGED clients,
         AppPollMessage(a) \/ AppPollIdle(a) \/ DisableAll(a) \/ Close(a)
  PROVE  TInv'
<1>1. toHub[a] = << >>
  BY DEF Heard, Timely
<1>2. \A b \in App : toApp[b] \in Seq(Known)
  BY DEF TInv, Origin
<1>3. CASE AppPollMessage(a)
  <2>1. Head(toApp[a]) \in Known /\ Tail(toApp[a]) \in Seq(Known)
    BY <1>2, <1>3, TakeType DEF AppPollMessage
  <2>2. \A b \in App : toApp'[b] \in Seq(Known)
    BY <1>2, <1>3, <2>1 DEF AppPollMessage, NInv, DevicesSound, NetworkTypeOK
  <2> QED  BY <1>1, <1>3, <2>1, <2>2, StartInTime DEF AppPollMessage
<1>4. CASE AppPollIdle(a) \/ DisableAll(a) \/ Close(a)
  <2>1. NoMsg.kind # "request"
    BY DEF NoMsg
  <2>2. PICK what \in {"poll", "disable", "close"} : Start(a, what, NoMsg)
    BY <1>4 DEF AppPollIdle, DisableAll, Close
  <2>3. Idle(a) /\ UNCHANGED <<alive, dev, toHub, toApp, refusing>>
    BY <1>4 DEF AppPollIdle, DisableAll, Close
  <2> QED  BY <1>1, <1>2, <2>1, <2>2, <2>3, StartInTime
<1> QED  BY <1>3, <1>4

\* A turn is the only one of its loop.
LEMMA TurnIsLast ==
  ASSUME Timely, NInv, TInv, NEW a \in App, NEW d \in Dev,
         NEW what, what # "none", Turn(a, what, d)
  PROVE  /\ AppOf[d] = a /\ toHub[a] = << >> /\ alive[a] /\ Len(job[a].todo) = 1
         /\ \A goOn : Advance(a, goOn) =>
              /\ job'[a] = NoJob
              /\ \A b \in App : b # a => job'[b] = job[b]
<1>1. Orderly(a)
  BY DEF TInv
<1>2. toHub[a] = << >> /\ job[a].todo = DevSeq[a] /\ alive[a]
  BY <1>1 DEF Turn, Orderly
<1>3. AppOf[d] = a /\ Len(job[a].todo) = 1
  BY <1>2, OneDevice DEF Turn
<1>4. ASSUME NEW goOn, Advance(a, goOn)
      PROVE  /\ job'[a] = NoJob
             /\ \A b \in App : b # a => job'[b] = job[b]
  <2>1. job' = [job EXCEPT ![a] = NoJob]
    BY <1>3, <1>4 DEF Advance
  <2> QED  BY <2>1 DEF NInv, DevicesSound
<1> QED  BY <1>2, <1>3, <1>4

\* What a message or the clock makes the device d send, and its loop ends.
LEMMA HandleMessageInTime ==
  ASSUME Timely, NInv, TInv, NEW a \in App, NEW d \in Dev, HandleMessage(a, d),
         UNCHANGED clients
  PROVE  TInv'
<1> DEFINE m == job[a].msg
           r == IF IsHubEcho(a, m) THEN [dev[d] EXCEPT !.confirmed = TRUE] ELSE dev[d]
<1>1. /\ AppOf[d] = a /\ toHub[a] = << >> /\ alive[a]
      /\ job'[a] = NoJob /\ \A b \in App : b # a => job'[b] = job[b]
      /\ job[a].what = "message" /\ UNCHANGED <<alive, toApp, refusing>>
  <2>1. Turn(a, "message", d) /\ Advance(a, TRUE) /\ UNCHANGED <<alive, toApp, refusing>>
    BY DEF HandleMessage
  <2>2. /\ AppOf[d] = a /\ toHub[a] = << >> /\ alive[a] /\ Len(job[a].todo) = 1
          /\ \A goOn : Advance(a, goOn) =>
               /\ job'[a] = NoJob
               /\ \A b \in App : b # a => job'[b] = job[b]
    BY <2>1, TurnIsLast
  <2>3. job[a].what = "message"
    BY <2>1 DEF Turn
  <2> QED  BY <2>1, <2>2, <2>3
<1>2. NoJob.what = "none" /\ NoJob.wait = 0 /\ NoJob.msg = NoMsg
  BY DEF NoJob
<1>3. /\ dev[d] \in DeviceState /\ Steady(d, dev[d]) /\ Current(d, dev[d])
      /\ dev[d].enabled => Beats(dev[d])
  BY InTime
<1>4. /\ r \in DeviceState /\ r.enabled = dev[d].enabled /\ r.interval = dev[d].interval
      /\ r.elapsed = dev[d].elapsed /\ r.hbeat_msg = dev[d].hbeat_msg
      /\ r.id = dev[d].id /\ r.configured = dev[d].configured
  BY <1>3 DEF DeviceState
<1>5. m \in Known \cup {NoMsg}
  BY DEF TInv, Origin
<1>6. SendResult = {TRUE}
  BY DEF SendResult, TInv
<1>7. \/ m.kind = "request" /\ Commit(d, SendHello(d, Begin(r), TRUE))
      \/ /\ m.kind = "response"
         /\ Commit(d, ConfigSet(d, Begin(r), m, TRUE, TRUE, TRUE))
      \/ m.kind # "request" /\ Commit(d, Begin(r))
  <2> HIDE DEF r, m
  <2>1. \/ /\ m.kind = "request"
           /\ \E sent \in SendResult : Commit(d, SendHello(d, Begin(r), sent))
        \/ /\ m.kind = "response" /\ m.target = r.id /\ d \in Configurable
           /\ \E bye, hello, inform \in SendResult :
                Commit(d, ConfigSet(d, Begin(r), m, bye, hello, inform))
        \/ /\ m.kind # "request"
           /\ ~(m.kind = "response" /\ m.target = r.id /\ d \in Configurable)
           /\ Commit(d, Begin(r))
    BY DEF HandleMessage, r, m
  <2> QED  BY <1>6, <2>1, Zenon
<1> HIDE DEF r, m
<1>8. /\ Steady(d, r) /\ Current(d, r) /\ (r.enabled => Beats(r))
  BY <1>3, <1>4 DEF Steady, Current, Beats, HeartbeatClass
<1>9. \A p : Outcome(d, r, p) => Outcome(d, dev[d], p)
  BY <1>4 DEF Outcome
<1>10. ASSUME NEW p, Outcome(d, r, p), Commit(d, p), m.kind = "request" => p.out # << >>
       PROVE  TInv'
  <2>1. Asked(a) => p.out # << >>
    BY <1>10 DEF Asked, m
  <2> QED  BY <1>1, <1>2, <1>9, <1>10, <2>1, TurnInTime
<1>11. CASE m.kind = "request" /\ Commit(d, SendHello(d, Begin(r), TRUE))
  BY <1>4, <1>8, <1>10, <1>11, HelloOutcome
<1>12. CASE m.kind = "response" /\ Commit(d, ConfigSet(d, Begin(r), m, TRUE, TRUE, TRUE))
  <2>1. m \in ResponseMsg /\ m \in Traffic
    <3>1. m \notin HeartbeatMsg /\ m # NoMsg
      BY <1>12 DEF HeartbeatMsg, NoMsg
    <3>2. m \in Traffic /\ m \in Msg
      BY <1>5, <3>1, HubNetAssumption DEF Known
    <3> QED  BY <1>12, <3>2 DEF Msg, HeartbeatMsg, RequestMsg, OtherMsg
  <2>2. m.interval > 0 => Covered(m.interval * Minute)
    BY <1>12, <2>1 DEF Timely
  <2>3. Outcome(d, r, ConfigSet(d, Begin(r), m, TRUE, TRUE, TRUE))
    BY <1>4, <1>8, <2>1, <2>2, ConfigOutcome
  <2>4. m.kind # "request"
    BY <1>12
  <2> QED  BY <1>10, <1>12, <2>3, <2>4
<1>13. CASE m.kind # "request" /\ Commit(d, Begin(r))
  BY <1>4, <1>8, <1>10, <1>13, NothingOutcome
<1> QED  BY <1>7, <1>11, <1>12, <1>13

\* A loop that looks for heartbeats, or switches devices off.
LEMMA LoopInTime ==
  ASSUME Timely, NInv, TInv, NEW a \in App, NEW d \in Dev,
         PollHeartbeat(a, d) \/ DisableNext(a, d), UNCHANGED clients
  PROVE  TInv'
<1>1. /\ AppOf[d] = a /\ toHub[a] = << >> /\ alive[a] /\ ~Asked(a)
      /\ job'[a] = NoJob /\ \A b \in App : b # a => job'[b] = job[b]
      /\ UNCHANGED <<alive, toApp, refusing>>
  <2>1. PICK what \in {"poll", "disable"} :
          /\ Turn(a, what, d) /\ UNCHANGED <<alive, toApp, refusing>>
          /\ \E goOn : Advance(a, goOn)
    BY DEF PollHeartbeat, DisableNext
  <2>2. ~Asked(a)
    BY <2>1 DEF Turn, Asked
  <2>3. /\ AppOf[d] = a /\ toHub[a] = << >> /\ alive[a] /\ Len(job[a].todo) = 1
          /\ \A goOn : Advance(a, goOn) =>
               /\ job'[a] = NoJob
               /\ \A b \in App : b # a => job'[b] = job[b]
    BY <2>1, TurnIsLast
  <2> QED  BY <2>1, <2>2, <2>3
<1>2. NoJob.what = "none" /\ NoJob.wait = 0 /\ NoJob.msg = NoMsg
  BY DEF NoJob
<1>3. /\ dev[d] \in DeviceState /\ Steady(d, dev[d])
      /\ dev[d].enabled => Beats(dev[d])
  BY InTime
<1>4. SendResult = {TRUE}
  BY DEF SendResult, TInv
<1>5. \/ Commit(d, SendHello(d, Begin(dev[d]), TRUE))
      \/ Commit(d, Begin(dev[d]))
      \/ Commit(d, Enable(d, Begin(dev[d]), FALSE, TRUE))
  <2>1. CASE PollHeartbeat(a, d)
    BY <1>4, <2>1, Zenon DEF PollHeartbeat
  <2>2. CASE DisableNext(a, d)
    BY <1>4, <2>2, Zenon DEF DisableNext
  <2> QED  BY <2>1, <2>2
<1>6. ASSUME NEW p, Outcome(d, dev[d], p), Commit(d, p)
      PROVE  TInv'
  BY <1>1, <1>2, <1>6, TurnInTime
<1>7. CASE Commit(d, SendHello(d, Begin(dev[d]), TRUE))
  BY <1>3, <1>6, <1>7, HelloOutcome
<1>8. CASE Commit(d, Begin(dev[d]))
  BY <1>3, <1>6, <1>8, NothingOutcome
<1>9. CASE Commit(d, Enable(d, Begin(dev[d]), FALSE, TRUE))
  BY <1>3, <1>6, <1>9, EnableOutcome
<1> QED  BY <1>5, <1>7, <1>8, <1>9

\* The program switches a device or gives it another identifier.
LEMMA ProgramInTime ==
  ASSUME Timely, NInv, TInv, NEW d \in Dev, Heard(AppOf[d]),
         \/ \E on \in BOOLEAN : SetEnabled(d, on)
         \/ \E id \in Id : SetId(d, id),
         UNCHANGED clients
  PROVE  TInv'
<1> DEFINE a == AppOf[d]
<1>1. toHub[a] = << >> /\ a \in App /\ Orderly(a)
  BY InTime DEF Heard, Timely
<1>2. Idle(a) /\ UNCHANGED <<alive, job, toApp, refusing>>
  BY DEF SetEnabled, SetId
<1>3. /\ alive[a] /\ job'[a].what = "none" /\ job'[a].wait = 0 /\ ~Asked(a)
      /\ job'[a].msg \in Known \cup {NoMsg}
  BY <1>1, <1>2 DEF Idle, Asked, Orderly, TInv, Origin
<1>4. /\ dev[d] \in DeviceState /\ Steady(d, dev[d])
      /\ dev[d].enabled => Beats(dev[d])
  BY InTime
<1>5. SendResult = {TRUE}
  BY DEF SendResult, TInv
<1>6. ASSUME NEW p, Outcome(d, dev[d], p), Commit(d, p)
      PROVE  TInv'
  BY <1>1, <1>2, <1>3, <1>6, TurnInTime
<1>7. ASSUME NEW on \in BOOLEAN, SetEnabled(d, on)
      PROVE  TInv'
  <2>1. Commit(d, Enable(d, Begin(dev[d]), on, TRUE))
    BY <1>5, <1>7, Zenon DEF SetEnabled
  <2>2. Outcome(d, dev[d], Enable(d, Begin(dev[d]), on, TRUE))
    BY <1>4, EnableOutcome
  <2> QED  BY <1>6, <2>1, <2>2
<1>8. ASSUME NEW id \in Id, SetId(d, id)
      PROVE  TInv'
  <2>1. Commit(d, IdSet(d, Begin(dev[d]), id, TRUE, TRUE))
    BY <1>5, <1>8, Zenon DEF SetId
  <2>2. Outcome(d, dev[d], IdSet(d, Begin(dev[d]), id, TRUE, TRUE))
    BY <1>4, IdSetOutcome
  <2> QED  BY <1>6, <2>1, <2>2
<1> QED  BY <1>7, <1>8

\* An application whose devices are all new, and that runs nothing: it was closed,
\* or it died.
LEMMA NewDevicesInTime ==
  ASSUME Timely, NInv, TInv, NEW a \in App,
         \A e \in Dev : dev'[e] = IF AppOf[e] = a THEN NewDevice(e) ELSE dev[e],
         \A b \in App : /\ job'[b] = IF b = a THEN NoJob ELSE job[b]
                        /\ b # a => alive'[b] = alive[b]
                        /\ toApp'[b] = IF b = a THEN << >> ELSE toApp[b],
         \A s \in Sender : s # a => toHub'[s] = toHub[s],
         toHub'[a] \in Seq(Own(a)),
         UNCHANGED <<refusing, clients>>
  PROVE  TInv'
<1>1. NoJob.what = "none" /\ NoJob.wait = 0 /\ NoJob.msg = NoMsg
  BY DEF NoJob
<1>2. \A b \in App : b \in Sender /\ b # Manager
  BY NetworkAssumption DEF Sender
<1>3. Origin'
  <2>1. \A b \in App : /\ toHub'[b] \in Seq(Own(b)) /\ toApp'[b] \in Seq(Known)
                       /\ job'[b].msg \in Known \cup {NoMsg}
    BY <1>1, <1>2, EmptySeq DEF TInv, Origin
  <2>2. toHub'[Manager] \in Seq(Traffic)
    BY <1>2 DEF TInv, Origin, Sender
  <2> QED  BY <2>1, <2>2 DEF Origin, Own, Known
<1>4. ASSUME NEW b \in App
      PROVE  Orderly(b)'
  <2>1. CASE b = a
    BY <1>1, <2>1 DEF Orderly
  <2>2. CASE b # a
    <3>1. Orderly(b)
      BY DEF TInv
    <3> QED  BY <1>2, <2>2, <3>1, OrderRests
  <2> QED  BY <2>1, <2>2
<1>5. ASSUME NEW e \in Dev
      PROVE  Steady(e, dev'[e]) /\ OnTime(e)' /\ Granted(e)'
  <2>1. /\ Steady(e, dev[e]) /\ OnTime(e) /\ Granted(e)
        /\ AppOf[e] \in App /\ AppOf[e] \in Sender
    BY InTime
  <2>2. CASE AppOf[e] # a
    <3>1. /\ dev'[e] = dev[e] /\ job'[AppOf[e]] = job[AppOf[e]]
          /\ alive'[AppOf[e]] = alive[AppOf[e]] /\ toHub'[AppOf[e]] = toHub[AppOf[e]]
      BY <2>1, <2>2
    <3> QED  BY <2>1, <3>1, DeviceRests, GrantRests
  <2>3. CASE AppOf[e] = a
    <3>1. dev'[e] = NewDevice(e)
      BY <2>3
    <3>2. /\ NewDevice(e).enabled = FALSE /\ NewDevice(e).hbeat_msg = NoMsg
          /\ NewDevice(e).interval = DefaultInterval
      BY DEF NewDevice
    <3>3. Covered(DefaultInterval)
      BY DEF Timely
    <3>4. Steady(e, dev'[e])
      BY <3>1, <3>2, <3>3 DEF Steady
    <3>5. OnTime(e)' /\ Granted(e)'
      BY <3>1, <3>2 DEF OnTime, Granted
    <3> QED  BY <3>4, <3>5
  <2> QED  BY <2>2, <2>3
<1>6. refusing' = FALSE
  BY DEF TInv
<1> QED  BY <1>3, <1>4, <1>5, <1>6 DEF TInv, Steady, Covered

LEMMA CloseInTime ==
  ASSUME Timely, NInv, TInv, NEW a \in App, NEW d \in Dev, CloseNext(a, d),
         UNCHANGED clients
  PROVE  TInv'
<1>1. /\ AppOf[d] = a /\ toHub[a] = << >> /\ Len(job[a].todo) = 1
      /\ job'[a] = NoJob /\ \A b \in App : b # a => job'[b] = job[b]
  <2>1. Turn(a, "close", d) /\ Advance(a, TRUE)
    BY DEF CloseNext
  <2>2. /\ AppOf[d] = a /\ toHub[a] = << >> /\ alive[a] /\ Len(job[a].todo) = 1
          /\ \A goOn : Advance(a, goOn) =>
               /\ job'[a] = NoJob
               /\ \A b \in App : b # a => job'[b] = job[b]
    BY <2>1, TurnIsLast
  <2> QED  BY <2>1, <2>2
<1>2. SendResult = {TRUE}
  BY DEF SendResult, TInv
<1> DEFINE p == Enable(d, Begin(dev[d]), FALSE, TRUE)
<1>3. Broadcast(a, p.out) /\ UNCHANGED refusing
  BY <1>2, Zenon DEF CloseNext
<1>4. /\ dev[d] \in DeviceState /\ Steady(d, dev[d])
      /\ dev[d].enabled => Beats(dev[d])
  BY InTime
<1>5. Outcome(d, dev[d], p)
  BY <1>4, EnableOutcome
<1> HIDE DEF p
<1>6. p.out \in Seq(Own(a)) /\ Len(p.out) <= 3
  BY <1>1, <1>5 DEF Outcome, Told
<1>7. /\ toHub'[a] \in Seq(Own(a))
      /\ \A s \in Sender : s # a => toHub'[s] = toHub[s]
  <2>1. a \in Sender /\ Push(<< >>, p.out) = p.out
    BY <1>6, PushOnEmpty DEF Sender
  <2>2. toHub' = [toHub EXCEPT ![a] = Push(toHub[a], p.out)]
    BY <1>3 DEF Broadcast
  <2> QED  BY <1>1, <1>6, <2>1, <2>2 DEF NInv, DevicesSound, NetworkTypeOK
<1>8. \A e \in Dev : dev'[e] = IF AppOf[e] = a THEN NewDevice(e) ELSE dev[e]
  <2>1. dev' = [dev EXCEPT ![d] = NewDevice(d)]
    BY DEF CloseNext
  <2>2. \A e \in Dev : AppOf[e] = a <=> e = d
    BY <1>1, OneDevice
  <2> QED  BY <2>1, <2>2 DEF NInv, DevicesSound
<1>9. \A b \in App : /\ b # a => alive'[b] = alive[b]
                     /\ toApp'[b] = IF b = a THEN << >> ELSE toApp[b]
  BY <1>1 DEF CloseNext, NInv, DevicesSound, NetworkTypeOK
<1> QED  BY <1>1, <1>3, <1>7, <1>8, <1>9, NewDevicesInTime

LEMMA CrashInTime ==
  ASSUME Timely, NInv, TInv, NEW a \in App, Crash(a), UNCHANGED clients
  PROVE  TInv'
<1>1. /\ \A e \in Dev : dev'[e] = IF AppOf[e] = a THEN NewDevice(e) ELSE dev[e]
      /\ \A b \in App : /\ job'[b] = IF b = a THEN NoJob ELSE job[b]
                        /\ b # a => alive'[b] = alive[b]
                        /\ toApp'[b] = IF b = a THEN << >> ELSE toApp[b]
      /\ UNCHANGED <<refusing, toHub>>
  BY DEF Crash, NInv, DevicesSound, NetworkTypeOK
<1>2. toHub[a] \in Seq(Own(a))
  BY DEF TInv, Origin
<1> QED  BY <1>1, <1>2, NewDevicesInTime

\* Another process is started, or an interval is set while the device is off.
LEMMA OpenInTime ==
  ASSUME Timely, NInv, TInv, NEW a \in App, Open(a), UNCHANGED clients
  PROVE  TInv'
<1>1. /\ ~alive[a] /\ UNCHANGED <<dev, job, toHub, refusing>>
      /\ \A b \in App : /\ b # a => alive'[b] = alive[b]
                        /\ toApp'[b] = IF b = a THEN << >> ELSE toApp[b]
  BY DEF Open, NInv, DevicesSound, NetworkTypeOK
<1>2. Origin'
  <2>1. \A b \in App : toApp'[b] \in Seq(Known)
    BY <1>1, EmptySeq DEF TInv, Origin
  <2> QED  BY <1>1, <2>1 DEF TInv, Origin, Own, Known
<1>3. \A b \in App : Orderly(b)'
  BY <1>1, OrderRests DEF TInv
<1>4. ASSUME NEW e \in Dev
      PROVE  Steady(e, dev'[e]) /\ OnTime(e)' /\ Granted(e)'
  <2>1. /\ Steady(e, dev[e]) /\ OnTime(e) /\ Granted(e)
        /\ AppOf[e] \in App
    BY InTime
  <2>2. Granted(e)'
    BY <1>1, <2>1, GrantRests
  <2>3. CASE AppOf[e] = a
    <3>1. ~dev[e].enabled
      BY <1>1, <2>1, <2>3 DEF OnTime
    <3> QED  BY <1>1, <2>1, <2>2, <3>1 DEF OnTime
  <2>4. CASE AppOf[e] # a
    BY <1>1, <2>1, <2>2, <2>4, DeviceRests
  <2> QED  BY <2>3, <2>4
<1>5. refusing' = FALSE
  BY <1>1 DEF TInv
<1> QED  BY <1>2, <1>3, <1>4, <1>5 DEF TInv, Steady, Covered

LEMMA SetIntervalInTime ==
  ASSUME Timely, NInv, TInv, NEW d \in Dev, NEW i \in Interval, SetInterval(d, i),
         ~dev[d].enabled, UNCHANGED clients
  PROVE  TInv'
<1>1. UNCHANGED <<alive, job, toHub, toApp, refusing>>
  BY DEF SetInterval
<1>2. \A e \in Dev : e # d => dev'[e] = dev[e]
  BY DEF SetInterval, NInv, DevicesSound
<1>3. /\ dev'[d].enabled = dev[d].enabled /\ dev'[d].interval = i
      /\ dev'[d].hbeat_msg = dev[d].hbeat_msg
  <2>1. dev[d] \in DeviceState /\ dev'[d] = [dev[d] EXCEPT !.interval = i]
    BY DEF SetInterval, NInv, DevicesSound
  <2> QED  BY <2>1 DEF DeviceState
<1>4. Origin' /\ \A b \in App : Orderly(b)'
  <2>1. Origin'
    BY <1>1 DEF TInv, Origin, Own, Known
  <2> QED  BY <1>1, <2>1, OrderRests DEF TInv
<1>5. ASSUME NEW e \in Dev
      PROVE  Steady(e, dev'[e]) /\ OnTime(e)' /\ Granted(e)'
  <2>1. Steady(e, dev[e]) /\ OnTime(e) /\ Granted(e) /\ AppOf[e] \in App
    BY InTime
  <2>2. CASE e = d
    <3>1. Covered(i)
      BY DEF Timely
    <3>2. Steady(e, dev'[e])
      BY <1>3, <2>1, <2>2, <3>1 DEF Steady
    <3> QED  BY <1>3, <2>2, <3>2 DEF OnTime, Granted
  <2>3. CASE e # d
    BY <1>1, <1>2, <2>1, <2>3, DeviceRests, GrantRests
  <2> QED  BY <2>2, <2>3
<1>6. refusing' = FALSE
  BY <1>1 DEF TInv
<1> QED  BY <1>4, <1>5, <1>6 DEF TInv, Steady, Covered

-----------------------------------------------------------------------------
(* The steps of the hub, of the network and of the clock.                  *)

\* Taking the first of a queue leaves its last one, unless that was the first.
LEMMA LastIsKept ==
  ASSUME NEW S, NEW q \in Seq(S), q # << >>
  PROVE  IF Tail(q) = << >> THEN q[Len(q)] = Head(q)
                            ELSE Tail(q)[Len(Tail(q))] = q[Len(q)]
<1> DEFINE t == Tail(q)
           n == Len(q)
<1>1. /\ Head(q) = q[1] /\ t \in Seq(S) /\ Len(t) = n - 1
      /\ \A i \in 1 .. Len(t) : t[i] = q[i + 1]
  BY HeadTailProperties
<1> HIDE DEF t
<1>2. n \in Nat /\ Len(t) \in Nat
  BY <1>1, LenProperties
<1>3. t = << >> <=> Len(t) = 0
  BY <1>1, EmptySeq
<1> HIDE DEF n
<1>4. CASE t = << >>
  <2>1. n = 1
    BY <1>1, <1>2, <1>3, <1>4
  <2> QED  BY <1>1, <1>4, <2>1 DEF n, t
<1>5. CASE t # << >>
  <2>1. Len(t) \in 1 .. Len(t) /\ Len(t) + 1 = n
    BY <1>1, <1>2, <1>3, <1>5
  <2>2. t[Len(t)] = q[Len(t) + 1]
    BY <1>1, <2>1
  <2> QED  BY <1>5, <2>1, <2>2 DEF n, t
<1> QED  BY <1>4, <1>5

\* What happens to queues and table alone.
LEMMA TransitInTime ==
  ASSUME NInv, TInv, UNCHANGED devVars,
         \A a \in App : /\ toHub'[a] \in Seq(Own(a)) /\ toApp'[a] \in Seq(Known)
                        /\ toHub[a] = << >> => toHub'[a] = << >>,
         toHub'[Manager] \in Seq(Traffic),
         \A d \in Dev : Granted(d)'
  PROVE  TInv'
<1>1. UNCHANGED <<alive, dev, job, refusing>>
  BY DEF devVars
<1>2. Origin'
  BY <1>1 DEF TInv, Origin, Own, Known
<1>3. \A b \in App : Orderly(b)'
  BY <1>1 DEF TInv, Orderly, Asked
<1>4. \A d \in Dev : Steady(d, dev'[d]) /\ OnTime(d)'
  BY <1>1, InTime, DeviceRests
<1>5. refusing' = FALSE
  BY <1>1 DEF TInv
<1> QED  BY <1>2, <1>3, <1>4, <1>5 DEF TInv, Steady, Covered

\* The hub reads a heartbeat of an application, or what comes from elsewhere.
LEMMA HubReadsInTime ==
  ASSUME Timely, NInv, TInv, NEW s \in Sender, HubPollMessage(s), UNCHANGED devVars
  PROVE  TInv'
<1> DEFINE m == Head(toHub[s])
<1>1. /\ toHub[s] # << >> /\ toHub'[s] = Tail(toHub[s])
      /\ \A t \in Sender : t # s => toHub'[t] = toHub[t]
  BY DEF HubPollMessage, NInv, DevicesSound, NetworkTypeOK
<1>2. \A a \in App : a \in Sender /\ a # Manager /\ a \in Local
  BY NetworkAssumption, HubNetAssumption DEF Sender
<1>3. s \in App => m \in Own(s) /\ Tail(toHub[s]) \in Seq(Own(s))
  BY <1>1, TakeType DEF TInv, Origin
<1>4. s = Manager => m \in Traffic /\ Tail(toHub[s]) \in Seq(Traffic)
  BY <1>1, TakeType DEF TInv, Origin
<1>5. m \in Msg /\ m \in Known
  <2>1. s \in App \/ s = Manager
    BY DEF Sender
  <2> QED  BY <1>3, <1>4, <2>1, HubNetAssumption DEF Own, Known, Msg
<1>6. IsLocalHeartbeat(m) <=> s \in App
  <2>1. CASE s \in App
    <3>1. m.kind \in {"app", "end"} /\ m.addr \in Local
      BY <1>2, <1>3, <2>1 DEF Own, HeartbeatMsg
    <3> QED  BY <2>1, <3>1 DEF IsLocalHeartbeat
  <2>2. CASE s = Manager
    BY <1>2, <1>4, <2>2 DEF Timely
  <2> QED  BY <2>1, <2>2 DEF Sender
<1>7. \A c \in Clients' :
        \/ c \in Clients /\ (IsLocalHeartbeat(m) => c.addr # m.addr)
        \/ IsLocalHeartbeat(m) /\ c = Fresh(m)
  BY <1>5, TableAfterMessage DEF HubPollMessage, NInv, HubSound
<1>8. ASSUME NEW a \in App
      PROVE  /\ toHub'[a] \in Seq(Own(a))
             /\ toHub[a] = << >> => toHub'[a] = << >>
  <2>1. CASE a = s
    BY <1>1, <1>3, <2>1
  <2>2. CASE a # s
    BY <1>1, <1>2, <2>2 DEF TInv, Origin
  <2> QED  BY <2>1, <2>2
<1>9. toHub'[Manager] \in Seq(Traffic)
  <2>1. CASE s = Manager
    BY <1>1, <1>4, <2>1
  <2>2. CASE s # Manager
    BY <1>1, <2>2 DEF TInv, Origin, Sender
  <2> QED  BY <2>1, <2>2
<1>10. \A a \in App : toApp'[a] \in Seq(Known)
  <2>1. \A a \in App : toApp[a] \in Seq(Known) /\ Push(toApp[a], <<m>>) \in Seq(Known)
    BY <1>5, PushOneType DEF TInv, Origin
  <2> QED  BY <2>1 DEF HubPollMessage, Relay
<1>11. ASSUME NEW d \in Dev
       PROVE  Granted(d)'
  <2>1. /\ Granted(d) /\ OnTime(d) /\ AppOf[d] \in App
        /\ dev[d].elapsed \in Nat /\ UNCHANGED dev
    BY InTime DEF devVars
  <2>2. CASE AppOf[d] # s
    <3>1. toHub'[AppOf[d]] = toHub[AppOf[d]]
      BY <1>1, <1>2, <2>1, <2>2
    <3>2. ASSUME NEW c \in Clients', c.addr = AppOf[d]
          PROVE  c \in Clients
      <4>1. CASE IsLocalHeartbeat(m) /\ c = Fresh(m)
        <5>1. c.addr = s
          BY <1>3, <1>6, <4>1, FreshClient, <1>5 DEF Own
        <5> QED  BY <2>2, <3>2, <5>1
      <4> QED  BY <1>7, <4>1
    <3> QED  BY <2>1, <3>1, <3>2 DEF Granted
  <2>3. CASE AppOf[d] = s
    <3>1. s \in App /\ IsLocalHeartbeat(m) /\ m.addr = s
      BY <1>3, <1>6, <2>1, <2>3 DEF Own
    <3>2. dev[d].enabled => toHub[s][Len(toHub[s])] = dev[d].hbeat_msg
      BY <1>1, <2>1, <2>3 DEF Granted
    <3>3. toHub[s] \in Seq(Own(s))
      BY <3>1 DEF TInv, Origin
    <3>4. CASE Tail(toHub[s]) = << >>
      <4>1. dev[d].enabled => m = dev[d].hbeat_msg
        BY <1>1, <3>2, <3>3, <3>4, LastIsKept
      <4>2. dev[d].enabled => m.interval = dev[d].interval \div Minute
        BY <2>1, <4>1 DEF OnTime, Beats
      <4>3. Fresh(m).idle = 0 /\ Fresh(m).hbeat_period_max = PeriodMax(m.interval)
        BY <1>5, <3>1, FreshClient
      <4>4. \A c \in Clients' : c.addr = s => c = Fresh(m)
        BY <1>7, <3>1
      <4>5. ASSUME dev[d].enabled, NEW c \in Clients', c.addr = s
            PROVE  c.idle <= dev[d].elapsed /\ c.hbeat_period_max = Patience(dev[d].interval)
        BY <2>1, <4>2, <4>3, <4>4, <4>5 DEF Patience
      <4> QED  BY <1>1, <2>1, <2>3, <3>4, <4>5 DEF Granted
    <3>5. CASE Tail(toHub[s]) # << >>
      <4>1. Tail(toHub[s])[Len(Tail(toHub[s]))] = toHub[s][Len(toHub[s])]
        BY <1>1, <3>3, <3>5, LastIsKept
      <4> QED  BY <1>1, <2>1, <2>3, <3>2, <3>5, <4>1 DEF Granted
    <3> QED  BY <3>4, <3>5
  <2> QED  BY <2>2, <2>3
<1> QED  BY <1>8, <1>9, <1>10, <1>11, TransitInTime

\* The hub forgets some clients, or all, or none; a datagram gets lost only while
\* no hub runs, that is, while there are no clients.
LEMMA HubRestInTime ==
  ASSUME Timely, NInv, TInv, UNCHANGED devVars,
         SweepStep \/ SweepEnd \/ HubPollIdle \/ HubStart \/ HubCrash \/ HubLoss
  PROVE  TInv'
<1>1. CASE SweepStep \/ SweepEnd \/ HubPollIdle \/ HubStart \/ HubCrash
  <2>1. UNCHANGED <<toHub, toApp>>
    BY <1>1 DEF SweepStep, SweepEnd, HubPollIdle, HubStart, HubCrash
  <2>2. \A c \in Clients' : c \in Clients
    <3>1. CASE SweepStep
      BY <3>1, SweepStepKeeps DEF NInv, DevicesSound
    <3>2. CASE SweepEnd \/ HubPollIdle \/ HubStart
      BY <3>2 DEF SweepEnd, HubPollIdle, HubStart, Clients
    <3>3. CASE HubCrash
      BY <3>3, EmptySeq DEF HubCrash, Clients, ToSet
    <3> QED  BY <1>1, <3>1, <3>2, <3>3
  <2>3. \A d \in Dev : Granted(d)'
    BY <2>1, <2>2, InTime DEF Granted, devVars
  <2>4. /\ \A a \in App : toHub'[a] \in Seq(Own(a)) /\ toApp'[a] \in Seq(Known)
        /\ toHub'[Manager] \in Seq(Traffic)
    BY <2>1 DEF TInv, Origin
  <2> QED  BY <2>1, <2>3, <2>4, TransitInTime
<1>2. CASE HubLoss
  <2>1. PICK s \in Sender : LoseToHub(s)
    BY <1>2 DEF HubLoss
  <2>2. ~up /\ UNCHANGED hubState
    BY <1>2 DEF HubLoss, Timely
  <2>3. clients' = << >>
    BY <2>2 DEF NInv, HubSound, hubState
  <2>4. Clients' = {}
    BY <2>3, EmptySeq DEF Clients, ToSet
  <2>5. /\ toHub[s] # << >> /\ toHub'[s] = Tail(toHub[s]) /\ toApp' = toApp
        /\ \A t \in Sender : t # s => toHub'[t] = toHub[t]
    BY <2>1 DEF LoseToHub, NInv, DevicesSound, NetworkTypeOK
  <2>6. ASSUME NEW a \in App
        PROVE  /\ toHub'[a] \in Seq(Own(a)) /\ toApp'[a] \in Seq(Known)
               /\ toHub[a] = << >> => toHub'[a] = << >>
               /\ toHub'[a] # << >> => toHub'[a][Len(toHub'[a])] = toHub[a][Len(toHub[a])]
    <3>1. a \in Sender /\ toHub[a] \in Seq(Own(a)) /\ toApp[a] \in Seq(Known)
      BY DEF Sender, TInv, Origin
    <3>2. CASE a = s
      BY <2>5, <3>1, <3>2, TakeType, LastIsKept
    <3>3. CASE a # s
      BY <2>5, <3>1, <3>3
    <3> QED  BY <3>2, <3>3
  <2>7. toHub'[Manager] \in Seq(Traffic)
    <3>1. toHub[Manager] \in Seq(Traffic) /\ Manager \in Sender
      BY DEF TInv, Origin, Sender
    <3>2. CASE s = Manager
      BY <2>5, <3>1, <3>2, TakeType
    <3> QED  BY <2>5, <3>1, <3>2
  <2>8. ASSUME NEW d \in Dev
        PROVE  Granted(d)'
    <3>1. Granted(d) /\ AppOf[d] \in App /\ UNCHANGED dev
      BY InTime DEF devVars
    <3>2. toHub'[AppOf[d]] # << >> => toHub[AppOf[d]] # << >>
      BY <2>6, <3>1
    <3> QED  BY <2>4, <2>6, <3>1, <3>2 DEF Granted
  <2> QED  BY <2>6, <2>7, <2>8, TransitInTime
<1> QED  BY <1>1, <1>2

LEMMA ManagerInTime ==
  ASSUME Timely, NInv, TInv, ManagerSends, UNCHANGED hubState
  PROVE  TInv'
<1>1. PICK m \in Traffic : Broadcast(Manager, <<m>>)
  BY DEF ManagerSends
<1>2. /\ UNCHANGED devVars /\ toApp' = toApp /\ Clients' = Clients
      /\ toHub' = [toHub EXCEPT ![Manager] = Push(toHub[Manager], <<m>>)]
  BY <1>1 DEF ManagerSends, Broadcast, hubState, Clients
<1>3. \A a \in App : a \in Sender /\ a # Manager
  BY NetworkAssumption DEF Sender
<1>4. \A a \in App : toHub'[a] = toHub[a]
  BY <1>2, <1>3 DEF NInv, DevicesSound, NetworkTypeOK
<1>5. toHub'[Manager] \in Seq(Traffic)
  <2>1. Push(toHub[Manager], <<m>>) \in Seq(Traffic)
    BY PushOneType DEF TInv, Origin
  <2> QED  BY <1>2, <2>1 DEF Sender, NInv, DevicesSound, NetworkTypeOK
<1>6. \A a \in App : /\ toHub'[a] \in Seq(Own(a)) /\ toApp'[a] \in Seq(Known)
                     /\ toHub[a] = << >> => toHub'[a] = << >>
  BY <1>2, <1>4 DEF TInv, Origin
<1>7. \A d \in Dev : Granted(d)'
  BY <1>2, <1>4, InTime DEF Granted, devVars
<1> QED  BY <1>2, <1>5, <1>6, <1>7, TransitInTime

\* The clock: nothing is due, nothing is on its way, and an application that sleeps
\* has a tick less to sleep.
LEMMA TickInTime ==
  ASSUME Timely, NInv, TInv, Tick
  PROVE  TInv'
<1>1. /\ HubTick /\ DeviceTick /\ Quiet /\ UNCHANGED <<toHub, toApp, alive, refusing>>
  BY DEF Tick, Timely, DeviceTick
<1>2. ASSUME NEW d \in Dev
      PROVE  /\ dev'[d].enabled = dev[d].enabled /\ dev'[d].interval = dev[d].interval
             /\ dev'[d].hbeat_msg = dev[d].hbeat_msg
             /\ dev'[d].elapsed = Older(dev[d].elapsed)
  <2>1. dev[d] \in DeviceState /\ dev'[d] = [dev[d] EXCEPT !.elapsed = Older(dev[d].elapsed)]
    BY <1>1 DEF DeviceTick, NInv, DevicesSound
  <2> QED  BY <2>1 DEF DeviceState
<1>3. ASSUME NEW a \in App
      PROVE  /\ job'[a].what = job[a].what /\ job'[a].msg = job[a].msg
             /\ job'[a].todo = job[a].todo /\ job[a].wait \in Nat
             /\ job'[a].wait = IF job[a].wait > 0 THEN job[a].wait - 1 ELSE job[a].wait
  <2>1. /\ job[a] \in Job
        /\ job'[a] = [job[a] EXCEPT !.wait = IF job[a].wait > 0 THEN job[a].wait - 1
                                                                ELSE job[a].wait]
    BY <1>1 DEF DeviceTick, NInv, DevicesSound
  <2>2. job[a].wait \in Nat
    BY <2>1, DeviceAssumption DEF Job
  <2> QED  BY <2>1, <2>2 DEF Job
<1>4. Origin'
  BY <1>1, <1>3 DEF TInv, Origin, Own, Known
<1>5. ASSUME NEW b \in App
      PROVE  Orderly(b)'
  <2>1. Orderly(b)
    BY DEF TInv
  <2>2. (Asked(b))' <=> Asked(b)
    BY <1>3 DEF Asked
  <2> QED  BY <1>1, <1>3, <2>1, <2>2 DEF Orderly
<1>6. ASSUME NEW d \in Dev
      PROVE  Steady(d, dev'[d]) /\ OnTime(d)' /\ Granted(d)'
  <2> DEFINE a == AppOf[d]
             x == dev[d].elapsed
             w == job[a].wait
  <2>1. /\ a \in App /\ a \in Sender /\ x \in Nat /\ dev[d].interval \in Nat
        /\ Steady(d, dev[d]) /\ OnTime(d) /\ Granted(d) /\ Orderly(a)
        /\ Patience(dev[d].interval) \in Nat
    BY InTime
  <2>2. Steady(d, dev'[d])
    BY <1>2, <2>1 DEF Steady
  <2>3. Older(x) \in Nat /\ Older(x) <= x + 1
    BY <2>1, NetworkAssumption DEF Older
  <2>4. (Asked(a))' <=> Asked(a)
    BY <1>3, <2>1 DEF Asked
  <2>5. toHub[a] = << >>
    BY <1>1, <2>1 DEF Quiet
  <2>6. ASSUME dev[d].enabled, Asleep(a)
        PROVE  /\ Asked(a) /\ Older(x) + (w - 1) <= Patience(dev[d].interval)
               /\ job'[a].wait = w - 1
    <3>1. Asked(a) /\ w > 0 /\ w \in Nat /\ job'[a].wait = w - 1
      BY <1>3, <2>1, <2>6 DEF Asleep, Orderly
    <3>2. x + w <= Patience(dev[d].interval)
      BY <2>1, <2>6, <3>1 DEF OnTime
    <3> QED  BY <2>1, <2>3, <3>1, <3>2
  <2>7. ASSUME dev[d].enabled, ~Asleep(a)
        PROVE  ~Asked(a) /\ Older(x) + MaxDelay <= Patience(dev[d].interval)
    <3>1. alive[a]
      BY <2>1, <2>7 DEF OnTime
    <3>2. job[a].what = "none" /\ ~IsDue(d, dev[d])
      BY <1>1, <2>1, <2>7, <3>1 DEF Quiet, Waiting
    <3>3. \/ x < ConfigInterval \/ x < dev[d].interval \/ x < DiscoveryInterval
      BY SMTT(30), <2>1, <2>7, <3>2, DeviceAssumption DEF IsDue
    <3>4. /\ dev[d].interval + MaxDelay <= Patience(dev[d].interval)
          /\ ConfigInterval + MaxDelay <= Patience(dev[d].interval)
          /\ DiscoveryInterval + MaxDelay <= Patience(dev[d].interval)
      BY <2>1, PatienceType DEF Steady
    <3>5. x + 1 + MaxDelay <= Patience(dev[d].interval)
      <4>1. \A t, p, n \in Nat : x < t /\ t + n <= p => x + 1 + n <= p
        BY <2>1
      <4>2. /\ ConfigInterval \in Nat /\ DiscoveryInterval \in Nat /\ MaxDelay \in Nat
            /\ dev[d].interval \in Nat /\ Patience(dev[d].interval) \in Nat
        BY <2>1, DeviceAssumption
      <4> QED  BY <3>3, <3>4, <4>1, <4>2
    <3> QED  BY <2>1, <2>3, <3>2, <3>5, DeviceAssumption DEF Asked
  <2>8. OnTime(d)'
    <3>1. dev[d].enabled => alive'[a] /\ Beats(dev'[d])
      BY <1>1, <1>2, <2>1 DEF OnTime, Beats
    <3>2. CASE dev[d].enabled /\ Asleep(a)
      BY <1>2, <2>4, <2>6, <3>1, <3>2 DEF OnTime
    <3>3. CASE dev[d].enabled /\ ~Asleep(a)
      BY <1>2, <2>4, <2>7, <3>1, <3>3 DEF OnTime
    <3>4. CASE ~dev[d].enabled
      BY <1>2, <3>4 DEF OnTime
    <3> QED  BY <3>2, <3>3, <3>4
  <2>9. Granted(d)'
    <3>1. toHub'[a] = << >>
      BY <1>1, <2>5
    <3>2. ASSUME dev[d].enabled, NEW c \in Clients', c.addr = a
          PROVE  c.idle <= Older(x) /\ c.hbeat_period_max = Patience(dev[d].interval)
      <4>1. PICK b \in Clients : /\ c.addr = b.addr /\ c.idle = Older(b.idle)
                                 /\ c.hbeat_period_max = b.hbeat_period_max
                                 /\ b \in Client
        BY <1>1, TableAfterTick DEF NInv, HubSound
      <4>2. b.idle <= x /\ b.hbeat_period_max = Patience(dev[d].interval)
        BY <2>1, <2>5, <3>2, <4>1 DEF Granted
      <4>3. b.idle \in Nat
        BY <4>1, NetworkAssumption DEF Client
      <4>4. Older(b.idle) <= Older(x)
        BY <2>1, <4>2, <4>3, NetworkAssumption DEF Older
      <4> QED  BY <4>1, <4>2, <4>4
    <3> QED  BY <1>2, <3>1, <3>2 DEF Granted
  <2> QED  BY <2>2, <2>8, <2>9
<1>7. refusing' = FALSE
  BY <1>1 DEF TInv
<1> QED  BY <1>4, <1>5, <1>6, <1>7 DEF TInv, Steady, Covered

-----------------------------------------------------------------------------
(* Every step, and the beginning.                                          *)

LEMMA TInvStep ==
  ASSUME Timely
  PROVE  NInv /\ TInv /\ [Next]_vars => TInv'
<1> SUFFICES ASSUME NInv, TInv, [Next]_vars
             PROVE  TInv'
  OBVIOUS
<1>0. UNCHANGED hubState => UNCHANGED clients
  BY DEF hubState
<1>1. ASSUME NEW a \in App, AppStep(a), UNCHANGED hubState
      PROVE  TInv'
  <2>1. CASE AppLoop(a)
    BY <1>0, <1>1, <2>1, BeginsInTime DEF AppLoop
  <2>2. CASE AppTurn(a)
    BY <1>0, <1>1, <2>2, HandleMessageInTime, LoopInTime, CloseInTime DEF AppTurn
  <2> QED  BY <1>1, <2>1, <2>2 DEF AppStep
<1>2. CASE Program /\ UNCHANGED hubState
  <2>1. ASSUME NEW a \in App, Heard(a), DisableAll(a) \/ Close(a) \/ Open(a)
        PROVE  TInv'
    BY <1>0, <1>2, <2>1, BeginsInTime, OpenInTime
  <2>2. ASSUME NEW d \in Dev, Heard(AppOf[d]),
               \/ \E on \in BOOLEAN : SetEnabled(d, on)
               \/ \E id \in NewId[d] : SetId(d, id)
               \/ \E i \in Interval : (dev[d].enabled => RetuneLive) /\ SetInterval(d, i)
        PROVE  TInv'
    <3>1. CASE \E on \in BOOLEAN : SetEnabled(d, on)
      BY <1>0, <1>2, <2>2, <3>1, ProgramInTime
    <3>2. CASE \E id \in NewId[d] : SetId(d, id)
      <4>1. NewId[d] \subseteq Id
        BY HubNetAssumption
      <4> QED  BY <1>0, <1>2, <2>2, <3>2, <4>1, ProgramInTime
    <3>3. CASE \E i \in Interval : (dev[d].enabled => RetuneLive) /\ SetInterval(d, i)
      BY <1>0, <1>2, <3>3, SetIntervalInTime DEF Timely
    <3> QED  BY <2>2, <3>1, <3>2, <3>3
  <2> QED  BY <1>2, <2>1, <2>2 DEF Program
<1>3. CASE (HubStep \/ HubStart \/ HubLoss \/ HubCrash) /\ UNCHANGED devVars
  BY <1>3, HubReadsInTime, HubRestInTime DEF HubStep
<1>4. CASE ManagerSends /\ UNCHANGED hubState
  BY <1>4, ManagerInTime
<1>5. CASE (\E a \in App : Crash(a)) /\ UNCHANGED hubState
  BY <1>0, <1>5, CrashInTime
<1>6. CASE Tick
  BY <1>6, TickInTime
<1>7. CASE UNCHANGED vars
  <2>1. UNCHANGED devVars /\ UNCHANGED <<clients, toHub, toApp>>
    BY <1>7 DEF vars, devVars
  <2>2. /\ \A a \in App : toHub'[a] \in Seq(Own(a)) /\ toApp'[a] \in Seq(Known)
        /\ toHub'[Manager] \in Seq(Traffic)
    BY <2>1 DEF TInv, Origin
  <2>3. \A d \in Dev : Granted(d)'
    BY <2>1, InTime, GrantRests DEF devVars
  <2> QED  BY <2>1, <2>2, <2>3, TransitInTime
<1> QED
  BY <1>1, <1>2, <1>3, <1>4, <1>5, <1>6, <1>7 DEF Next, Failure, Timely

LEMMA TInvInit ==
  ASSUME Timely
  PROVE  Init => TInv
<1> SUFFICES ASSUME Init
             PROVE  TInv
  OBVIOUS
<1>1. /\ dev = [d \in Dev |-> NewDevice(d)] /\ job = [a \in App |-> NoJob]
      /\ refusing = FALSE /\ toHub = [s \in Sender |-> << >>]
      /\ toApp = [a \in App |-> << >>]
  BY DEF Init, DeviceInit, NetworkInit
<1>2. NoJob.what = "none" /\ NoJob.wait = 0 /\ NoJob.msg = NoMsg
  BY DEF NoJob
<1>3. Origin
  BY <1>1, <1>2, EmptySeq DEF Origin, Sender
<1>4. ASSUME NEW a \in App
      PROVE  Orderly(a)
  <2>1. job[a] = NoJob
    BY <1>1
  <2>2. job[a].what = "none" /\ job[a].wait = 0
    BY <1>2, <2>1
  <2> QED  BY <2>2 DEF Orderly
<1>5. ASSUME NEW d \in Dev
      PROVE  Steady(d, dev[d]) /\ OnTime(d) /\ Granted(d)
  <2>1. /\ dev[d].enabled = FALSE /\ dev[d].hbeat_msg = NoMsg
        /\ dev[d].interval = DefaultInterval
    BY <1>1 DEF NewDevice
  <2>2. Covered(DefaultInterval)
    BY DEF Timely
  <2> QED  BY <2>1, <2>2 DEF Steady, OnTime, Granted
<1> QED  BY <1>1, <1>3, <1>4, <1>5 DEF TInv

\* The hub is never more impatient than a device that is on time.
LEMMA InTimeIsHeard ==
  ASSUME NInv, TInv
  PROVE  OnlyTheDeadExpire
<1> SUFFICES ASSUME NEW c \in Clients, Expired(c),
                    NEW d \in Dev, AppOf[d] = c.addr, dev[d].enabled
             PROVE  HelloOnItsWay(c.addr)
  BY DEF OnlyTheDeadExpire, Live
<1> DEFINE a == AppOf[d]
<1>1. /\ OnTime(d) /\ Granted(d) /\ dev[d].elapsed \in Nat /\ a \in App
      /\ Patience(dev[d].interval) \in Nat /\ Orderly(a)
  BY InTime
<1>2. toHub[a] \in Seq(Own(a))
  BY <1>1 DEF TInv, Origin
<1>3. CASE toHub[a] = << >>
  <2>1. c.idle <= dev[d].elapsed /\ c.hbeat_period_max = Patience(dev[d].interval)
    BY <1>1, <1>3 DEF Granted
  <2>2. c \in Client
    <3>1. clients \in Seq(Client)
      BY DEF NInv, HubSound
    <3>2. PICK i \in 1 .. Len(clients) : clients[i] = c
      BY <3>1, ClientsAreSlots
    <3> QED  BY <3>1, <3>2, ElementOfSeq
  <2>3. c.idle \in Nat /\ job[a].wait \in Nat /\ MaxDelay \in Nat
    <3>1. job[a] \in Job
      BY <1>1 DEF NInv, DevicesSound
    <3> QED  BY <2>2, <3>1, NetworkAssumption, DeviceAssumption DEF Client, Job
  <2>4. dev[d].elapsed <= Patience(dev[d].interval)
    <3>1. CASE Asked(a)
      BY <1>1, <2>3, <3>1 DEF OnTime
    <3>2. CASE ~Asked(a)
      BY <1>1, <2>3, <3>2 DEF OnTime
    <3> QED  BY <3>1, <3>2
  <2> QED  BY <1>1, <2>1, <2>3, <2>4 DEF Expired
<1>4. CASE toHub[a] # << >>
  <2>1. toHub[a][Len(toHub[a])].kind = "app"
    BY <1>1, <1>4 DEF Granted, OnTime, Beats
  <2>2. Len(toHub[a]) \in DOMAIN toHub[a]
    <3> DEFINE q == toHub[a]
    <3>1. q \in Seq(Own(a)) /\ q # << >>
      BY <1>2, <1>4
    <3> HIDE DEF q
    <3>2. DOMAIN q = 1 .. Len(q) /\ Len(q) \in Nat /\ Len(q) # 0
      BY <3>1, LenProperties, EmptySeq
    <3>3. Len(q) \in DOMAIN q
      BY <3>2
    <3> QED  BY <3>3 DEF q
  <2> QED  BY <2>1, <2>2 DEF HelloOnItsWay
<1> QED  BY <1>3, <1>4

\* In a system that keeps up with the clock, the hub counts no application as dead
\* that has an enabled device: whatever intervals are in use, in whatever order it
\* is switched, renamed, configured, asked for heartbeats and restarted.
THEOREM OnlyTheDeadExpireHolds ==
  ASSUME Timely
  PROVE  Spec => []OnlyTheDeadExpire
<1>1. Init => NInv /\ TInv
  BY NInvInit, TInvInit
<1>2. NInv /\ TInv /\ [Next]_vars => (NInv /\ TInv)'
  BY NInvStep, TInvStep
<1>3. NInv /\ TInv => OnlyTheDeadExpire
  BY InTimeIsHeard
<1> QED  BY <1>1, <1>2, <1>3, PTL DEF Spec

=============================================================================
