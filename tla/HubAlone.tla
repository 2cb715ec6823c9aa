------------------------------ MODULE HubAlone ------------------------------
(***************************************************************************)
(* The hub facing an arbitrary network: any sender broadcasts any message  *)
(* of Broadcasts at any time, the applications just read what they are     *)
(* sent, datagrams get lost and the hub process dies and is started again. *)
(***************************************************************************)
EXTENDS Hub

CONSTANT Broadcasts  \* the messages the senders broadcast

ASSUME BroadcastsAssumption == Broadcasts \subseteq Msg

AnySends ==
  /\ \E s \in Sender, m \in Broadcasts :
       Len(toHub[s]) < QueueLen /\ Broadcast(s, <<m>>)
  /\ UNCHANGED <<hubState, toApp>>

AnyReads ==
  /\ \E a \in App : LoseToApp(a)
  /\ UNCHANGED hubState

AloneInit == HubInit /\ NetworkInit

AloneNext ==
  \/ HubStep
  \/ HubCrash \/ HubStart
  \/ HubLoss
  \/ AnySends \/ AnyReads
  \/ HubTick /\ UNCHANGED <<toHub, toApp>>

AloneSpec == AloneInit /\ [][AloneNext]_hubVars

\* gxPLHubPoll is called in an endless loop; nothing else is promised.
AloneFairSpec == AloneSpec /\ WF_hubVars(HubStep)

-----------------------------------------------------------------------------
\* Type correctness of the table of the hub, of its counters and of the queues.
HubTypeOK ==
  /\ NetworkTypeOK
  /\ up \in BOOLEAN
  /\ clients \in Seq(Client)
  /\ polls \in 0 .. SweepPolls - 1
  /\ sweep \in 0 .. Len(clients) + 2

\* No application has two slots: a heartbeat is looked up before it is added
\* (pvVectorFindFirst in prvHandleMessage), through every order of heartbeats,
\* goodbyes, sweeps and restarts.  With two, every message would be relayed to
\* it twice, and its goodbye would leave one of them behind.
OneSlotPerClient ==
  \A i, j \in DOMAIN clients : clients[i].addr = clients[j].addr => i = j

-----------------------------------------------------------------------------
\* The vector of clients, seen as the function from addresses it stands for.
Table ==
  [a \in Members |->
     LET c == CHOOSE c \in Clients : c.addr = a
     IN  [period |-> c.hbeat_period_max, idle |-> c.idle]]

Promise == INSTANCE Membership WITH reg <- Table

\* The hub does what Membership promises: nothing enters, refreshes or leaves
\* the table but on a heartbeat, a goodbye, a silence too long or a restart.
KeepsPromise == Promise!MembershipSpec

\* The sweep passes over the client that follows one it has removed; still, no
\* client that has fallen silent stays in the table forever.
EventuallyExpired == Promise!EventuallyExpired
=============================================================================
